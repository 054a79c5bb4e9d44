------------------------ MODULE CoffeeServiceProofs ------------------------
(***************************************************************************)
(* What holds of CoffeeService for every set of clients, every number of   *)
(* orders and every configuration of the service: its types, the lease,    *)
(* recovery and wakeups first, then the line of orders, which implements   *)
(* OrderLifecycle, and their delivery records.                             *)
(***************************************************************************)
EXTENDS CoffeeService, SequenceTheorems, TLAPS

(***************************************************************************)
(* Typing.  The delivery operators first: each keeps every record a record.*)
(***************************************************************************)
DeliveryType == [Orders -> Record \cup {NoRecord}]

LEMMA SettleType == ASSUME NEW rec \in Record PROVE Settle(rec) \in Record
  BY DEF Settle, Record, Active, Terminal

LEMMA UpdateType ==
  ASSUME delivery \in DeliveryType, NEW o, NEW rec, Update(o, rec),
         o \in Orders => rec \in Record \cup {NoRecord}
  PROVE  delivery' \in DeliveryType /\ cart' = cart
  BY DEF DeliveryType, Update

LEMMA WaitingIsRecord ==
  ASSUME delivery \in DeliveryType, NEW o \in Tracked
  PROVE  o \in Orders /\ delivery[o] \in Record
  BY DEF DeliveryType, Tracked

LEMMA OrderStepsType ==
  ASSUME delivery \in DeliveryType, NEW o,
         \/ Track(o) \/ MarkReady(o) \/ MarkReadyForCart(o)
         \/ MarkHandedOver(o) \/ FailIfMaking(o)
  PROVE  delivery' \in DeliveryType /\ cart' = cart
<1>1. o \in Orders => delivery[o] \in Record \cup {NoRecord}
  BY DEF DeliveryType
<1>2. CASE Track(o)
  <2>1. [status |-> "making", served |-> FALSE, docked |-> FALSE, toCart |-> FALSE]
          \in Record
    BY DEF Record, Active
  <2> QED BY <1>1, <1>2, <2>1, UpdateType DEF Track
<1>3. CASE MarkReady(o)
  <2>1. o \in Waiting => [delivery[o] EXCEPT !.status = "ready", !.served = TRUE,
                                             !.toCart = FALSE] \in Record
    BY WaitingIsRecord DEF Waiting, Record, Active
  <2> QED BY <1>1, <1>3, <2>1, SettleType, UpdateType DEF MarkReady
<1>4. CASE MarkReadyForCart(o)
  <2>1. o \in Tracked => [delivery[o] EXCEPT !.status = "ready", !.toCart = TRUE]
                           \in Record
    BY WaitingIsRecord DEF Record, Active
  <2> QED BY <1>1, <1>4, <2>1, UpdateType DEF MarkReadyForCart
<1>5. CASE MarkHandedOver(o)
  <2>1. o \in Waiting => [delivery[o] EXCEPT !.status = "handed_over",
                            !.served = TRUE, !.toCart = FALSE] \in Record
    BY WaitingIsRecord DEF Waiting, Record, Terminal
  <2> QED BY <1>1, <1>5, <2>1, UpdateType DEF MarkHandedOver
<1>6. CASE FailIfMaking(o)
  <2>1. o \in Tracked => Fail(delivery[o]) \in Record
    BY WaitingIsRecord DEF Fail, Record, Terminal
  <2> QED BY <1>1, <1>6, <2>1, UpdateType DEF FailIfMaking
<1> QED BY <1>2, <1>3, <1>4, <1>5, <1>6

LEMMA CartStepsType ==
  ASSUME delivery \in DeliveryType, NEW o, NEW old,
         FailActive \/ PendingPoll(old) \/ Dock(old) \/ HandoverPoll(o, old)
  PROVE  delivery' \in DeliveryType /\ cart' = cart
<1>1. \A p \in Tracked : p \in Orders /\ delivery[p] \in Record
  BY WaitingIsRecord
<1>2. Pruned(old) \in DeliveryType
  BY DEF Pruned, DeliveryType
<1>3. CASE FailActive
  <2>1. \A p \in Waiting : Fail(delivery[p]) \in Record
    BY <1>1 DEF Waiting, Fail, Record, Terminal
  <2> QED BY <1>3, <2>1 DEF FailActive, DeliveryType
<1>4. CASE PendingPoll(old)
  BY <1>2, <1>4 DEF PendingPoll
<1>5. CASE Dock(old)
  <2>1. \A p \in Waiting : [delivery[p] EXCEPT !.docked = TRUE] \in Record
    BY <1>1 DEF Waiting, Record
  <2>2. \A p \in Orders : Oldest(p) =>
          Settle([delivery[p] EXCEPT !.docked = TRUE]) \in Record
    BY <2>1, SettleType DEF Oldest
  <2> QED BY <1>2, <1>5, <2>2 DEF Dock, DeliveryType
<1>6. CASE HandoverPoll(o, old)
  <2>1. \A rec \in Record : Settle(rec) \in Record
    BY SettleType
  <2> QED BY <1>2, <1>6, <2>1 DEF HandoverPoll, DeliveryType
<1> QED BY <1>3, <1>4, <1>5, <1>6

(* A batch in progress still has an order to enter, and a job that will    *)
(* enter or withdraw an order has one at hand.                             *)
JobOK ==
  \A c \in Clients :
    /\ job[c].place \in {"intake", "enqueue", "poke"} => job[c].left > 0
    /\ job[c].place \in {"enqueue", "withdraw"} => job[c].orders # <<>>

Typed == TypeOK /\ JobOK

LEMMA InitTyped == Init => Typed
<1> SUFFICES ASSUME Init PROVE Typed
  OBVIOUS
<1> USE ServiceAssumption
<1>1. job \in [Clients -> Job] /\ JobOK
  BY DEF Init, Idle, Job, JobOK, ClientPlaces
<1>2. delivery \in [Orders -> Record \cup {NoRecord}] /\ cart \in {"away", "running"}
  BY DEF Init, DeliveryInit
<1>3. pending \in Seq(Orders) /\ reading \in [Orders -> {"none", "ok", "fault", "cancelled"}]
  BY DEF Init, QueueInit
<1>4. {paused, closed, wake, stopping} \subseteq BOOLEAN
  BY DEF Init, LeaseInit, QueueInit
<1>5. created \in 0 .. MaxOrders
  BY DEF Init
<1> QED
  BY <1>1, <1>2, <1>3, <1>4, <1>5
  DEF Typed, TypeOK, Init, LeaseInit, QueueInit, ConsumerPlaces

LEMMA RemoveAtType ==
  ASSUME NEW S, NEW s \in Seq(S), NEW i \in DOMAIN s
  PROVE  RemoveAt(s, i) \in Seq(S)
<1>1. i \in 1 .. Len(s)
  OBVIOUS
<1>2. SubSeq(s, 1, i - 1) \in Seq(S) /\ SubSeq(s, i + 1, Len(s)) \in Seq(S)
  BY <1>1
<1> QED BY <1>2 DEF RemoveAt

LEMMA DepthNat == Typed => Depth \in Nat /\ (Depth = 0 => pending = <<>>)
  BY DEF Typed, TypeOK, Depth

(* The consumer goroutine.                                                 *)
LEMMA ConsumerTyped == Typed /\ ConsumerStep => Typed'
<1> SUFFICES ASSUME Typed, ConsumerStep PROVE Typed'
  OBVIOUS
<1> USE ServiceAssumption DEF Typed
<1>0. JobOK' /\ job' \in [Clients -> Job] /\ at' \in ConsumerPlaces
      /\ UNCHANGED <<purge, job, forCart, created, commands, stopping>>
  BY DEF ConsumerStep, Goto, TypeOK, JobOK, ConsumerPlaces, SelectWake, SelectStop,
         DrainLoop, AwaitClaim, AwaitStop, StartNone, GiveBack, StartOrder,
         LocateCart, PlaceOnShelf, RecordReady, PlaceInCart, RecordHandedOver,
         FinishDrink, OrderErrs, OrderPanics, PauseOnFault, FailDelivery,
         RecoverPanic, ReportOrder, CompleteOrder, ReleaseArm
<1>1. CASE SelectWake
  BY <1>0, <1>1 DEF TypeOK, SelectWake, leaseVars, deliveryVars
<1>2. CASE SelectStop \/ DrainLoop \/ AwaitStop \/ StartNone \/ PlaceOnShelf
           \/ PlaceInCart \/ FinishDrink
  BY <1>0, <1>2 DEF TypeOK, SelectStop, DrainLoop, AwaitStop, StartNone, PlaceOnShelf,
       PlaceInCart, FinishDrink, leaseVars, queueVars, deliveryVars
<1>3. CASE AwaitClaim
  BY <1>0, <1>3 DEF TypeOK, AwaitClaim, Claim, Workers, queueVars, deliveryVars
<1>4. CASE GiveBack \/ ReleaseArm
  BY <1>0, <1>4 DEF TypeOK, GiveBack, ReleaseArm, Release, queueVars, deliveryVars
<1>5. CASE StartOrder
  <2>1. pending # <<>> /\ pending \in Seq(Orders)
    BY <1>5 DEF StartOrder, Start, TypeOK
  <2>2. Head(pending) \in Orders /\ Tail(pending) \in Seq(Orders)
    BY <2>1
  <2> QED BY <1>0, <1>5, <2>2 DEF TypeOK, StartOrder, Start, leaseVars, deliveryVars
<1>6. CASE LocateCart \/ RecordReady \/ RecordHandedOver \/ FailDelivery
  <2>1. delivery' \in DeliveryType /\ cart' = cart
    BY <1>6, OrderStepsType
       DEF TypeOK, DeliveryType, LocateCart, RecordReady, RecordHandedOver,
           FailDelivery, deliveryVars
  <2> QED BY <1>0, <1>6, <2>1
        DEF TypeOK, DeliveryType, LocateCart, RecordReady, RecordHandedOver,
            FailDelivery, leaseVars, queueVars
<1>7. CASE OrderErrs \/ OrderPanics
  BY <1>0, <1>7 DEF TypeOK, OrderErrs, OrderPanics, leaseVars, queueVars, deliveryVars
<1>8. CASE PauseOnFault \/ RecoverPanic
  BY <1>0, <1>8 DEF TypeOK, PauseOnFault, RecoverPanic, Pause, leaseVars, queueVars,
       deliveryVars
<1>9. CASE ReportOrder
  BY <1>0, <1>9 DEF TypeOK, ReportOrder, leaseVars, queueVars, deliveryVars
<1>10. CASE CompleteOrder
  BY <1>0, <1>10 DEF TypeOK, CompleteOrder, Complete, leaseVars, deliveryVars
<1> QED
  BY <1>1, <1>2, <1>3, <1>4, <1>5, <1>6, <1>7, <1>8, <1>9, <1>10 DEF ConsumerStep

(* The keep-alive goroutine.                                               *)
LEMMA PurgeTyped == Typed /\ PurgeStep => Typed'
<1> SUFFICES ASSUME Typed, PurgeStep PROVE Typed'
  OBVIOUS
<1> USE ServiceAssumption DEF Typed
<1>1. purge' \in {"tick", "count", "claim", "purging", "stopped"}
      /\ UNCHANGED <<queueVars, deliveryVars, at, brewing, reading, job, forCart,
                     created, commands, stopping, recovery>>
  BY DEF PurgeStep, TickLease, TickQueue, PurgeClaim, PurgeEnd, PurgeStop, PurgeGoto
<1>2. holder' \in Workers \cup {Free} /\ paused' \in BOOLEAN /\ closed' \in BOOLEAN
      /\ ctx' \in Nat /\ grant' \in Nat /\ cancelled' \subseteq Nat
  BY DEF TypeOK, PurgeStep, TickLease, TickQueue, PurgeClaim, PurgeEnd, PurgeStop,
         Claim, Release, Workers, leaseVars
<1> QED BY <1>1, <1>2 DEF TypeOK, JobOK, queueVars, deliveryVars

(* The clients.  Giving one client a well-formed job keeps them all so.    *)
JobShape(j) ==
  /\ j \in Job
  /\ j.place \in {"intake", "enqueue", "poke"} => j.left > 0
  /\ j.place \in {"enqueue", "withdraw"} => j.orders # <<>>

LEMMA JobUpdate ==
  ASSUME Typed, NEW c \in Clients, NEW j, JobShape(j), job' = [job EXCEPT ![c] = j]
  PROVE  job' \in [Clients -> Job] /\ JobOK'
  BY DEF Typed, TypeOK, JobOK, JobShape

LEMMA IdleShape ==
  ASSUME NEW p \in ClientPlaces, p \notin {"intake", "enqueue", "poke", "withdraw"}
  PROVE  JobShape([Idle EXCEPT !.place = p])
<1>1. <<>> \in Seq(Orders)
  OBVIOUS
<1> QED BY <1>1 DEF Idle, JobShape, Job

LEMMA JobShapeIdle == JobShape(Idle)
<1>1. "idle" \in ClientPlaces /\ <<>> \in Seq(Orders)
  BY DEF ClientPlaces
<1> QED BY <1>1 DEF Idle, JobShape, Job

LEMMA MoveTyped ==
  ASSUME Typed, NEW c \in Clients, NEW from, NEW to \in ClientPlaces, Move(c, from, to),
         to \in {"intake", "enqueue", "poke"} => from \in {"enqueue", "poke"},
         to \notin {"enqueue", "withdraw"}
  PROVE  job' \in [Clients -> Job] /\ JobOK'
<1>1. job[c] \in Job
  BY DEF Typed, TypeOK
<1>2. JobShape([job[c] EXCEPT !.place = to])
  BY <1>1 DEF JobShape, Job, Move, Typed, JobOK
<1> QED BY <1>2, JobShapeIdle, JobUpdate DEF Move

LEMMA ReceiveTyped ==
  ASSUME Typed, NEW c \in Clients, NEW new, Receive(c, new), JobShape(new)
  PROVE  job' \in [Clients -> Job] /\ JobOK' /\ commands' \in Nat
<1>1. job' \in [Clients -> Job] /\ JobOK'
  BY JobUpdate DEF Receive
<1>2. commands' \in Nat
  BY DEF Receive, Typed, TypeOK
<1> QED BY <1>1, <1>2

ClientFrame == <<at, brewing, reading, purge, stopping>>

(* The lease, under every operator of it.                                  *)
LeaseType ==
  /\ holder \in Workers \cup {Free}
  /\ paused \in BOOLEAN /\ closed \in BOOLEAN
  /\ ctx \in Nat /\ grant \in Nat /\ cancelled \subseteq Nat

LEMMA LeaseTyped ==
  ASSUME LeaseType,
         \/ UNCHANGED leaseVars
         \/ \E who \in Workers, r \in BOOLEAN : Claim(who, r)
         \/ Release \/ Pause \/ Unpause \/ SignalCancel \/ Shutdown
  PROVE  LeaseType'
<1>1. CASE UNCHANGED leaseVars
  BY <1>1 DEF LeaseType, leaseVars
<1>2. CASE \E who \in Workers, r \in BOOLEAN : Claim(who, r)
  BY <1>2 DEF LeaseType, Claim
<1>3. CASE Release \/ Pause \/ Unpause
  BY <1>3 DEF LeaseType, Release, Pause, Unpause
<1>4. CASE SignalCancel
  <2>1. cancelled \cup {ctx} \subseteq Nat /\ ctx + 1 \in Nat
    BY DEF LeaseType
  <2> QED BY <1>4, <2>1 DEF LeaseType, SignalCancel
<1>5. CASE Shutdown
  BY <1>5 DEF LeaseType, Shutdown
<1> QED BY <1>1, <1>2, <1>3, <1>4, <1>5

LEMMA ClientCommandTyped ==
  ASSUME Typed, NEW c \in Clients, ClientCommand(c) PROVE Typed'
<1> USE ServiceAssumption DEF Typed
<1>a. LeaseType /\ c \in Workers
  BY DEF TypeOK, LeaseType, Workers
<1>1. CASE \E n \in 1 .. MaxBatch, bring \in BOOLEAN : PrepareOrder(c, n, bring)
  <2> PICK n \in 1 .. MaxBatch, bring \in BOOLEAN : PrepareOrder(c, n, bring)
    BY <1>1
  <2>0. <<>> \in Seq(Orders) /\ "intake" \in ClientPlaces /\ n \in Nat /\ n > 0
    BY DEF ClientPlaces
  <2>1. JobShape([Idle EXCEPT !.place = "intake", !.left = n, !.delivery = bring])
    BY <2>0 DEF Idle, JobShape, Job
  <2>2. job' \in [Clients -> Job] /\ JobOK' /\ commands' \in Nat
    BY <2>1, ReceiveTyped DEF PrepareOrder
  <2> QED BY <2>2 DEF TypeOK, PrepareOrder, Receive, leaseVars, queueVars, deliveryVars
<1>2. CASE ClearQueue(c)
  <2>1. pending \in Seq(Orders)
    BY DEF TypeOK
  <2>2. pending # <<>> =>
          JobShape([Idle EXCEPT !.place = "withdraw", !.orders = pending])
    <3>1. "withdraw" \in ClientPlaces
      BY DEF ClientPlaces
    <3> QED BY <2>1, <3>1 DEF Idle, JobShape, Job
  <2>3. job' \in [Clients -> Job] /\ JobOK' /\ commands' \in Nat
    BY <1>2, <2>2, JobShapeIdle, ReceiveTyped DEF ClearQueue
  <2>4. pending' \in Seq(Orders) /\ current' = current /\ wake' = wake
    BY <1>2 DEF ClearQueue, ClearPending
  <2> QED BY <1>2, <2>3, <2>4 DEF TypeOK, ClearQueue, Receive, leaseVars, deliveryVars
<1>3. CASE \E o \in Orders : CancelOrder(c, o)
  <2> PICK o \in Orders : CancelOrder(c, o)
    BY <1>3
  <2>0. <<o>> \in Seq(Orders) /\ <<o>> # <<>> /\ "withdraw" \in ClientPlaces
    BY DEF ClientPlaces
  <2>1. JobShape([Idle EXCEPT !.place = "withdraw", !.orders = <<o>>])
    BY <2>0 DEF Idle, JobShape, Job
  <2>2. job' \in [Clients -> Job] /\ JobOK' /\ commands' \in Nat
    BY <2>1, ReceiveTyped DEF CancelOrder
  <2>3. pending' \in Seq(Orders) /\ current' = current /\ wake' = wake
    BY RemoveAtType DEF CancelOrder, RemoveOrder, TypeOK
  <2> QED BY <2>2, <2>3 DEF TypeOK, CancelOrder, Receive, leaseVars, deliveryVars
<1>4. CASE Cancel(c) \/ Proceed(c) \/ ResetWorld(c) \/ DriveByHand(c)
  <2>1. job' \in [Clients -> Job] /\ JobOK' /\ commands' \in Nat
    <3>1. \E new : Receive(c, new) /\ JobShape(new)
      <4>1. {"proceeding", "resetting", "reclaim", "manual"} \subseteq ClientPlaces
        BY DEF ClientPlaces, Holding
      <4>2. \A p \in {"proceeding", "resetting", "reclaim", "manual"} :
              JobShape([Idle EXCEPT !.place = p])
        BY <4>1, IdleShape
      <4>3. CASE Cancel(c)
        BY <4>3, JobShapeIdle DEF Cancel
      <4>4. CASE Proceed(c)
        BY <4>2, <4>4 DEF Proceed
      <4>5. CASE ResetWorld(c)
        BY <4>2, <4>5 DEF ResetWorld
      <4>6. CASE DriveByHand(c)
        BY <4>2, <4>6 DEF DriveByHand
      <4> QED BY <1>4, <4>3, <4>4, <4>5, <4>6
    <3> QED BY <3>1, ReceiveTyped
  <2>2. LeaseType'
    BY <1>4, <1>a, LeaseTyped DEF Cancel, Proceed, ResetWorld, DriveByHand
  <2>3. recovery' \in {"done", "due", "skipped"}
    BY <1>4 DEF TypeOK, Cancel, Proceed, ResetWorld, DriveByHand, Interrupted
  <2> QED BY <1>4, <2>1, <2>2, <2>3
        DEF TypeOK, LeaseType, Cancel, Proceed, ResetWorld, DriveByHand, Receive,
            queueVars, deliveryVars
<1> QED BY <1>1, <1>2, <1>3, <1>4 DEF ClientCommand

LEMMA ClientStepTyped ==
  ASSUME Typed, NEW c \in Clients, ClientStep(c) PROVE Typed'
<1> USE ServiceAssumption DEF Typed
<1>a. LeaseType /\ c \in Workers /\ job[c] \in Job
  BY DEF TypeOK, LeaseType, Workers
<1>b. /\ job[c].place \in {"intake", "enqueue", "poke"} => job[c].left > 0
      /\ job[c].place \in {"enqueue", "withdraw"} => job[c].orders # <<>>
  BY DEF JobOK
<1>1. CASE TrackOrder(c)
  <2>1. created + 1 \in Orders
    BY <1>1 DEF TrackOrder, TypeOK
  <2>a. /\ <<created + 1>> \in Seq(Orders) /\ <<created + 1>> # <<>>
        /\ "enqueue" \in ClientPlaces /\ job[c].left > 0
    BY <1>1, <1>b, <2>1 DEF ClientPlaces, TrackOrder
  <2>2. JobShape([job[c] EXCEPT !.place = "enqueue", !.orders = <<created + 1>>])
    BY <1>a, <2>a DEF JobShape, Job
  <2>3. job' = [job EXCEPT ![c] = [job[c] EXCEPT !.place = "enqueue",
                                                 !.orders = <<created + 1>>]]
    BY <1>1 DEF TrackOrder, TypeOK
  <2>4. job' \in [Clients -> Job] /\ JobOK'
    BY <2>2, <2>3, JobUpdate
  <2>5. delivery' \in DeliveryType /\ cart' = cart /\ forCart' \subseteq Orders
    BY <1>1, <2>1, OrderStepsType DEF TrackOrder, TypeOK, DeliveryType, deliveryVars
  <2> QED BY <1>1, <2>1, <2>4, <2>5
        DEF TypeOK, TrackOrder, DeliveryType, leaseVars, queueVars
<1>2. CASE EnqueueOrder(c)
  <2>1. job' \in [Clients -> Job] /\ JobOK'
    BY <1>2, MoveTyped DEF EnqueueOrder, ClientPlaces
  <2>2. Head(job[c].orders) \in Orders
    BY <1>2, <1>a, <1>b DEF EnqueueOrder, Move, Job
  <2>3. pending' \in Seq(Orders) /\ current' = current /\ wake' = wake
    BY <1>2, <2>2 DEF EnqueueOrder, Append1, TypeOK
  <2> QED BY <1>2, <2>1, <2>3 DEF TypeOK, EnqueueOrder, Move, leaseVars, deliveryVars
<1>3. CASE PokeConsumer(c)
  <2>0. job[c].left \in Nat /\ job[c].left > 0 /\ "intake" \in ClientPlaces
    BY <1>3, <1>a, <1>b DEF PokeConsumer, Job, ClientPlaces
  <2>1. job[c].left # 1 =>
          JobShape([job[c] EXCEPT !.place = "intake", !.left = @ - 1])
    <3> SUFFICES ASSUME job[c].left # 1
                 PROVE  JobShape([job[c] EXCEPT !.place = "intake", !.left = @ - 1])
      OBVIOUS
    <3>1. job[c].left - 1 \in Nat /\ job[c].left - 1 > 0
      BY <2>0
    <3> QED BY <1>a, <2>0, <3>1 DEF JobShape, Job
  <2>2. job' \in [Clients -> Job] /\ JobOK'
    <3>1. JobShape(IF job[c].left = 1 THEN Idle
                   ELSE [job[c] EXCEPT !.place = "intake", !.left = @ - 1])
      BY <2>0, <2>1, JobShapeIdle
    <3>2. job' = [job EXCEPT ![c] = IF job[c].left = 1 THEN Idle
                    ELSE [job[c] EXCEPT !.place = "intake", !.left = @ - 1]]
      BY <1>3 DEF PokeConsumer
    <3> QED BY <3>1, <3>2, JobUpdate
  <2> QED BY <1>3, <2>2 DEF TypeOK, PokeConsumer, Poke, leaseVars, deliveryVars
<1>4. CASE WithdrawDelivery(c)
  <2>1. job[c].orders \in Seq(Orders) /\ job[c].orders # <<>>
    BY <1>4, <1>a, <1>b DEF WithdrawDelivery, Job
  <2>2. Len(job[c].orders) # 1 =>
          Tail(job[c].orders) \in Seq(Orders) /\ Tail(job[c].orders) # <<>>
    <3>1. \A q \in Seq(Orders) : q # <<>> /\ Len(q) # 1 =>
            Tail(q) \in Seq(Orders) /\ Tail(q) # <<>>
      <4> TAKE q \in Seq(Orders)
      <4> HAVE q # <<>> /\ Len(q) # 1
      <4>1. Tail(q) \in Seq(Orders) /\ Len(Tail(q)) = Len(q) - 1
        BY HeadTailProperties
      <4>2. Len(q) \in Nat /\ Len(q) # 0
        BY EmptySeq, LenProperties
      <4>3. Len(Tail(q)) # 0
        BY <4>1, <4>2
      <4> QED BY <4>1, <4>3, EmptySeq
    <3> QED BY <2>1, <3>1
  <2>3. Len(job[c].orders) # 1 =>
          JobShape([job[c] EXCEPT !.orders = Tail(@)])
    BY <1>4, <1>a, <2>2 DEF WithdrawDelivery, JobShape, Job
  <2>4. job' \in [Clients -> Job] /\ JobOK'
    <3>1. JobShape(IF Len(job[c].orders) = 1 THEN Idle
                   ELSE [job[c] EXCEPT !.orders = Tail(@)])
      BY <2>3, JobShapeIdle
    <3>2. job' = [job EXCEPT ![c] = IF Len(job[c].orders) = 1 THEN Idle
                    ELSE [job[c] EXCEPT !.orders = Tail(@)]]
      BY <1>4 DEF WithdrawDelivery
    <3> QED BY <3>1, <3>2, JobUpdate
  <2>5. delivery' \in DeliveryType /\ cart' = cart
    BY <1>4, OrderStepsType DEF WithdrawDelivery, TypeOK, DeliveryType
  <2> QED BY <1>4, <2>4, <2>5
        DEF TypeOK, WithdrawDelivery, DeliveryType, leaseVars, queueVars
<1>5. CASE \/ ProceedRebuilt(c) \/ LiftPause(c) \/ ResetWait(c) \/ ResetClaim(c)
           \/ ResetRebuilt(c) \/ HandsOff(c)
  <2>1. job' \in [Clients -> Job] /\ JobOK'
    BY <1>5, MoveTyped
       DEF ProceedRebuilt, LiftPause, ResetWait, ResetClaim, ResetRebuilt, HandsOff,
           ClientPlaces, Holding
  <2>2. LeaseType'
    BY <1>5, <1>a, LeaseTyped
       DEF ProceedRebuilt, LiftPause, ResetWait, ResetClaim, ResetRebuilt, HandsOff
  <2>3. recovery' \in {"done", "due", "skipped"}
    BY <1>5 DEF TypeOK, ProceedRebuilt, LiftPause, ResetWait, ResetClaim,
                ResetRebuilt, HandsOff
  <2> QED BY <1>5, <2>1, <2>2, <2>3
        DEF TypeOK, LeaseType, ProceedRebuilt, LiftPause, ResetWait, ResetClaim,
            ResetRebuilt, HandsOff, Move, queueVars, deliveryVars
<1>6. CASE ResetClear(c)
  <2>1. job' \in [Clients -> Job] /\ JobOK'
    BY <1>6, MoveTyped DEF ResetClear, ClientPlaces, Holding
  <2>2. pending' \in Seq(Orders) /\ current' = NoOrder /\ wake' = wake
    BY <1>6 DEF ResetClear, Clear
  <2> QED BY <1>6, <2>1, <2>2 DEF TypeOK, ResetClear, Move, leaseVars, deliveryVars
<1>7. CASE ResetFailActive(c)
  <2>1. job' \in [Clients -> Job] /\ JobOK'
    BY <1>7, MoveTyped DEF ResetFailActive, ClientPlaces, Holding
  <2>2. delivery' \in DeliveryType /\ cart' = cart
    BY <1>7, CartStepsType DEF ResetFailActive, TypeOK, DeliveryType
  <2> QED BY <1>7, <2>1, <2>2
        DEF TypeOK, ResetFailActive, Move, DeliveryType, leaseVars, queueVars
<1> QED BY <1>1, <1>2, <1>3, <1>4, <1>5, <1>6, <1>7 DEF ClientStep

LEMMA OthersTyped == Typed /\ (CartStep \/ CloseStop \/ CloseLease) => Typed'
<1> SUFFICES ASSUME Typed, CartStep \/ CloseStop \/ CloseLease PROVE Typed'
  OBVIOUS
<1> USE DEF Typed
<1>1. CASE CartHeartbeat
  BY <1>1 DEF TypeOK, JobOK, CartHeartbeat, Heartbeat, leaseVars, queueVars, procVars
<1>2. CASE \E old \in SUBSET Settled :
             CartPending(old) \/ CartDock(old) \/ \E o \in Orders : CartHandover(o, old)
  <2>1. delivery' \in DeliveryType /\ cart' = cart
    BY <1>2, CartStepsType
       DEF CartPending, CartDock, CartHandover, TypeOK, DeliveryType
  <2> QED BY <1>2, <2>1
        DEF TypeOK, JobOK, CartPending, CartDock, CartHandover, DeliveryType,
            leaseVars, queueVars, procVars
<1>3. CASE CloseStop
  BY <1>3 DEF TypeOK, JobOK, CloseStop, leaseVars, queueVars, deliveryVars
<1>4. CASE CloseLease
  BY <1>4 DEF TypeOK, JobOK, CloseLease, Shutdown, queueVars, deliveryVars, procVars
<1> QED BY <1>1, <1>2, <1>3, <1>4 DEF CartStep

LEMMA NextTyped == Typed /\ [Next]_vars => Typed'
<1> SUFFICES ASSUME Typed, [Next]_vars PROVE Typed'
  OBVIOUS
<1>1. CASE UNCHANGED vars
  BY <1>1 DEF vars, leaseVars, queueVars, deliveryVars, procVars, Typed, TypeOK, JobOK
<1> QED
  BY <1>1, ConsumerTyped, PurgeTyped, ClientStepTyped, ClientCommandTyped, OthersTyped
     DEF Next

(* The state keeps the types the code gives it: in particular every order  *)
(* in the backlog, on the arm or in a command is one that was created, and *)
(* every delivery record is well formed.                                   *)
THEOREM TypeCorrect == Spec => []TypeOK
<1>1. Typed => TypeOK
  BY DEF Typed
<1> QED BY <1>1, InitTyped, NextTyped, PTL DEF Spec

-----------------------------------------------------------------------------
(***************************************************************************)
(* Mutual exclusion.  LeaseOwnership is inductive as it stands; it is      *)
(* easier to work with one kind of worker at a time.                       *)
(***************************************************************************)
ConsumerHolds == {"claimed", "giveback", "release"} \cup Running \cup Ending

OwnsArm ==
  /\ at \in ConsumerHolds <=> holder = Consumer
  /\ purge = "purging" <=> holder = Purger
  /\ \A c \in Clients : job[c].place \in Holding <=> holder = c

LEMMA Ownership == LeaseOwnership <=> OwnsArm
  BY ServiceAssumption DEF LeaseOwnership, OwnsArm, Holds, ConsumerHolds, Workers

LEMMA InitOwnership == Init => OwnsArm
  BY ServiceAssumption
     DEF Init, LeaseInit, OwnsArm, ConsumerHolds, Running, Ending, Holding, Idle, Workers

LEMMA ConsumerOwnership == OwnsArm /\ ConsumerStep => OwnsArm'
<1> SUFFICES ASSUME OwnsArm, ConsumerStep PROVE OwnsArm'
  OBVIOUS
<1> USE ServiceAssumption DEF OwnsArm, ConsumerHolds, Running, Ending, Goto
<1>1. UNCHANGED <<purge, job>>
  BY DEF ConsumerStep, SelectWake, SelectStop, DrainLoop, AwaitClaim, AwaitStop,
         StartNone, GiveBack, StartOrder, LocateCart, PlaceOnShelf, RecordReady,
         PlaceInCart, RecordHandedOver, FinishDrink, OrderErrs, OrderPanics,
         PauseOnFault, FailDelivery, RecoverPanic, ReportOrder, CompleteOrder, ReleaseArm
<1>2. CASE AwaitClaim
  BY <1>1, <1>2 DEF AwaitClaim, Claim, Refused, Workers
<1>3. CASE GiveBack \/ ReleaseArm
  BY <1>1, <1>3 DEF GiveBack, ReleaseArm, Release, Workers
<1>4. CASE SelectWake \/ SelectStop \/ DrainLoop \/ AwaitStop
  BY <1>1, <1>4 DEF SelectWake, SelectStop, DrainLoop, AwaitStop, leaseVars
<1>5. CASE StartNone \/ StartOrder \/ LocateCart \/ PlaceOnShelf \/ RecordReady
           \/ PlaceInCart \/ RecordHandedOver \/ FinishDrink \/ OrderErrs \/ OrderPanics
  BY <1>1, <1>5 DEF StartNone, StartOrder, LocateCart, PlaceOnShelf, RecordReady,
       PlaceInCart, RecordHandedOver, FinishDrink, OrderErrs, OrderPanics, leaseVars
<1>6. CASE PauseOnFault \/ FailDelivery \/ RecoverPanic \/ ReportOrder \/ CompleteOrder
  BY <1>1, <1>6 DEF PauseOnFault, FailDelivery, RecoverPanic, ReportOrder, CompleteOrder,
       Pause, leaseVars
<1> QED BY <1>2, <1>3, <1>4, <1>5, <1>6 DEF ConsumerStep

LEMMA PurgeOwnership == OwnsArm /\ PurgeStep => OwnsArm'
  BY ServiceAssumption
     DEF OwnsArm, PurgeStep, TickLease, TickQueue, PurgeClaim, PurgeEnd, PurgeStop,
         PurgeGoto, Claim, Refused, Release, Workers, leaseVars

(* What the steps of a client do to its place and to the holder.           *)
LEMMA ClientOwnership ==
  ASSUME Typed, OwnsArm, NEW c \in Clients, ClientStep(c) \/ ClientCommand(c)
  PROVE  OwnsArm'
<1> USE ServiceAssumption DEF OwnsArm
<1>a. job \in [Clients -> Job]
  BY DEF Typed, TypeOK
<1>b. Idle.place = "idle"
  BY DEF Idle
<1>1. UNCHANGED <<at, purge>> /\ \A d \in Clients \ {c} : job'[d] = job[d]
  BY <1>a DEF ClientStep, ClientCommand, TrackOrder, EnqueueOrder, PokeConsumer,
       WithdrawDelivery, ProceedRebuilt, LiftPause, ResetWait, ResetClaim, ResetClear,
       ResetFailActive, ResetRebuilt, HandsOff, PrepareOrder, ClearQueue, CancelOrder,
       Cancel, Proceed, ResetWorld, DriveByHand, Move, Receive
<1>2. CASE /\ holder' = holder
           /\ job'[c].place \in Holding <=> job[c].place \in Holding
  BY <1>1, <1>2
<1>3. CASE holder = Free /\ holder' = c /\ job'[c].place \in Holding
  BY <1>1, <1>3 DEF Workers
<1>4. CASE holder = c /\ holder' = Free /\ job'[c].place \notin Holding
  BY <1>1, <1>4 DEF Workers
<1>5. CASE TrackOrder(c) \/ EnqueueOrder(c) \/ PokeConsumer(c) \/ WithdrawDelivery(c)
  <2>0. job[c] \in Job
    BY <1>a
  <2>1. holder' = holder /\ job[c].place \notin Holding
    BY <1>5 DEF TrackOrder, EnqueueOrder, PokeConsumer, WithdrawDelivery,
         Move, Holding, leaseVars
  <2>2. CASE TrackOrder(c)
    BY <1>2, <1>a, <2>0, <2>1, <2>2 DEF TrackOrder, Holding, Job
  <2>3. CASE EnqueueOrder(c)
    BY <1>2, <1>a, <2>0, <2>1, <2>3 DEF EnqueueOrder, Move, Holding, Job
  <2>4. CASE PokeConsumer(c)
    BY <1>2, <1>a, <1>b, <2>0, <2>1, <2>4 DEF PokeConsumer, Holding, Job
  <2>5. CASE WithdrawDelivery(c)
    <3>1. job'[c].place \in {"idle", "withdraw"}
      BY <1>a, <1>b, <2>0, <2>5 DEF WithdrawDelivery, Job
    <3> QED BY <1>2, <2>1, <3>1 DEF Holding
  <2> QED BY <1>5, <2>2, <2>3, <2>4, <2>5
<1>6. CASE ProceedRebuilt(c) \/ ResetRebuilt(c) \/ HandsOff(c)
  <2>1. job[c].place \in Holding /\ job'[c].place \notin Holding /\ holder' = Free
    BY <1>6, <1>a, <1>b DEF ProceedRebuilt, ResetRebuilt, HandsOff, Move, Release,
         Holding, Job
  <2> QED BY <1>4, <2>1
<1>7. CASE LiftPause(c) \/ ResetWait(c)
  <2>1. holder' = holder /\ job'[c].place \notin Holding /\ job[c].place \notin Holding
    BY <1>7, <1>a, <1>b DEF LiftPause, ResetWait, Move, Unpause, Holding, Job, leaseVars
  <2> QED BY <1>2, <2>1
<1>8. CASE ResetClaim(c)
  <2>1. CASE Claim(c, FALSE) /\ Move(c, "reclaim", "clearing")
    BY <1>3, <1>a, <2>1 DEF Claim, Refused, Move, Holding, Job
  <2>2. CASE UNCHANGED leaseVars /\ Move(c, "reclaim", "idle")
    BY <1>2, <1>a, <1>b, <2>2 DEF Move, Holding, leaseVars, Job
  <2> QED BY <1>8, <2>1, <2>2 DEF ResetClaim
<1>9. CASE ResetClear(c) \/ ResetFailActive(c)
  <2>1. holder' = holder /\ job'[c].place \in Holding /\ job[c].place \in Holding
    BY <1>9, <1>a DEF ResetClear, ResetFailActive, Move, Holding, Job, leaseVars
  <2> QED BY <1>2, <2>1
<1>10. CASE Proceed(c) \/ DriveByHand(c)
  <2>1. holder = Free /\ holder' = c /\ job'[c].place \in Holding
    BY <1>10, <1>a DEF Proceed, DriveByHand, Receive, Claim, Refused, Holding, Idle
  <2> QED BY <1>3, <2>1
<1>11. CASE \/ \E n \in 1 .. MaxBatch, bring \in BOOLEAN : PrepareOrder(c, n, bring)
            \/ ClearQueue(c)
            \/ \E o \in Orders : CancelOrder(c, o)
            \/ Cancel(c) \/ ResetWorld(c)
  <2>1. holder' = holder
    BY <1>11 DEF PrepareOrder, ClearQueue, CancelOrder, Cancel, ResetWorld,
         SignalCancel, leaseVars
  <2>2. job[c].place = "idle"
    BY <1>11 DEF PrepareOrder, ClearQueue, CancelOrder, Cancel, ResetWorld, Receive
  <2>3. job'[c].place \in {"idle", "intake", "withdraw", "reclaim", "resetting"}
    <3>1. ASSUME NEW new, Receive(c, new) PROVE job'[c] = new
      BY <1>a, <3>1 DEF Receive
    <3>2. CASE \E n \in 1 .. MaxBatch, bring \in BOOLEAN : PrepareOrder(c, n, bring)
      BY <3>1, <3>2 DEF PrepareOrder, Idle
    <3>3. CASE ClearQueue(c)
      <4>1. PICK new : Receive(c, new) /\ new.place \in {"idle", "withdraw"}
        <5>1. [Idle EXCEPT !.place = "withdraw", !.orders = pending].place = "withdraw"
          BY DEF Idle
        <5> QED BY <1>b, <3>3, <5>1 DEF ClearQueue
      <4> QED BY <3>1, <4>1
    <3>4. CASE \E o \in Orders : CancelOrder(c, o)
      BY <3>1, <3>4 DEF CancelOrder, Idle
    <3>5. CASE Cancel(c) \/ ResetWorld(c)
      BY <3>1, <3>5 DEF Cancel, ResetWorld, Idle
    <3> QED BY <1>11, <3>2, <3>3, <3>4, <3>5
  <2> QED BY <1>2, <2>1, <2>2, <2>3 DEF Holding
<1> QED BY <1>5, <1>6, <1>7, <1>8, <1>9, <1>10, <1>11 DEF ClientStep, ClientCommand

LEMMA NextOwnership == Typed /\ OwnsArm /\ [Next]_vars => OwnsArm'
<1> SUFFICES ASSUME Typed, OwnsArm, [Next]_vars PROVE OwnsArm'
  OBVIOUS
<1>1. CASE CartStep \/ CloseStop \/ CloseLease \/ UNCHANGED vars
  BY <1>1 DEF OwnsArm, CartStep, CartHeartbeat, CartPending, CartDock, CartHandover,
       CloseStop, CloseLease, Shutdown, vars, leaseVars, procVars
<1> QED BY <1>1, ConsumerOwnership, PurgeOwnership, ClientOwnership DEF Next

(* At most one sequence moves the arm, whatever the commands, cancels,     *)
(* resets and purges that arrive, and a sequence that has the arm is never *)
(* robbed of it by somebody else's release.                                *)
THEOREM ArmExclusion == Spec => []LeaseOwnership
<1> DEFINE I == Typed /\ OwnsArm
<1>1. Init => I
  BY InitTyped, InitOwnership
<1>2. I /\ [Next]_vars => I'
  BY NextTyped, NextOwnership
<1>3. I => LeaseOwnership
  BY Ownership
<1> QED BY <1>1, <1>2, <1>3, PTL DEF Spec

-----------------------------------------------------------------------------
(***************************************************************************)
(* Cancellation.  Whatever the service does, it does one locked operation  *)
(* of the lease at a time; the contexts are then a matter of the lease     *)
(* alone.                                                                  *)
(***************************************************************************)
LeaseStep ==
  \/ UNCHANGED leaseVars
  \/ \E who \in Workers, r \in BOOLEAN : Claim(who, r)
  \/ Release \/ Pause \/ Unpause \/ SignalCancel \/ Shutdown

LEMMA NextIsLeaseStep == [Next]_vars => LeaseStep
<1> SUFFICES ASSUME [Next]_vars PROVE LeaseStep
  OBVIOUS
<1> USE DEF LeaseStep
<1>1. CASE ConsumerStep
  <2>1. Consumer \in Workers
    BY DEF Workers
  <2> QED BY <1>1, <2>1
        DEF ConsumerStep, SelectWake, SelectStop, DrainLoop, AwaitClaim, AwaitStop,
            StartNone, GiveBack, StartOrder, LocateCart, PlaceOnShelf, RecordReady,
            PlaceInCart, RecordHandedOver, FinishDrink, OrderErrs, OrderPanics,
            PauseOnFault, FailDelivery, RecoverPanic, ReportOrder, CompleteOrder,
            ReleaseArm
<1>2. CASE PurgeStep
  <2>1. Purger \in Workers
    BY DEF Workers
  <2> QED BY <1>2, <2>1
        DEF PurgeStep, TickLease, TickQueue, PurgeClaim, PurgeEnd, PurgeStop
<1>3. ASSUME NEW c \in Clients, ClientStep(c) PROVE LeaseStep
  <2>1. c \in Workers
    BY DEF Workers
  <2> QED BY <1>3, <2>1
        DEF ClientStep, TrackOrder, EnqueueOrder, PokeConsumer, WithdrawDelivery,
            ProceedRebuilt, LiftPause, ResetWait, ResetClaim, ResetClear,
            ResetFailActive, ResetRebuilt, HandsOff
<1>4. ASSUME NEW c \in Clients, ClientCommand(c) PROVE LeaseStep
  <2>1. c \in Workers
    BY DEF Workers
  <2> QED BY <1>4, <2>1
        DEF ClientCommand, PrepareOrder, ClearQueue, CancelOrder, Cancel, Proceed,
            ResetWorld, DriveByHand
<1>5. CASE CartStep \/ CloseStop \/ CloseLease \/ UNCHANGED vars
  BY <1>5 DEF CartStep, CartHeartbeat, CartPending, CartDock, CartHandover, CloseStop,
              CloseLease, vars
<1> QED BY <1>1, <1>2, <1>3, <1>4, <1>5 DEF Next

\* The cancelled generations are behind the lease's own, which is cancelled
\* only by the shutdown.
ContextsOK ==
  /\ CancelReachesHolder
  /\ \A g \in cancelled : g < ctx \/ (closed /\ g = ctx)

LEMMA LeaseContexts == LeaseType /\ ContextsOK /\ LeaseStep => ContextsOK'
<1> SUFFICES ASSUME LeaseType, ContextsOK, LeaseStep PROVE ContextsOK'
  OBVIOUS
<1> USE DEF ContextsOK, CancelReachesHolder, LeaseType
<1>1. CASE UNCHANGED leaseVars
  BY <1>1 DEF leaseVars
<1>2. CASE \E who \in Workers, r \in BOOLEAN : Claim(who, r)
  BY <1>2 DEF Claim
<1>3. CASE Release \/ Pause \/ Unpause
  BY <1>3 DEF Release, Pause, Unpause
<1>4. CASE SignalCancel
  <2>1. CASE holder = Free
    <3>1. UNCHANGED <<holder, closed, ctx, cancelled, grant>>
      BY <1>4, <2>1 DEF SignalCancel
    <3> QED BY <3>1
  <2>2. CASE holder # Free
    <3>1. cancelled' = cancelled \cup {ctx} /\ ctx' = ctx + 1
          /\ UNCHANGED <<holder, closed, grant>>
      BY <1>4, <2>2 DEF SignalCancel
    <3>2. \A g \in cancelled' : g < ctx'
      BY <3>1
    <3>3. ctx' \notin cancelled'
      BY <3>1, <3>2
    <3>4. grant' = ctx' \/ grant' \in cancelled'
      BY <2>2, <3>1
    <3> QED BY <3>1, <3>2, <3>3, <3>4
  <2> QED BY <2>1, <2>2
<1>5. CASE Shutdown
  BY <1>5 DEF Shutdown
<1> QED BY <1>1, <1>2, <1>3, <1>4, <1>5 DEF LeaseStep

(* A cancel, or the shutdown, reaches the sequence that is running and no  *)
(* other: not the one before it, whose context is dead already, and not    *)
(* the one after it, which starts under a context nobody has cancelled.    *)
THEOREM CancelIsExact == Spec => []CancelReachesHolder
<1> DEFINE I == Typed /\ ContextsOK
<1>1. Init => I
  BY InitTyped DEF Init, LeaseInit, ContextsOK, CancelReachesHolder
<1>2. I /\ [Next]_vars => I'
  <2>1. Typed => LeaseType
    BY DEF Typed, TypeOK, LeaseType
  <2> QED BY <2>1, NextTyped, NextIsLeaseStep, LeaseContexts
<1>3. I => CancelReachesHolder
  BY DEF ContextsOK
<1> QED BY <1>1, <1>2, <1>3, PTL DEF Spec

-----------------------------------------------------------------------------
(***************************************************************************)
(* Recovery.  A failure that has not been put right keeps automated work   *)
(* out in one of four ways: the pause, the shutdown, or, until one of them *)
(* is in place, the arm the failed order still holds.                      *)
(***************************************************************************)
HeldBack ==
  recovery = "due" => \/ paused \/ closed
                      \/ at = "panicked"
                      \/ at = "erred" /\ Live

LEMMA ConsumerHeldBack ==
  ASSUME Typed, OwnsArm, HeldBack, ConsumerStep PROVE HeldBack'
<1> USE ServiceAssumption DEF HeldBack, Goto, Live
<1>1. CASE AwaitClaim
  BY <1>1 DEF AwaitClaim, Claim, Refused
<1>2. CASE OrderErrs
  BY <1>2 DEF OrderErrs, leaseVars
<1>3. CASE OrderPanics
  BY <1>3 DEF OrderPanics, leaseVars
<1>4. CASE PauseOnFault
  BY <1>4 DEF PauseOnFault, Pause, leaseVars
<1>5. CASE RecoverPanic
  BY <1>5 DEF RecoverPanic, Pause
<1>6. CASE GiveBack \/ ReleaseArm
  BY <1>6 DEF GiveBack, ReleaseArm, Release
<1>7. CASE \/ SelectWake \/ SelectStop \/ DrainLoop \/ AwaitStop \/ StartNone
           \/ StartOrder \/ LocateCart \/ PlaceOnShelf \/ RecordReady \/ PlaceInCart
           \/ RecordHandedOver \/ FinishDrink \/ FailDelivery \/ ReportOrder
           \/ CompleteOrder
  BY <1>7 DEF SelectWake, SelectStop, DrainLoop, AwaitStop, StartNone, StartOrder,
       LocateCart, PlaceOnShelf, RecordReady, PlaceInCart, RecordHandedOver,
       FinishDrink, FailDelivery, ReportOrder, CompleteOrder, leaseVars
<1> QED BY <1>1, <1>2, <1>3, <1>4, <1>5, <1>6, <1>7 DEF ConsumerStep

LEMMA ClientHeldBack ==
  ASSUME Typed, OwnsArm, HeldBack, NEW c \in Clients, ClientStep(c) \/ ClientCommand(c)
  PROVE  HeldBack'
<1> USE ServiceAssumption DEF HeldBack, Live
<1>1. at' = at
  BY DEF ClientStep, ClientCommand, TrackOrder, EnqueueOrder, PokeConsumer,
       WithdrawDelivery, ProceedRebuilt, LiftPause, ResetWait, ResetClaim, ResetClear,
       ResetFailActive, ResetRebuilt, HandsOff, PrepareOrder, ClearQueue, CancelOrder,
       Cancel, Proceed, ResetWorld, DriveByHand, Move, Receive
<1>2. at \in {"erred", "panicked"} => holder = Consumer /\ holder # Free
  BY DEF OwnsArm, ConsumerHolds, Ending, Workers
<1>3. CASE Cancel(c) \/ ResetWorld(c)
  BY <1>3 DEF Cancel, ResetWorld, SignalCancel
<1>4. CASE Proceed(c) \/ DriveByHand(c)
  BY <1>1, <1>2, <1>4 DEF Proceed, DriveByHand, Claim, Refused
<1>5. CASE ResetClaim(c)
  BY <1>1, <1>2, <1>5 DEF ResetClaim, Claim, Refused, leaseVars
<1>6. CASE LiftPause(c)
  BY <1>6 DEF LiftPause
<1>7. CASE ProceedRebuilt(c) \/ ResetRebuilt(c) \/ HandsOff(c)
  BY <1>1, <1>7 DEF ProceedRebuilt, ResetRebuilt, HandsOff, Release
<1>8. CASE \/ TrackOrder(c) \/ EnqueueOrder(c) \/ PokeConsumer(c) \/ WithdrawDelivery(c)
           \/ ResetWait(c) \/ ResetClear(c) \/ ResetFailActive(c) \/ ClearQueue(c)
           \/ \E n \in 1 .. MaxBatch, bring \in BOOLEAN : PrepareOrder(c, n, bring)
           \/ \E o \in Orders : CancelOrder(c, o)
  <2>1. recovery' = recovery /\ UNCHANGED leaseVars
    BY <1>8 DEF TrackOrder, EnqueueOrder, PokeConsumer, WithdrawDelivery, ResetWait,
         ResetClear, ResetFailActive, ClearQueue, PrepareOrder, CancelOrder
  <2> QED BY <1>1, <2>1 DEF leaseVars
<1> QED BY <1>3, <1>4, <1>5, <1>6, <1>7, <1>8 DEF ClientStep, ClientCommand

LEMMA NextHeldBack == Typed /\ OwnsArm /\ HeldBack /\ [Next]_vars => HeldBack'
<1> SUFFICES ASSUME Typed, OwnsArm, HeldBack, [Next]_vars PROVE HeldBack'
  OBVIOUS
<1>1. CASE PurgeStep
  <2>1. at \in {"erred", "panicked"} => holder = Consumer /\ holder # Free
    BY ServiceAssumption DEF OwnsArm, ConsumerHolds, Ending, Workers
  <2> QED BY <1>1, <2>1
        DEF HeldBack, Live, PurgeStep, TickLease, TickQueue, PurgeClaim, PurgeEnd,
            PurgeStop, PurgeGoto, Claim, Refused, Release, leaseVars
<1>2. CASE CartStep \/ CloseStop \/ CloseLease \/ UNCHANGED vars
  BY <1>2 DEF HeldBack, Live, CartStep, CartHeartbeat, CartPending, CartDock,
       CartHandover, CloseStop, CloseLease, Shutdown, vars, leaseVars, procVars
<1> QED BY <1>1, <1>2, ConsumerHeldBack, ClientHeldBack DEF Next

LEMMA ClaimsAfterRecovery ==
  Typed /\ OwnsArm /\ HeldBack /\ [Next]_vars =>
    [holder = Free /\ holder' \in {Consumer, Purger} => recovery # "due"]_vars
<1> SUFFICES ASSUME Typed, OwnsArm, HeldBack, [Next]_vars, holder = Free,
                    holder' \in {Consumer, Purger}
             PROVE  recovery # "due"
  OBVIOUS
<1>1. at \notin {"erred", "panicked"}
  BY ServiceAssumption DEF OwnsArm, ConsumerHolds, Ending, Workers
<1>2. holder' # Free
  BY ServiceAssumption DEF Workers
<1>3. LeaseStep
  BY NextIsLeaseStep
<1>4. PICK who \in Workers, r \in BOOLEAN : Claim(who, r)
  BY <1>2, <1>3 DEF LeaseStep, leaseVars, Release, Pause, Unpause, SignalCancel, Shutdown
<1>5. ~closed
  BY <1>4 DEF Claim, Refused
<1>6. ~paused
  <2>1. CASE ConsumerStep
    BY <2>1, <1>2 DEF ConsumerStep, SelectWake, SelectStop, DrainLoop, AwaitClaim,
         AwaitStop, StartNone, GiveBack, StartOrder, LocateCart, PlaceOnShelf,
         RecordReady, PlaceInCart, RecordHandedOver, FinishDrink, OrderErrs, OrderPanics,
         PauseOnFault, FailDelivery, RecoverPanic, ReportOrder, CompleteOrder,
         ReleaseArm, Claim, Refused, Release, Pause, leaseVars
  <2>2. CASE PurgeStep
    BY <2>2, <1>2 DEF PurgeStep, TickLease, TickQueue, PurgeClaim, PurgeEnd, PurgeStop,
         Claim, Refused, Release, leaseVars
  <2>3. ASSUME NEW c \in Clients, ClientStep(c) \/ ClientCommand(c) PROVE FALSE
    <3>1. c \notin {Consumer, Purger}
      BY ServiceAssumption
    <3> QED BY <1>2, <2>3, <3>1
         DEF ClientStep, ClientCommand, TrackOrder, EnqueueOrder, PokeConsumer,
             WithdrawDelivery, ProceedRebuilt, LiftPause, ResetWait, ResetClaim,
             ResetClear, ResetFailActive, ResetRebuilt, HandsOff, PrepareOrder,
             ClearQueue, CancelOrder, Cancel, Proceed, ResetWorld, DriveByHand,
             Claim, Release, Unpause, SignalCancel, leaseVars
  <2>4. CASE CartStep \/ CloseStop \/ CloseLease \/ UNCHANGED vars
    BY <2>4, <1>2 DEF CartStep, CartHeartbeat, CartPending, CartDock, CartHandover,
         CloseStop, CloseLease, Shutdown, vars, leaseVars
  <2> QED BY <2>1, <2>2, <2>3, <2>4 DEF Next
<1> QED BY <1>1, <1>5, <1>6 DEF HeldBack

(* After a fault, a panic or a cancel no order and no purge takes the arm  *)
(* before the world was rebuilt, but for the late proceed that "skipped"   *)
(* records.                                                                *)
THEOREM FailureHoldsAutomation == Spec => RecoveryBeforeAutomation
<1> DEFINE I == Typed /\ OwnsArm /\ HeldBack
<1>1. Init => I
  BY InitTyped, InitOwnership DEF Init, HeldBack
<1>2. I /\ [Next]_vars => I'
  BY NextTyped, NextOwnership, NextHeldBack
<1>3. I /\ [Next]_vars =>
        [holder = Free /\ holder' \in {Consumer, Purger} => recovery # "due"]_vars
  BY ClaimsAfterRecovery
<1> QED BY <1>1, <1>2, <1>3, PTL DEF Spec, RecoveryBeforeAutomation

-----------------------------------------------------------------------------
(***************************************************************************)
(* Wakeups.  The consumer goes back to sleep after it has seen the backlog *)
(* empty, and an order that comes in after that still has its poke to give.*)
(***************************************************************************)
Pokes == \E c \in Clients : job[c].place = "poke"

WakeOK == at \in {"select", "giveback"} /\ pending # <<>> => wake \/ Pokes

LEMMA ConsumerWake == ASSUME Typed, WakeOK, ConsumerStep PROVE WakeOK'
<1> USE DEF WakeOK, Pokes, Goto
<1>1. CASE DrainLoop
  <2>1. at' = "select" => pending = <<>>
    BY <1>1, DepthNat DEF DrainLoop
  <2>2. at' \in {"await", "select"} /\ pending' = pending
    BY <1>1 DEF DrainLoop, queueVars
  <2> QED BY <2>1, <2>2
<1>2. CASE StartNone
  BY <1>2 DEF StartNone, queueVars
<1>3. CASE GiveBack
  BY <1>3 DEF GiveBack, queueVars
<1>4. CASE ~(DrainLoop \/ StartNone \/ GiveBack)
  <2>1. at' \notin {"select", "giveback"}
    BY <1>4 DEF ConsumerStep, SelectWake, SelectStop, AwaitClaim, AwaitStop, StartOrder,
         LocateCart, PlaceOnShelf, RecordReady, PlaceInCart, RecordHandedOver,
         FinishDrink, OrderErrs, OrderPanics, PauseOnFault, FailDelivery, RecoverPanic,
         ReportOrder, CompleteOrder, ReleaseArm
  <2> QED BY <2>1
<1> QED BY <1>1, <1>2, <1>3, <1>4

LEMMA ClientWake ==
  ASSUME Typed, WakeOK, NEW c \in Clients, ClientStep(c) \/ ClientCommand(c)
  PROVE  WakeOK'
<1> USE DEF WakeOK, Pokes
<1>a. job \in [Clients -> Job] /\ at' = at
  BY DEF Typed, TypeOK, ClientStep, ClientCommand, TrackOrder, EnqueueOrder, PokeConsumer,
       WithdrawDelivery, ProceedRebuilt, LiftPause, ResetWait, ResetClaim, ResetClear,
       ResetFailActive, ResetRebuilt, HandsOff, PrepareOrder, ClearQueue, CancelOrder,
       Cancel, Proceed, ResetWorld, DriveByHand, Move, Receive
<1>1. CASE EnqueueOrder(c)
  <2>1. job'[c].place = "poke"
    BY <1>1, <1>a DEF EnqueueOrder, Move, Job
  <2> QED BY <2>1
<1>2. CASE PokeConsumer(c)
  BY <1>2 DEF PokeConsumer, Poke
<1>3. CASE ~(EnqueueOrder(c) \/ PokeConsumer(c))
  <2>1. job[c].place # "poke"
    BY <1>3 DEF ClientStep, ClientCommand, TrackOrder, WithdrawDelivery, ProceedRebuilt,
         LiftPause, ResetWait, ResetClaim, ResetClear, ResetFailActive, ResetRebuilt,
         HandsOff, PrepareOrder, ClearQueue, CancelOrder, Cancel, Proceed, ResetWorld,
         DriveByHand, Move, Receive
  <2>2. \A d \in Clients : job[d].place = "poke" => job'[d].place = "poke"
    <3>1. \A d \in Clients \ {c} : job'[d] = job[d]
      BY <1>3, <1>a DEF ClientStep, ClientCommand, TrackOrder, WithdrawDelivery,
           ProceedRebuilt, LiftPause, ResetWait, ResetClaim, ResetClear, ResetFailActive,
           ResetRebuilt, HandsOff, PrepareOrder, ClearQueue, CancelOrder, Cancel, Proceed,
           ResetWorld, DriveByHand, Move, Receive
    <3> QED BY <2>1, <3>1
  <2>3. wake' = wake /\ (pending' # <<>> => pending # <<>>)
    <3>1. CASE ClearQueue(c) \/ ResetClear(c)
      BY <3>1 DEF ClearQueue, ClearPending, ResetClear, Clear
    <3>2. CASE \E o \in Orders : CancelOrder(c, o)
      <4>1. wake' = wake /\ pending # <<>>
        BY <3>2 DEF CancelOrder, RemoveOrder
      <4> QED BY <4>1
    <3>3. CASE UNCHANGED queueVars
      BY <3>3 DEF queueVars
    <3> QED BY <1>3, <3>1, <3>2, <3>3
          DEF ClientStep, ClientCommand, TrackOrder, WithdrawDelivery, ProceedRebuilt,
              LiftPause, ResetWait, ResetClaim, ResetFailActive, ResetRebuilt, HandsOff,
              PrepareOrder, Cancel, Proceed, ResetWorld, DriveByHand
  <2> QED BY <1>a, <2>2, <2>3
<1> QED BY <1>1, <1>2, <1>3

LEMMA NextWake == Typed /\ WakeOK /\ [Next]_vars => WakeOK'
<1> SUFFICES ASSUME Typed, WakeOK, [Next]_vars PROVE WakeOK'
  OBVIOUS
<1>1. CASE PurgeStep \/ CartStep \/ CloseStop \/ CloseLease \/ UNCHANGED vars
  <2>1. UNCHANGED <<queueVars, at, job>>
    BY <1>1 DEF PurgeStep, TickLease, TickQueue, PurgeClaim, PurgeEnd, PurgeStop,
         PurgeGoto, CartStep, CartHeartbeat, CartPending, CartDock, CartHandover,
         CloseStop, CloseLease, vars, procVars
  <2> QED BY <2>1 DEF WakeOK, Pokes, queueVars
<1> QED BY <1>1, ConsumerWake, ClientWake DEF Next

(* The consumer never sleeps on an order: with a waiting order there is a  *)
(* wakeup in the channel, or a prepare_order about to put it there.        *)
THEOREM WakeupsArrive == Spec => []NoLostWakeup
<1> DEFINE I == Typed /\ WakeOK
<1>1. Init => I
  BY InitTyped DEF Init, QueueInit, WakeOK
<1>2. I /\ [Next]_vars => I'
  BY NextTyped, NextWake
<1>3. I => NoLostWakeup
  BY DEF WakeOK, Pokes, NoLostWakeup
<1> QED BY <1>1, <1>2, <1>3, PTL DEF Spec

-----------------------------------------------------------------------------
(* Sequences without repetition.                                           *)

Distinct(s) == \A i, j \in DOMAIN s : s[i] = s[j] => i = j

LEMMA DistinctTail ==
  ASSUME NEW S, NEW s \in Seq(S), s # <<>>, Distinct(s)
  PROVE  /\ Tail(s) \in Seq(S) /\ Distinct(Tail(s))
         /\ \A i \in DOMAIN Tail(s) : \E j \in DOMAIN s : j # 1 /\ Tail(s)[i] = s[j]
<1>1. /\ Tail(s) \in Seq(S) /\ Len(s) \in Nat \ {0} /\ DOMAIN s = 1 .. Len(s)
      /\ DOMAIN Tail(s) = 1 .. Len(s) - 1
      /\ \A i \in 1 .. Len(s) - 1 : Tail(s)[i] = s[i + 1]
  OBVIOUS
<1>2. \A i \in 1 .. Len(s) - 1 : i + 1 \in DOMAIN s /\ i + 1 # 1
  BY <1>1
<1>3. Distinct(Tail(s))
  <2> SUFFICES ASSUME NEW i \in 1 .. Len(s) - 1, NEW j \in 1 .. Len(s) - 1, s[i + 1] = s[j + 1]
               PROVE  i = j
    BY <1>1 DEF Distinct
  <2>1. i + 1 = j + 1
    BY <1>2 DEF Distinct
  <2>2. QED
    BY <1>1, <2>1
<1>4. QED
  BY <1>1, <1>2, <1>3

LEMMA DistinctAppend ==
  ASSUME NEW S, NEW s \in Seq(S), NEW e \in S, Distinct(s), \A i \in DOMAIN s : s[i] # e
  PROVE  Append(s, e) \in Seq(S) /\ Distinct(Append(s, e))
<1>1. /\ Append(s, e) \in Seq(S) /\ Len(s) \in Nat /\ DOMAIN s = 1 .. Len(s)
      /\ DOMAIN Append(s, e) = 1 .. Len(s) + 1
      /\ Append(s, e)[Len(s) + 1] = e
      /\ \A i \in 1 .. Len(s) : Append(s, e)[i] = s[i]
  OBVIOUS
<1>2. QED
  BY <1>1 DEF Distinct

LEMMA RemoveAtElements ==
  ASSUME NEW S, NEW s \in Seq(S), NEW k \in DOMAIN s
  PROVE  /\ RemoveAt(s, k) \in Seq(S) /\ Len(RemoveAt(s, k)) = Len(s) - 1
         /\ \A i \in 1 .. Len(s) - 1 : RemoveAt(s, k)[i] = s[IF i < k THEN i ELSE i + 1]
<1> DEFINE a == SubSeq(s, 1, k - 1)
           b == SubSeq(s, k + 1, Len(s))
<1>1. Len(s) \in Nat /\ k \in 1 .. Len(s)
  OBVIOUS
<1>2. /\ a \in Seq(S) /\ Len(a) = k - 1 /\ \A i \in 1 .. k - 1 : a[i] = s[i]
  BY <1>1
<1>3. /\ b \in Seq(S) /\ Len(b) = Len(s) - k /\ \A i \in 1 .. Len(s) - k : b[i] = s[k + i]
  BY <1>1
<1> HIDE DEF a, b
<1>4. /\ a \o b \in Seq(S) /\ Len(a \o b) = Len(s) - 1
      /\ \A i \in 1 .. Len(s) - 1 : (a \o b)[i] = IF i <= k - 1 THEN a[i] ELSE b[i - (k - 1)]
  <2>1. a \in Seq(S) /\ b \in Seq(S)
    BY <1>2, <1>3
  <2> DEFINE u == a \o b
  <2>2. /\ u \in Seq(S) /\ Len(u) = Len(a) + Len(b)
        /\ \A i \in 1 .. Len(u) : u[i] = IF i <= Len(a) THEN a[i] ELSE b[i - Len(a)]
    BY <2>1
  <2> HIDE DEF u
  <2>3. Len(a) + Len(b) = Len(s) - 1
    BY <1>1, <1>2, <1>3
  <2>4. QED
    BY <1>2, <2>2, <2>3 DEF u
<1>5. RemoveAt(s, k) = a \o b
  BY DEF RemoveAt, a, b
<1>6. \A i \in 1 .. Len(s) - 1 : (a \o b)[i] = s[IF i < k THEN i ELSE i + 1]
  <2> SUFFICES ASSUME NEW i \in 1 .. Len(s) - 1 PROVE (a \o b)[i] = s[IF i < k THEN i ELSE i + 1]
    OBVIOUS
  <2>1. CASE i < k
    <3>1. i \in 1 .. k - 1 /\ i <= k - 1
      BY <1>1, <2>1
    <3>2. QED
      BY <1>2, <1>4, <2>1, <3>1
  <2>2. CASE ~(i < k)
    <3>1. i - (k - 1) \in 1 .. Len(s) - k /\ k + (i - (k - 1)) = i + 1 /\ ~(i <= k - 1)
      BY <1>1, <2>2
    <3>2. b[i - (k - 1)] = s[i + 1]
      BY <1>3, <3>1
    <3>3. QED
      BY <1>4, <2>2, <3>1, <3>2
  <2>3. QED
    BY <2>1, <2>2
<1>7. QED
  BY <1>4, <1>5, <1>6

LEMMA DistinctRemoveAt ==
  ASSUME NEW S, NEW s \in Seq(S), NEW k \in DOMAIN s, Distinct(s)
  PROVE  /\ RemoveAt(s, k) \in Seq(S) /\ Distinct(RemoveAt(s, k))
         /\ \A i \in DOMAIN RemoveAt(s, k) : \E j \in DOMAIN s : RemoveAt(s, k)[i] = s[j]
<1> DEFINE r == RemoveAt(s, k)
           f(i) == IF i < k THEN i ELSE i + 1
<1>1. /\ r \in Seq(S) /\ Len(r) = Len(s) - 1 /\ Len(s) \in Nat /\ DOMAIN s = 1 .. Len(s)
      /\ DOMAIN r = 1 .. Len(s) - 1
  BY RemoveAtElements
<1>2. \A i \in 1 .. Len(s) - 1 : r[i] = s[f(i)]
  BY RemoveAtElements
<1> HIDE DEF r
<1>3. \A i \in 1 .. Len(s) - 1 : f(i) \in DOMAIN s
  BY <1>1
<1>4. \A i, j \in 1 .. Len(s) - 1 : f(i) = f(j) => i = j
  BY <1>1
<1> HIDE DEF f
<1>5. Distinct(r)
  BY <1>1, <1>2, <1>3, <1>4 DEF Distinct
<1>6. QED
  BY <1>1, <1>2, <1>3, <1>5 DEF r

-----------------------------------------------------------------------------
(***************************************************************************)
(* The queue's books.  An order is numbered when prepare_order makes it,   *)
(* is for a moment in that command's hands only, and is then in line; it   *)
(* is reported when it leaves the arm and at no other time.                *)
(***************************************************************************)
OnArm == Running \cup Ending

\* Made by now, reported by nobody, and neither in line nor on the arm.
Fresh(o) ==
  /\ o \in 1 .. created /\ reading[o] = "none" /\ o # current
  /\ \A i \in DOMAIN pending : pending[i] # o

Books ==
  /\ current = brewing
  /\ current # NoOrder <=> at \in OnArm
  /\ current # NoOrder => (reading[current] # "none" <=> at = "complete")
  /\ Distinct(pending)
  /\ \A i \in DOMAIN pending :
       pending[i] \in 1 .. created /\ pending[i] # current /\ reading[pending[i]] = "none"
  /\ \A o \in Orders : o > created => o # current /\ reading[o] = "none"

\* What a prepare_order has at hand while it enters an order.
Entering ==
  /\ \A c \in Clients : job[c].place = "enqueue" =>
       \E o \in Orders : job[c].orders = <<o>> /\ Fresh(o)
  /\ \A c, d \in Clients :
       job[c].place = "enqueue" /\ job[d].place = "enqueue" /\ job[c].orders = job[d].orders
         => c = d

-----------------------------------------------------------------------------
(* The steps that write in the books; the others leave every order where   *)
(* it is, or take some out of line.                                        *)

SameEntries ==
  \A c \in Clients :
    /\ job'[c].place = "enqueue" <=> job[c].place = "enqueue"
    /\ job[c].place = "enqueue" => job'[c].orders = job[c].orders

ShorterLine ==
  \/ pending' = pending
  \/ pending' = <<>>
  \/ \E k \in DOMAIN pending : pending' = RemoveAt(pending, k)

Quiet ==
  /\ UNCHANGED <<current, brewing, reading, created>>
  /\ at' \in OnArm <=> at \in OnArm
  /\ at' = "complete" <=> at = "complete"
  /\ SameEntries
  /\ ShorterLine

LEMMA ConsumerQuiet ==
  ASSUME ConsumerStep
  PROVE  Quiet \/ StartOrder \/ ReportOrder \/ CompleteOrder
<1> USE DEF Goto, OnArm, Running, Ending
<1>1. CASE StartOrder \/ ReportOrder \/ CompleteOrder
  BY <1>1
<1>2. CASE SelectWake
  BY <1>2 DEF SelectWake, Quiet, SameEntries, ShorterLine
<1>3. CASE \/ SelectStop \/ DrainLoop \/ AwaitClaim \/ AwaitStop \/ StartNone \/ GiveBack
           \/ LocateCart \/ PlaceOnShelf \/ RecordReady \/ PlaceInCart \/ RecordHandedOver
           \/ FinishDrink \/ OrderErrs \/ OrderPanics \/ PauseOnFault \/ FailDelivery
           \/ RecoverPanic \/ ReleaseArm
  <2>1. UNCHANGED <<pending, current, brewing, reading, created, job>>
    BY <1>3 DEF SelectStop, DrainLoop, AwaitClaim, AwaitStop, StartNone, GiveBack, LocateCart,
         PlaceOnShelf, RecordReady, PlaceInCart, RecordHandedOver, FinishDrink, OrderErrs,
         OrderPanics, PauseOnFault, FailDelivery, RecoverPanic, ReleaseArm, queueVars
  <2>2. (at' \in OnArm <=> at \in OnArm) /\ (at' = "complete" <=> at = "complete")
    BY <1>3 DEF SelectStop, DrainLoop, AwaitClaim, AwaitStop, StartNone, GiveBack, LocateCart,
         PlaceOnShelf, RecordReady, PlaceInCart, RecordHandedOver, FinishDrink, OrderErrs,
         OrderPanics, PauseOnFault, FailDelivery, RecoverPanic, ReleaseArm
  <2>3. QED
    BY <2>1, <2>2 DEF Quiet, SameEntries, ShorterLine
<1>4. QED
  BY <1>1, <1>2, <1>3 DEF ConsumerStep

LEMMA NewJobQuiet ==
  ASSUME NEW c \in Clients, job[c].place # "enqueue", job'[c].place # "enqueue",
         \A d \in Clients \ {c} : job'[d] = job[d]
  PROVE  SameEntries
BY DEF SameEntries

LEMMA MovePlaces ==
  ASSUME Typed, NEW c \in Clients, NEW from, NEW to, Move(c, from, to)
  PROVE  /\ job[c].place = from /\ job'[c].place = to
         /\ \A d \in Clients \ {c} : job'[d] = job[d]
<1>1. job \in [Clients -> Job] /\ job[c] \in Job
  BY DEF Typed, TypeOK
<1>2. QED
  BY <1>1 DEF Move, Idle, Job

LEMMA ReceivePlaces ==
  ASSUME Typed, NEW c \in Clients, NEW new, Receive(c, new)
  PROVE  /\ job[c].place = "idle" /\ job'[c] = new
         /\ \A d \in Clients \ {c} : job'[d] = job[d]
BY DEF Receive, Typed, TypeOK

LEMMA ClientStepQuiet ==
  ASSUME Typed, NEW c \in Clients, ClientStep(c)
  PROVE  Quiet \/ TrackOrder(c) \/ EnqueueOrder(c) \/ ResetClear(c)
<1>1. CASE TrackOrder(c) \/ EnqueueOrder(c) \/ ResetClear(c)
  BY <1>1
<1>2. CASE ~(TrackOrder(c) \/ EnqueueOrder(c) \/ ResetClear(c))
  <2>1. UNCHANGED <<pending, current, brewing, reading, created, at>>
    BY <1>2 DEF ClientStep, PokeConsumer, Poke, WithdrawDelivery, ProceedRebuilt, LiftPause,
         ResetWait, ResetClaim, ResetFailActive, ResetRebuilt, HandsOff, Move, queueVars
  <2>2. /\ job[c].place # "enqueue" /\ job'[c].place # "enqueue"
        /\ \A d \in Clients \ {c} : job'[d] = job[d]
    <3>1. CASE PokeConsumer(c) \/ WithdrawDelivery(c)
      <4>1. job \in [Clients -> Job] /\ job[c] \in Job
        BY DEF Typed, TypeOK
      <4>2. \A d \in Clients \ {c} : job'[d] = job[d]
        BY <3>1, <4>1 DEF PokeConsumer, WithdrawDelivery
      <4>3. job[c].place # "enqueue"
        BY <3>1 DEF PokeConsumer, WithdrawDelivery
      <4>4. job'[c] \in {Idle, [job[c] EXCEPT !.place = "intake", !.left = @ - 1],
                         [job[c] EXCEPT !.orders = Tail(@)]}
        BY <3>1, <4>1 DEF PokeConsumer, WithdrawDelivery
      <4>5. job'[c].place # "enqueue"
        <5>1. /\ Idle.place = "idle"
              /\ [job[c] EXCEPT !.place = "intake", !.left = @ - 1].place = "intake"
              /\ [job[c] EXCEPT !.orders = Tail(@)].place = job[c].place
          BY <4>1 DEF Idle, Job
        <5>2. QED
          BY <4>3, <4>4, <5>1
      <4>6. QED
        BY <4>2, <4>3, <4>5
    <3>2. \/ \E from, to : Move(c, from, to) /\ from # "enqueue" /\ to # "enqueue"
          \/ PokeConsumer(c) \/ WithdrawDelivery(c)
      BY <1>2 DEF ClientStep, ProceedRebuilt, LiftPause, ResetWait, ResetClaim,
           ResetFailActive, ResetRebuilt, HandsOff
    <3>3. QED
      BY <3>1, <3>2, MovePlaces
  <2>3. SameEntries
    BY <2>2, NewJobQuiet
  <2>4. QED
    BY <2>1, <2>3 DEF Quiet, ShorterLine
<1>3. QED
  BY <1>1, <1>2

LEMMA ClientCommandQuiet ==
  ASSUME Typed, NEW c \in Clients, ClientCommand(c)
  PROVE  Quiet
<1>1. UNCHANGED <<current, brewing, reading, created, at>>
  BY DEF ClientCommand, PrepareOrder, ClearQueue, CancelOrder, Cancel, Proceed, ResetWorld,
       DriveByHand, Receive, queueVars, ClearPending, RemoveOrder
<1>2. ShorterLine
  BY DEF ClientCommand, PrepareOrder, ClearQueue, CancelOrder, Cancel, Proceed, ResetWorld,
       DriveByHand, queueVars, ClearPending, RemoveOrder, ShorterLine
<1>3. ASSUME NEW new, Receive(c, new), new.place # "enqueue" PROVE SameEntries
  BY <1>3, ReceivePlaces, NewJobQuiet
<1>4. SameEntries
  <2>1. CASE \E n \in 1 .. MaxBatch, bring \in BOOLEAN : PrepareOrder(c, n, bring)
    BY <1>3, <2>1 DEF PrepareOrder, Idle
  <2>2. CASE ClearQueue(c) \/ \E o \in Orders : CancelOrder(c, o)
    BY <1>3, <2>2 DEF ClearQueue, CancelOrder, Idle
  <2>3. CASE Cancel(c) \/ Proceed(c) \/ ResetWorld(c) \/ DriveByHand(c)
    BY <1>3, <2>3 DEF Cancel, Proceed, ResetWorld, DriveByHand, Idle
  <2>4. QED
    BY <2>1, <2>2, <2>3 DEF ClientCommand
<1>5. QED
  BY <1>1, <1>2, <1>4 DEF Quiet

\* Only reset_world empties the slot, and it does so with the arm in hand.
LEMMA ResetClearQuiet ==
  ASSUME Typed, OwnsArm, Books, NEW c \in Clients, ResetClear(c)
  PROVE  Quiet
<1>1. job[c].place = "clearing"
  BY DEF ResetClear, Move
<1>2. holder = c /\ holder # Consumer
  BY <1>1, ServiceAssumption DEF OwnsArm, Holding
<1>3. at \notin OnArm
  BY <1>2 DEF OwnsArm, ConsumerHolds, OnArm
<1>4. current = NoOrder
  BY <1>3 DEF Books
<1>5. SameEntries
  <2>1. job \in [Clients -> Job]
    BY DEF Typed, TypeOK
  <2>2. job'[c].place # "enqueue" /\ \A d \in Clients \ {c} : job'[d] = job[d]
    BY <2>1 DEF ResetClear, Move, Job
  <2>3. QED
    BY <1>1, <2>2, NewJobQuiet
<1>6. QED
  BY <1>4, <1>5 DEF ResetClear, Clear, Move, Quiet, ShorterLine

BookStep ==
  \/ Quiet
  \/ StartOrder \/ ReportOrder \/ CompleteOrder
  \/ \E c \in Clients : TrackOrder(c) \/ EnqueueOrder(c)

LEMMA NextIsBookStep == Typed /\ OwnsArm /\ Books /\ [Next]_vars => BookStep
<1> SUFFICES ASSUME Typed, OwnsArm, Books, [Next]_vars PROVE BookStep
  OBVIOUS
<1>1. CASE PurgeStep \/ CartStep \/ CloseStop \/ CloseLease \/ UNCHANGED vars
  <2>1. UNCHANGED <<pending, current, brewing, reading, created, at, job>>
    BY <1>1 DEF PurgeStep, TickLease, TickQueue, PurgeClaim, PurgeEnd, PurgeStop, PurgeGoto,
         CartStep, CartHeartbeat, CartPending, CartDock, CartHandover, CloseStop, CloseLease,
         vars, procVars, queueVars
  <2>2. QED
    BY <2>1 DEF BookStep, Quiet, SameEntries, ShorterLine
<1>2. QED
  BY <1>1, ConsumerQuiet, ClientStepQuiet, ClientCommandQuiet, ResetClearQuiet DEF Next, BookStep

-----------------------------------------------------------------------------
(* The books stay right.                                                   *)

LEMMA ShorterLineElements ==
  ASSUME Typed, Distinct(pending), ShorterLine
  PROVE  /\ Distinct(pending')
         /\ \A i \in DOMAIN pending' : \E j \in DOMAIN pending : pending'[i] = pending[j]
<1>1. pending \in Seq(Orders)
  BY DEF Typed, TypeOK
<1>2. CASE pending' = pending \/ pending' = <<>>
  BY <1>2 DEF Distinct
<1>3. CASE \E k \in DOMAIN pending : pending' = RemoveAt(pending, k)
  BY <1>1, <1>3, DistinctRemoveAt
<1>4. QED
  BY <1>2, <1>3 DEF ShorterLine

LEMMA QuietBooks ==
  ASSUME Typed, Books, Entering, Quiet PROVE Books' /\ Entering'
<1>1. /\ Distinct(pending')
      /\ \A i \in DOMAIN pending' : \E j \in DOMAIN pending : pending'[i] = pending[j]
  BY ShorterLineElements DEF Books, Quiet
<1>2. Books'
  <2>1. \A i \in DOMAIN pending' :
          pending'[i] \in 1 .. created /\ pending'[i] # current /\ reading[pending'[i]] = "none"
    BY <1>1 DEF Books
  <2>2. QED
    BY <1>1, <2>1 DEF Books, Quiet
<1>3. \A o : Fresh(o) => Fresh(o)'
  BY <1>1 DEF Fresh, Quiet
<1>4. Entering'
  BY <1>3 DEF Entering, Quiet, SameEntries
<1>5. QED
  BY <1>2, <1>4

LEMMA StartBooks ==
  ASSUME Typed, OwnsArm, Books, Entering, StartOrder PROVE Books' /\ Entering'
<1>1. /\ pending \in Seq(Orders) /\ pending # <<>> /\ Head(pending) = pending[1]
      /\ 1 \in DOMAIN pending /\ pending[1] \in Orders
  BY DEF Typed, TypeOK, StartOrder, Start
<1>2. /\ pending' = Tail(pending) /\ current' = pending[1] /\ brewing' = pending[1]
      /\ at = "claimed" /\ at' = "making" /\ UNCHANGED <<reading, created, job>>
  BY <1>1 DEF StartOrder, Start, Goto
<1>3. /\ Distinct(pending')
      /\ \A i \in DOMAIN pending' : \E j \in DOMAIN pending : j # 1 /\ pending'[i] = pending[j]
  BY <1>1, <1>2, DistinctTail DEF Books
<1>4. pending[1] # NoOrder
  BY <1>1, ServiceAssumption
<1>5. Books'
  <2>1. \A i \in DOMAIN pending' :
          pending'[i] \in 1 .. created /\ pending'[i] # pending[1] /\ reading[pending'[i]] = "none"
    BY <1>1, <1>3 DEF Books, Distinct
  <2>2. \A o \in Orders : o > created => o # pending[1] /\ reading[o] = "none"
    <3>1. pending[1] \in 1 .. created /\ created \in Nat
      BY <1>1 DEF Books, Typed, TypeOK
    <3>2. QED
      BY <3>1, ServiceAssumption DEF Books
  <2>3. reading[pending[1]] = "none"
    BY <1>1 DEF Books
  <2>4. QED
    BY <1>2, <1>3, <1>4, <2>1, <2>2, <2>3 DEF Books, OnArm, Running, Ending
<1>6. Entering'
  <2>1. ASSUME NEW o, Fresh(o) PROVE Fresh(o)'
    BY <1>1, <1>2, <1>3, <2>1 DEF Fresh
  <2>2. QED
    BY <1>2, <2>1 DEF Entering
<1>7. QED
  BY <1>5, <1>6

LEMMA ReportBooks ==
  ASSUME Typed, Books, Entering, ReportOrder PROVE Books' /\ Entering'
<1>1. /\ at \in {"ok", "report"} /\ at' = "complete"
      /\ UNCHANGED <<pending, current, brewing, created, job>>
  BY DEF ReportOrder, Goto, queueVars
<1>2. brewing = current /\ current \in Orders
  BY <1>1 DEF Books, OnArm, Running, Ending, Typed, TypeOK
<1>3. /\ reading'[current] # "none"
      /\ \A o \in Orders \ {current} : reading'[o] = reading[o]
  BY <1>2 DEF ReportOrder, Typed, TypeOK
<1>4. Books'
  <2>1. \A i \in DOMAIN pending : pending[i] \in Orders
    BY DEF Typed, TypeOK
  <2>2. \A i \in DOMAIN pending :
          pending[i] \in 1 .. created /\ pending[i] # current /\ reading'[pending[i]] = "none"
    BY <1>3, <2>1 DEF Books
  <2>3. \A o \in Orders : o > created => o # current /\ reading'[o] = "none"
    BY <1>3 DEF Books
  <2>4. QED
    BY <1>1, <1>2, <1>3, <2>2, <2>3 DEF Books, OnArm, Running, Ending
<1>5. \A o \in Orders : Fresh(o) => Fresh(o)'
  BY <1>1, <1>3 DEF Fresh
<1>6. Entering'
  BY <1>1, <1>5 DEF Entering
<1>7. QED
  BY <1>4, <1>6

LEMMA CompleteBooks ==
  ASSUME Typed, Books, Entering, CompleteOrder PROVE Books' /\ Entering'
<1>1. /\ current' = NoOrder /\ brewing' = NoOrder /\ at' = "release"
      /\ UNCHANGED <<pending, reading, created, job>>
  BY DEF CompleteOrder, Complete, Goto
<1>2. Books'
  <2>1. \A i \in DOMAIN pending : pending[i] \in Orders
    BY DEF Typed, TypeOK
  <2>2. QED
    BY <1>1, <2>1, ServiceAssumption DEF Books, OnArm, Running, Ending
<1>3. \A o \in Orders : Fresh(o) => Fresh(o)'
  BY <1>1, ServiceAssumption DEF Fresh
<1>4. Entering'
  BY <1>1, <1>3 DEF Entering
<1>5. QED
  BY <1>2, <1>4

\* A new order is numbered, and is in this command's hands only.
LEMMA TrackBooks ==
  ASSUME Typed, Books, Entering, NEW c \in Clients, TrackOrder(c) PROVE Books' /\ Entering'
<1>0. PICK new : new = created + 1
  OBVIOUS
<1>1. /\ created' = new /\ job' = [job EXCEPT ![c].place = "enqueue", ![c].orders = <<new>>]
      /\ job[c].place = "intake"
      /\ UNCHANGED <<pending, current, brewing, reading, at>>
  BY <1>0 DEF TrackOrder, queueVars
<1>2. created \in Nat /\ new = created + 1 /\ new \in Orders /\ job \in [Clients -> Job]
  BY <1>0, ServiceAssumption DEF Typed, TypeOK, TrackOrder
<1>3. /\ job'[c].place = "enqueue" /\ job'[c].orders = <<new>>
      /\ \A d \in Clients \ {c} : job'[d] = job[d]
  BY <1>1, <1>2 DEF Job
<1>4. Books'
  <2>1. \A i \in DOMAIN pending : pending[i] \in 1 .. new
    BY <1>2 DEF Books
  <2>2. \A o \in Orders : o > new => o > created
    BY <1>2, ServiceAssumption
  <2>3. QED
    BY <1>1, <2>1, <2>2 DEF Books
<1>5. Fresh(new)'
  <2>1. new # current /\ reading[new] = "none"
    BY <1>2 DEF Books
  <2>2. \A i \in DOMAIN pending : pending[i] # new
    BY <1>2 DEF Books
  <2>3. QED
    BY <1>1, <1>2, <2>1, <2>2 DEF Fresh
<1>6. \A o : Fresh(o) => Fresh(o)' /\ o # new
  BY <1>1, <1>2 DEF Fresh
<1>7. Entering'
  <2>1. ASSUME NEW d \in Clients, job'[d].place = "enqueue"
        PROVE  \E o \in Orders : job'[d].orders = <<o>> /\ Fresh(o)'
    BY <1>2, <1>3, <1>5, <1>6, <2>1 DEF Entering
  <2>2. \A d \in Clients \ {c} : job[d].place = "enqueue" => job[d].orders # <<new>>
    <3>1. \A o : <<o>> = <<new>> => o = new
      OBVIOUS
    <3>2. QED
      BY <1>6, <3>1 DEF Entering
  <2>3. QED
    BY <1>3, <2>1, <2>2 DEF Entering
<1>8. QED
  BY <1>4, <1>7

\* It goes to the end of the line.
LEMMA EnqueueBooks ==
  ASSUME Typed, Books, Entering, NEW c \in Clients, EnqueueOrder(c) PROVE Books' /\ Entering'
<1>1. job[c].place = "enqueue" /\ job \in [Clients -> Job]
  BY DEF EnqueueOrder, Move, Typed, TypeOK
<1>2. PICK o \in Orders : job[c].orders = <<o>> /\ Fresh(o)
  BY <1>1 DEF Entering
<1>3. /\ pending' = Append(pending, o)
      /\ UNCHANGED <<current, brewing, reading, created, at>>
  BY <1>2 DEF EnqueueOrder, Append1, Move
<1>4. job'[c].place # "enqueue" /\ \A d \in Clients \ {c} : job'[d] = job[d]
  BY <1>1 DEF EnqueueOrder, Move, Job
<1>5. pending \in Seq(Orders)
  BY DEF Typed, TypeOK
<1>6. /\ DOMAIN pending' = 1 .. Len(pending) + 1 /\ DOMAIN pending = 1 .. Len(pending)
      /\ Len(pending) \in Nat /\ pending'[Len(pending) + 1] = o
      /\ \A i \in DOMAIN pending : pending'[i] = pending[i]
  BY <1>3, <1>5
<1>7. Books'
  <2>1. Distinct(pending')
    BY <1>2, <1>3, <1>5, DistinctAppend DEF Books, Fresh
  <2>2. \A i \in DOMAIN pending' :
          pending'[i] \in 1 .. created /\ pending'[i] # current /\ reading[pending'[i]] = "none"
    <3> SUFFICES ASSUME NEW i \in DOMAIN pending'
                 PROVE  pending'[i] \in 1 .. created /\ pending'[i] # current
                        /\ reading[pending'[i]] = "none"
      OBVIOUS
    <3>1. CASE i = Len(pending) + 1
      BY <1>2, <1>6, <3>1 DEF Fresh
    <3>2. CASE i \in DOMAIN pending
      BY <1>6, <3>2 DEF Books
    <3>3. QED
      BY <1>6, <3>1, <3>2
  <2>3. QED
    BY <1>3, <2>1, <2>2 DEF Books
<1>8. ASSUME NEW e, Fresh(e), e # o PROVE Fresh(e)'
  <2>1. \A i \in DOMAIN pending' : pending'[i] # e
    BY <1>6, <1>8 DEF Fresh
  <2>2. QED
    BY <1>3, <1>8, <2>1 DEF Fresh
<1>9. Entering'
  <2>1. ASSUME NEW d \in Clients, job'[d].place = "enqueue"
        PROVE  \E e \in Orders : job'[d].orders = <<e>> /\ Fresh(e)'
    <3>1. d # c /\ job'[d] = job[d]
      BY <1>4, <2>1
    <3>2. PICK e \in Orders : job[d].orders = <<e>> /\ Fresh(e)
      BY <2>1, <3>1 DEF Entering
    <3>3. e # o
      BY <1>1, <1>2, <2>1, <3>1, <3>2 DEF Entering
    <3>4. QED
      BY <1>8, <3>1, <3>2, <3>3
  <2>2. QED
    BY <1>4, <2>1 DEF Entering
<1>10. QED
  BY <1>7, <1>9

Accounted == Books /\ Entering

LEMMA InitAccounted == Init => Accounted
BY ServiceAssumption DEF Init, QueueInit, Idle, Accounted, Books, Entering, OnArm, Running, Ending, Distinct

LEMMA NextAccounted == Typed /\ OwnsArm /\ Accounted /\ [Next]_vars => Accounted'
BY NextIsBookStep, QuietBooks, StartBooks, ReportBooks, CompleteBooks, TrackBooks, EnqueueBooks
   DEF BookStep, Accounted

LEMMA ServiceInvariant == Spec => [](Typed /\ OwnsArm /\ Accounted)
BY InitTyped, InitOwnership, InitAccounted, NextTyped, NextOwnership, NextAccounted, PTL DEF Spec

(* The queue's books agree with the goroutine that works them, no matter   *)
(* which clear_queue, cancel_order or reset_world lands in between: an     *)
(* order is in line at most once, never again after it was started, and is *)
(* reported exactly once (order/queue.go Start, Remove, Clear, Complete).  *)
THEOREM BooksAgree == Spec => []OrdersAccounted
<1>1. Books => OrdersAccounted
  BY DEF Books, OrdersAccounted, OnArm, Distinct, ToSet
<1>2. Accounted => OrdersAccounted
  BY <1>1 DEF Accounted
<1>3. QED
  BY <1>2, ServiceInvariant, PTL

-----------------------------------------------------------------------------
(***************************************************************************)
(* The promise to the customers: each of these steps is one of             *)
(* OrderLifecycle's, or none.                                              *)
(***************************************************************************)
EnteringAs(c, o) == job[c].place = "enqueue" /\ job[c].orders = <<o>>

LEMMA QuietLifecycle ==
  ASSUME Typed, Accounted, Quiet PROVE [Lifecycle!Next]_Lifecycle!lifeVars
<1>1. Making' = Making /\ Finished' = Finished
  BY DEF Quiet, Making, Finished
<1>2. Entered' = Entered
  <2>1. \A c \in Clients, o \in 1 .. created : EnteringAs(c, o)' <=> EnteringAs(c, o)
    BY DEF EnteringAs, Quiet, SameEntries
  <2>2. QED
    BY <2>1 DEF Quiet, Entered, EnteringAs
<1>3. CASE pending' = pending
  BY <1>1, <1>2, <1>3 DEF Lifecycle!lifeVars
<1>4. CASE pending' = <<>>
  BY <1>1, <1>2, <1>4 DEF Lifecycle!Next, Lifecycle!WithdrawAll
<1>5. CASE \E k \in DOMAIN pending : pending' = RemoveAt(pending, k)
  BY <1>1, <1>2, <1>5 DEF Lifecycle!Next, Lifecycle!WithdrawOne, RemoveAt, Lifecycle!RemoveAt
<1>6. QED
  BY <1>3, <1>4, <1>5 DEF Quiet, ShorterLine

LEMMA StartLifecycle ==
  ASSUME Typed, Accounted, StartOrder PROVE Lifecycle!Begin
<1>1. /\ pending # <<>> /\ pending' = Tail(pending) /\ current' = Head(pending)
      /\ at = "claimed" /\ UNCHANGED <<reading, created, job>>
  BY DEF StartOrder, Start, Goto
<1>2. Head(pending) \in Orders /\ reading[Head(pending)] = "none"
  <2>1. pending \in Seq(Orders)
    BY DEF Typed, TypeOK
  <2>2. Head(pending) = pending[1] /\ 1 \in DOMAIN pending /\ pending[1] \in Orders
    BY <1>1, <2>1
  <2>3. QED
    BY <2>2 DEF Accounted, Books
<1>3. current = NoOrder
  BY <1>1 DEF Accounted, Books, OnArm, Running, Ending
<1>4. Making = {} /\ Making' = {Head(pending)}
  BY <1>1, <1>2, <1>3, ServiceAssumption DEF Making
<1>5. Finished' = Finished /\ Entered' = Entered
  BY <1>1 DEF Finished, Entered
<1>6. QED
  BY <1>1, <1>4, <1>5 DEF Lifecycle!Begin

LEMMA ReportLifecycle ==
  ASSUME Typed, Accounted, ReportOrder PROVE Lifecycle!Finish
<1>1. /\ at \in {"ok", "report"} /\ UNCHANGED <<pending, current, brewing, created, job>>
  BY DEF ReportOrder, Goto, queueVars
<1>2. brewing = current /\ current \in Orders /\ reading[current] = "none"
  BY <1>1 DEF Accounted, Books, OnArm, Running, Ending, Typed, TypeOK
<1>3. /\ reading'[current] # "none"
      /\ \A o \in Orders \ {current} : reading'[o] = reading[o]
  BY <1>2 DEF ReportOrder, Typed, TypeOK
<1>4. Making = {current} /\ Making' = {}
  BY <1>1, <1>2, <1>3 DEF Making
<1>5. Finished' = Finished \cup {current}
  BY <1>2, <1>3 DEF Finished
<1>6. Entered' = Entered
  BY <1>1 DEF Entered
<1>7. QED
  BY <1>1, <1>4, <1>5, <1>6 DEF Lifecycle!Finish

LEMMA CompleteLifecycle ==
  ASSUME Typed, Accounted, CompleteOrder PROVE UNCHANGED Lifecycle!lifeVars
<1>1. /\ at = "complete" /\ current' = NoOrder
      /\ UNCHANGED <<pending, reading, created, job>>
  BY DEF CompleteOrder, Complete, Goto
<1>2. Making = {} /\ Making' = {}
  BY <1>1, ServiceAssumption DEF Making, Accounted, Books, OnArm, Running, Ending
<1>3. Finished' = Finished /\ Entered' = Entered
  BY <1>1 DEF Finished, Entered
<1>4. QED
  BY <1>1, <1>2, <1>3 DEF Lifecycle!lifeVars

LEMMA TrackLifecycle ==
  ASSUME Typed, Accounted, NEW c \in Clients, TrackOrder(c)
  PROVE  UNCHANGED Lifecycle!lifeVars
<1>0. PICK new : new = created + 1
  OBVIOUS
<1>1. /\ created' = new /\ job' = [job EXCEPT ![c].place = "enqueue", ![c].orders = <<new>>]
      /\ job[c].place = "intake"
      /\ UNCHANGED <<pending, current, reading>>
  BY <1>0 DEF TrackOrder, queueVars
<1>2. created \in Nat /\ new \notin 1 .. created /\ 1 .. new = 1 .. created \cup {new}
  BY <1>0 DEF Typed, TypeOK
<1>3. /\ job'[c].place = "enqueue" /\ job'[c].orders = <<new>>
      /\ \A d \in Clients \ {c} : job'[d] = job[d]
  BY <1>1 DEF Job, Typed, TypeOK
<1>4. EnteringAs(c, new)'
  BY <1>3 DEF EnteringAs
<1>5. \A d \in Clients, o \in 1 .. created : EnteringAs(d, o)' <=> EnteringAs(d, o)
  <2>1. \A o \in 1 .. created : <<new>> # <<o>>
    BY <1>2
  <2>2. QED
    BY <1>1, <1>3, <2>1 DEF EnteringAs
<1>6. Entered' = {o \in 1 .. new : \A d \in Clients : ~EnteringAs(d, o)'}
  BY <1>1 DEF Entered, EnteringAs
<1>7. Entered = {o \in 1 .. created : \A d \in Clients : ~EnteringAs(d, o)}
  BY DEF Entered, EnteringAs
<1>8. Entered' = Entered
  BY <1>2, <1>4, <1>5, <1>6, <1>7
<1>9. Making' = Making /\ Finished' = Finished
  BY <1>1 DEF Making, Finished
<1>10. QED
  BY <1>1, <1>8, <1>9 DEF Lifecycle!lifeVars

LEMMA EnqueueLifecycle ==
  ASSUME Typed, Accounted, NEW c \in Clients, EnqueueOrder(c)
  PROVE  \E o \in Orders : Lifecycle!Enter(o)
<1>1. job[c].place = "enqueue" /\ job'[c].place = "poke"
      /\ \A d \in Clients \ {c} : job'[d] = job[d]
  BY MovePlaces DEF EnqueueOrder
<1>2. PICK o \in Orders : job[c].orders = <<o>> /\ Fresh(o)
  BY <1>1 DEF Accounted, Entering
<1>3. pending' = Append(pending, o) /\ UNCHANGED <<current, reading, created>>
  BY <1>2 DEF EnqueueOrder, Append1, Move
<1>4. EnteringAs(c, o) /\ o \in 1 .. created
  BY <1>1, <1>2 DEF EnteringAs, Fresh
<1>5. \A d \in Clients : EnteringAs(d, o) => d = c
  BY <1>1, <1>2 DEF Accounted, Entering, EnteringAs
<1>6. \A e : <<e>> = <<o>> => e = o
  OBVIOUS
<1>7. \A d \in Clients, e \in 1 .. created :
        EnteringAs(d, e)' <=> EnteringAs(d, e) /\ e # o
  BY <1>1, <1>2, <1>5, <1>6 DEF EnteringAs
<1>8. Entered' = {e \in 1 .. created : \A d \in Clients : ~EnteringAs(d, e)'}
  BY <1>3 DEF Entered, EnteringAs
<1>9. Entered = {e \in 1 .. created : \A d \in Clients : ~EnteringAs(d, e)}
  BY DEF Entered, EnteringAs
<1>10. o \notin Entered /\ Entered' = Entered \cup {o}
  <2>1. \A e \in 1 .. created : e # o =>
          ((\A d \in Clients : ~EnteringAs(d, e)') <=> \A d \in Clients : ~EnteringAs(d, e))
    BY <1>7
  <2>2. \A d \in Clients : ~EnteringAs(d, o)'
    BY <1>4, <1>7
  <2>3. QED
    BY <1>4, <1>8, <1>9, <2>1, <2>2
<1>11. Making' = Making /\ Finished' = Finished
  BY <1>3 DEF Making, Finished
<1>12. QED
  BY <1>3, <1>10, <1>11 DEF Lifecycle!Enter

(* The service implements OrderLifecycle: an order waits in line once, is  *)
(* made when it is at the front and nothing else is being made, is then    *)
(* accounted for exactly once, and can be withdrawn only while it waits,   *)
(* whichever commands, cancels and resets land in between.                 *)
THEOREM LineIsKept == Spec => ImplementsLifecycle
<1>1. Init => Lifecycle!Init
  <2> SUFFICES ASSUME Init PROVE Lifecycle!Init
    OBVIOUS
  <2>1. Making = {} /\ Finished = {} /\ Entered = {}
    BY ServiceAssumption DEF Init, QueueInit, Making, Finished, Entered
  <2>2. QED
    BY <2>1 DEF Init, QueueInit, Lifecycle!Init
<1>2. Typed /\ OwnsArm /\ Accounted /\ [Next]_vars => [Lifecycle!Next]_Lifecycle!lifeVars
  <2> SUFFICES ASSUME Typed, OwnsArm, Accounted, [Next]_vars
               PROVE  [Lifecycle!Next]_Lifecycle!lifeVars
    OBVIOUS
  <2>1. BookStep
    BY NextIsBookStep DEF Accounted
  <2>2. QED
    BY <2>1, QuietLifecycle, StartLifecycle, ReportLifecycle, CompleteLifecycle,
       TrackLifecycle, EnqueueLifecycle DEF BookStep, Lifecycle!Next
<1>3. QED
  BY <1>1, <1>2, ServiceInvariant, PTL DEF Spec, ImplementsLifecycle, Lifecycle!Spec

-----------------------------------------------------------------------------
(***************************************************************************)
(* Deliveries.  What a single record says of its drink.                    *)
(***************************************************************************)
RecordOK(rec) ==
  /\ rec.served => ~rec.toCart /\ rec.status # "making"
  /\ rec.status = "handed_over" => rec.served /\ rec.docked
  /\ rec.status \in {"ready", "retrying"} /\ ~rec.toCart => rec.served

NewRecord == [status |-> "making", served |-> FALSE, docked |-> FALSE, toCart |-> FALSE]
Docked(rec) == [rec EXCEPT !.docked = TRUE]

LEMMA NewRecordFields == NewRecord \in Record /\ RecordOK(NewRecord) /\ ~NewRecord.served
BY DEF NewRecord, Record, Active, RecordOK

LEMMA SettleFields ==
  ASSUME NEW rec \in Record
  PROVE  /\ Settle(rec) \in Record
         /\ Settle(rec).served = rec.served /\ Settle(rec).docked = rec.docked
         /\ Settle(rec).toCart = rec.toCart
         /\ rec.status \notin {"ready", "retrying"} => Settle(rec).status = rec.status
         /\ Settle(rec).status # "failed" \/ rec.status = "failed"
         /\ Settle(rec).status \in Active => rec.status \in Active
         /\ RecordOK(rec) => RecordOK(Settle(rec))
BY DEF Settle, Record, RecordOK, Active, Terminal

LEMMA DockedFields ==
  ASSUME NEW rec \in Record
  PROVE  /\ Docked(rec) \in Record /\ Docked(rec).docked
         /\ Docked(rec).status = rec.status /\ Docked(rec).served = rec.served
         /\ RecordOK(rec) => RecordOK(Docked(rec))
BY DEF Docked, Record, RecordOK

LEMMA FailFields ==
  ASSUME NEW rec \in Record
  PROVE  /\ Fail(rec) \in Record /\ Fail(rec).status = "failed"
         /\ Fail(rec).served = rec.served
         /\ RecordOK(rec) => RecordOK(Fail(rec))
BY DEF Fail, Record, Terminal, RecordOK

-----------------------------------------------------------------------------
(* The steps that write in the records.                                    *)

CartWork == \E old \in SUBSET Settled :
  CartPending(old) \/ CartDock(old) \/ \E o \in Orders : CartHandover(o, old)

DeliveryStep ==
  \/ UNCHANGED delivery
  \/ CartWork
  \/ LocateCart \/ RecordReady \/ RecordHandedOver \/ FailDelivery
  \/ \E c \in Clients : TrackOrder(c) \/ WithdrawDelivery(c) \/ ResetFailActive(c)

LEMMA NextIsDeliveryStep == [Next]_vars => DeliveryStep
<1> SUFFICES ASSUME [Next]_vars PROVE DeliveryStep
  OBVIOUS
<1>1. CASE ConsumerStep
  BY <1>1 DEF ConsumerStep, SelectWake, SelectStop, DrainLoop, AwaitClaim, AwaitStop, StartNone,
       GiveBack, StartOrder, PlaceOnShelf, PlaceInCart, FinishDrink, OrderErrs, OrderPanics,
       PauseOnFault, RecoverPanic, ReportOrder, CompleteOrder, ReleaseArm, deliveryVars,
       DeliveryStep
<1>2. CASE PurgeStep \/ CloseStop \/ CloseLease \/ UNCHANGED vars \/ CartStep
  BY <1>2 DEF PurgeStep, TickLease, TickQueue, PurgeClaim, PurgeEnd, PurgeStop, PurgeGoto,
       CloseStop, CloseLease, vars, deliveryVars, CartStep, CartHeartbeat, Heartbeat, CartWork,
       DeliveryStep
<1>3. ASSUME NEW c \in Clients, ClientStep(c) \/ ClientCommand(c) PROVE DeliveryStep
  BY <1>3 DEF ClientStep, ClientCommand, EnqueueOrder, PokeConsumer, ProceedRebuilt, LiftPause,
       ResetWait, ResetClaim, ResetClear, ResetRebuilt, HandsOff, PrepareOrder, ClearQueue,
       CancelOrder, Cancel, Proceed, ResetWorld, DriveByHand, deliveryVars, DeliveryStep
<1>4. QED
  BY <1>1, <1>2, <1>3 DEF Next

\* What a poll of the cart may do to the record of o.
Polled(o) ==
  \/ delivery'[o] = delivery[o]
  \/ o \in Settled /\ delivery'[o] = NoRecord
  \/ o \in Tracked /\ delivery'[o] = Settle(delivery[o])
  \/ o \in Waiting /\ delivery'[o] = Settle(Docked(delivery[o]))

LEMMA CartWorkPolls == ASSUME Typed, CartWork, NEW o \in Orders PROVE Polled(o)
<1>1. delivery \in [Orders -> Record \cup {NoRecord}]
  BY DEF Typed, TypeOK
<1>2. PICK old \in SUBSET Settled :
        \/ PendingPoll(old) \/ Dock(old)
        \/ \E p \in Orders : HandoverPoll(p, old)
  BY DEF CartWork, CartPending, CartDock, CartHandover
<1>3. /\ Pruned(old)[o] = (IF o \in old THEN NoRecord ELSE delivery[o])
      /\ Pruned(old) \in [Orders -> Record \cup {NoRecord}]
  BY <1>1 DEF Pruned
<1>4. CASE PendingPoll(old)
  BY <1>2, <1>3, <1>4 DEF PendingPoll, Polled
<1>5. CASE Dock(old)
  BY <1>2, <1>3, <1>5 DEF Dock, Oldest, Docked, Polled
<1>6. ASSUME NEW p \in Orders, HandoverPoll(p, old) PROVE Polled(o)
  <2>1. delivery'[o] = (IF o # p \/ Pruned(old)[o] = NoRecord THEN Pruned(old)[o]
                        ELSE Settle(Pruned(old)[o]))
    BY <1>3, <1>6 DEF HandoverPoll
  <2>2. QED
    BY <1>2, <1>3, <2>1 DEF Polled, Tracked
<1>7. QED
  BY <1>2, <1>4, <1>5, <1>6

LEMMA OneRecord ==
  ASSUME Typed, NEW o \in Orders, NEW rec, Update(o, rec)
  PROVE  /\ delivery'[o] = rec
         /\ \A p \in Orders \ {o} : delivery'[p] = delivery[p]
BY DEF Typed, TypeOK, Update

\* What failIfMaking may do to the record of o.
FailedIfMaking(o) ==
  IF o \in Tracked /\ (delivery[o].status = "making" \/ delivery[o].toCart)
  THEN delivery'[o] = Fail(delivery[o])
  ELSE delivery'[o] = delivery[o]

LEMMA FailIfMakingFails ==
  ASSUME Typed, NEW o \in Orders, FailIfMaking(o)
  PROVE  /\ FailedIfMaking(o)
         /\ \A p \in Orders \ {o} : delivery'[p] = delivery[p]
BY OneRecord DEF FailIfMaking, FailedIfMaking

LEMMA RecordIsRecord ==
  ASSUME Typed, NEW o \in Tracked PROVE o \in Orders /\ delivery[o] \in Record
BY DEF Typed, TypeOK, Tracked

LEMMA BrewingOnArm == Typed /\ Books /\ at \in OnArm => brewing \in Orders /\ brewing = current
BY DEF Typed, TypeOK, Books

-----------------------------------------------------------------------------
(***************************************************************************)
(* The records and the orders they belong to.                              *)
(***************************************************************************)
RecordsOK ==
  \A o \in Tracked :
    /\ RecordOK(delivery[o])
    /\ o \in forCart /\ o <= created
    /\ delivery[o].served => SetDown(o)

\* The cart that the drink is carried to has been told where it is.
CarriedToDock == at \in {"docked", "incart"} /\ brewing \in Waiting => delivery[brewing].docked

DeliveryInv == RecordsOK /\ CarriedToDock

\* Everything that may happen to the record of o in one step.
RecordStarted(o)   == /\ delivery[o] = NoRecord /\ delivery'[o] = NewRecord
                      /\ o > created /\ o <= created' /\ o \in forCart'
                      /\ \E c \in Clients : job'[c].place = "enqueue" /\ job'[c].orders = <<o>>
RecordLocated(o)   == /\ o \in Tracked /\ delivery[o].status = "making"
                      /\ delivery'[o] = [delivery[o] EXCEPT !.status = "ready", !.toCart = TRUE]
RecordServed(o)    == /\ o \in Waiting
                      /\ delivery'[o] = Settle([delivery[o] EXCEPT !.status = "ready",
                                                  !.served = TRUE, !.toCart = FALSE])
RecordCarried(o)   == /\ o \in Waiting /\ delivery[o].docked
                      /\ delivery'[o] = [delivery[o] EXCEPT !.status = "handed_over",
                                           !.served = TRUE, !.toCart = FALSE]
RecordReset(o)     == /\ o \in Waiting /\ delivery'[o] = Fail(delivery[o])
                      /\ \E c \in Clients : job[c].place = "failing"

RecordChange(o) ==
  \/ Polled(o) \/ RecordStarted(o) \/ RecordLocated(o) \/ FailedIfMaking(o) \/ RecordReset(o)
  \/ (RecordServed(o) \/ RecordCarried(o)) /\ o = brewing /\ at' = "served"

LEMMA RecordChanges ==
  ASSUME Typed, Books, DeliveryInv, [Next]_vars, NEW o \in Orders
  PROVE  RecordChange(o)
<1> USE DEF RecordChange
<1>1. CASE UNCHANGED delivery
  BY <1>1 DEF Polled
<1>2. CASE CartWork
  BY <1>2, CartWorkPolls
<1>3. CASE LocateCart
  <2>1. brewing \in Orders /\ at = "making"
    BY <1>3, BrewingOnArm DEF LocateCart, Goto, OnArm, Running
  <2>2. \/ o # brewing /\ delivery'[o] = delivery[o]
        \/ o = brewing /\ RecordLocated(o)
        \/ delivery'[o] = delivery[o]
    BY <1>3, <2>1, OneRecord DEF LocateCart, MarkReadyForCart, RecordLocated
  <2>3. QED
    BY <2>2 DEF Polled
<1>4. CASE RecordReady
  <2>1. brewing \in Orders /\ at = "placed" /\ at' = "served"
    BY <1>4, BrewingOnArm DEF RecordReady, Goto, OnArm, Running
  <2>2. \/ delivery'[o] = delivery[o]
        \/ o = brewing /\ RecordServed(o)
    <3>1. CASE brewing \in forCart
      BY <1>4, <2>1, <3>1, OneRecord DEF RecordReady, MarkReady, RecordServed
    <3>2. CASE brewing \notin forCart
      BY <1>4, <3>2 DEF RecordReady, deliveryVars
    <3>3. QED
      BY <3>1, <3>2
  <2>3. QED
    BY <2>1, <2>2 DEF Polled
<1>5. CASE RecordHandedOver
  <2>1. brewing \in Orders /\ at = "incart" /\ at' = "served"
    BY <1>5, BrewingOnArm DEF RecordHandedOver, Goto, OnArm, Running
  <2>2. \/ delivery'[o] = delivery[o]
        \/ o = brewing /\ RecordCarried(o)
    BY <1>5, <2>1, OneRecord DEF RecordHandedOver, MarkHandedOver, RecordCarried,
       DeliveryInv, CarriedToDock
  <2>3. QED
    BY <2>1, <2>2 DEF Polled
<1>6. CASE FailDelivery
  <2>1. brewing \in Orders
    BY <1>6, BrewingOnArm DEF FailDelivery, Goto, OnArm, Ending
  <2>2. QED
    BY <1>6, <2>1, FailIfMakingFails DEF FailDelivery, Polled
<1>7. ASSUME NEW c \in Clients, TrackOrder(c) PROVE RecordChange(o)
  <2>1. created + 1 \in Orders /\ created \in Nat
    BY <1>7, ServiceAssumption DEF TrackOrder, Typed, TypeOK
  <2>2. delivery[created + 1] = NoRecord
    BY <2>1 DEF DeliveryInv, RecordsOK, Tracked
  <2>3. CASE job[c].delivery
    <3>1. Update(created + 1, NewRecord)
      BY <1>7, <2>2, <2>3 DEF TrackOrder, Track, NewRecord
    <3>2. created' = created + 1 /\ created + 1 \in forCart'
      BY <1>7, <2>3 DEF TrackOrder
    <3>3. job'[c].place = "enqueue" /\ job'[c].orders = <<created + 1>>
      BY <1>7 DEF TrackOrder, Typed, TypeOK, Job
    <3>4. CASE o = created + 1
      BY <2>1, <2>2, <3>1, <3>2, <3>3, <3>4, OneRecord DEF RecordStarted
    <3>5. CASE o # created + 1
      BY <2>1, <3>1, <3>5, OneRecord DEF Polled
    <3>6. QED
      BY <3>4, <3>5
  <2>4. CASE ~job[c].delivery
    BY <1>7, <2>4 DEF TrackOrder, deliveryVars, Polled
  <2>5. QED
    BY <2>3, <2>4
<1>8. ASSUME NEW c \in Clients, WithdrawDelivery(c) PROVE RecordChange(o)
  <2>1. Head(job[c].orders) \in Orders
    <3>1. job[c].orders \in Seq(Orders) /\ job[c].orders # <<>>
      BY <1>8 DEF WithdrawDelivery, Typed, TypeOK, Job, JobOK
    <3>2. QED
      BY <3>1
  <2>2. QED
    BY <1>8, <2>1, FailIfMakingFails DEF WithdrawDelivery, Polled
<1>9. ASSUME NEW c \in Clients, ResetFailActive(c) PROVE RecordChange(o)
  BY <1>9 DEF ResetFailActive, FailActive, Move, RecordReset, Polled
<1>10. QED
  BY <1>1, <1>2, <1>3, <1>4, <1>5, <1>6, <1>7, <1>8, <1>9, NextIsDeliveryStep DEF DeliveryStep

\* What a changed record says.
LEMMA ChangedRecord ==
  ASSUME Typed, DeliveryInv, NEW o \in Orders, RecordChange(o), delivery'[o] # NoRecord
  PROVE  /\ RecordOK(delivery'[o])
         /\ o \in Tracked \/ RecordStarted(o)
         /\ o \in Tracked /\ delivery'[o].served =>
              delivery[o].served \/ (o = brewing /\ at' = "served")
         /\ o \in Tracked /\ delivery'[o].status \in Active =>
              o \in Waiting /\ (delivery[o].docked => delivery'[o].docked)
                            /\ (delivery[o].served => delivery'[o].served)
<1> USE DEF Waiting, Settled
<1>1. o \in Tracked => delivery[o] \in Record /\ RecordOK(delivery[o])
  BY RecordIsRecord DEF DeliveryInv, RecordsOK
<1>2. CASE RecordStarted(o)
  BY <1>2, NewRecordFields DEF RecordStarted, Tracked
<1>3. CASE Polled(o)
  <2>1. o \in Tracked
    BY <1>3 DEF Polled, Tracked
  <2>2. CASE delivery'[o] = delivery[o]
    BY <1>1, <2>1, <2>2
  <2>3. CASE delivery'[o] = Settle(delivery[o])
    BY <1>1, <2>1, <2>3, SettleFields
  <2>4. CASE o \in Waiting /\ delivery'[o] = Settle(Docked(delivery[o]))
    <3>1. /\ Docked(delivery[o]) \in Record /\ Docked(delivery[o]).docked
          /\ Docked(delivery[o]).served = delivery[o].served
          /\ RecordOK(Docked(delivery[o]))
      BY <1>1, <2>1, DockedFields
    <3>2. QED
      BY <2>1, <2>4, <3>1, SettleFields
  <2>5. QED
    BY <1>3, <2>2, <2>3, <2>4 DEF Polled
<1>4. CASE RecordLocated(o)
  BY <1>1, <1>4 DEF RecordLocated, Record, RecordOK, Active
<1>5. CASE FailedIfMaking(o)
  <2>1. CASE delivery'[o] = delivery[o]
    BY <1>1, <2>1 DEF Tracked
  <2>2. CASE o \in Tracked /\ delivery'[o] = Fail(delivery[o])
    BY <1>1, <2>2, FailFields DEF Active
  <2>3. QED
    BY <1>5, <2>1, <2>2 DEF FailedIfMaking
<1>6. CASE RecordReset(o)
  BY <1>1, <1>6, FailFields DEF RecordReset, Active
<1>7. CASE RecordServed(o) /\ o = brewing /\ at' = "served"
  <2> DEFINE rec == [delivery[o] EXCEPT !.status = "ready", !.served = TRUE, !.toCart = FALSE]
  <2>1. rec \in Record /\ RecordOK(rec) /\ rec.served /\ rec.docked = delivery[o].docked
    BY <1>1, <1>7 DEF RecordServed, Record, RecordOK, Active
  <2> HIDE DEF rec
  <2>2. delivery'[o] = Settle(rec)
    BY <1>7 DEF RecordServed, rec
  <2>3. QED
    BY <1>7, <2>1, <2>2, SettleFields DEF RecordServed
<1>8. CASE RecordCarried(o) /\ o = brewing /\ at' = "served"
  BY <1>1, <1>8 DEF RecordCarried, Record, RecordOK, Active
<1>9. QED
  BY <1>2, <1>3, <1>4, <1>5, <1>6, <1>7, <1>8 DEF RecordChange

-----------------------------------------------------------------------------
(* The consumer's place and its order.                                     *)

LEMMA OnlyConsumerMoves == [Next]_vars => ConsumerStep \/ UNCHANGED <<at, brewing, reading>>
<1> SUFFICES ASSUME [Next]_vars, ~ConsumerStep PROVE UNCHANGED <<at, brewing, reading>>
  OBVIOUS
<1>1. CASE PurgeStep \/ CloseStop \/ CloseLease \/ UNCHANGED vars \/ CartStep
  BY <1>1 DEF PurgeStep, TickLease, TickQueue, PurgeClaim, PurgeEnd, PurgeStop, PurgeGoto,
       CloseStop, CloseLease, vars, procVars, CartStep, CartHeartbeat, CartPending, CartDock,
       CartHandover
<1>2. ASSUME NEW c \in Clients, ClientStep(c) \/ ClientCommand(c)
      PROVE  UNCHANGED <<at, brewing, reading>>
  BY <1>2 DEF ClientStep, ClientCommand, TrackOrder, EnqueueOrder, PokeConsumer,
       WithdrawDelivery, ProceedRebuilt, LiftPause, ResetWait, ResetClaim, ResetClear,
       ResetFailActive, ResetRebuilt, HandsOff, PrepareOrder, ClearQueue, CancelOrder,
       Cancel, Proceed, ResetWorld, DriveByHand, Move, Receive
<1>3. QED
  BY <1>1, <1>2 DEF Next

\* The order of the consumer changes when it starts and when it completes one.
LEMMA ConsumerPlaceSteps ==
  ASSUME ConsumerStep
  PROVE  \/ StartOrder
         \/ CompleteOrder
         \/ ReportOrder
         \/ /\ UNCHANGED <<brewing, reading>>
            /\ at \in {"served", "ok"} \cup Ending => at' \in {"served", "ok"} \cup Ending
            /\ at' \in {"docked", "incart"} => LocateCart \/ at = "docked"
BY DEF ConsumerStep, SelectWake, SelectStop, DrainLoop, AwaitClaim, AwaitStop, StartNone,
     GiveBack, LocateCart, PlaceOnShelf, RecordReady, PlaceInCart, RecordHandedOver,
     FinishDrink, OrderErrs, OrderPanics, PauseOnFault, FailDelivery, RecoverPanic,
     ReleaseArm, CompleteOrder, Goto, Ending

LEMMA SetDownStays ==
  ASSUME Typed, Books, [Next]_vars, NEW o \in Orders, SetDown(o) PROVE SetDown(o)'
<1>1. CASE UNCHANGED <<at, brewing, reading>>
  BY <1>1 DEF SetDown
<1>2. CASE StartOrder
  BY <1>2 DEF StartOrder, Goto, SetDown, Ending
<1>3. CASE CompleteOrder
  BY <1>3 DEF CompleteOrder, Goto, SetDown, Books, OnArm, Running, Ending
<1>4. CASE ReportOrder
  BY <1>4 DEF ReportOrder, Goto, SetDown, Typed, TypeOK, Ending
<1>5. CASE /\ UNCHANGED <<brewing, reading>>
           /\ at \in {"served", "ok"} \cup Ending => at' \in {"served", "ok"} \cup Ending
  BY <1>5 DEF SetDown
<1>6. QED
  BY <1>1, <1>2, <1>3, <1>4, <1>5, OnlyConsumerMoves, ConsumerPlaceSteps

LEMMA BrewingKept ==
  ASSUME Typed, Books, [Next]_vars, at' \in {"served", "docked", "incart"}
  PROVE  brewing' = brewing
BY OnlyConsumerMoves, ConsumerPlaceSteps DEF StartOrder, CompleteOrder, ReportOrder, Goto

LEMMA BooksGrow ==
  ASSUME Typed, [Next]_vars
  PROVE  created' \in Nat /\ created <= created' /\ forCart \subseteq forCart'
<1>1. created \in Nat
  BY DEF Typed, TypeOK
<1>2. CASE ConsumerStep
  <2>1. UNCHANGED <<created, forCart>>
    BY <1>2 DEF ConsumerStep, SelectWake, SelectStop, DrainLoop, AwaitClaim, AwaitStop, StartNone,
       GiveBack, StartOrder, LocateCart, PlaceOnShelf, RecordReady, PlaceInCart,
       RecordHandedOver, FinishDrink, OrderErrs, OrderPanics, PauseOnFault, FailDelivery,
       RecoverPanic, ReportOrder, CompleteOrder, ReleaseArm, Goto
  <2>2. QED
    BY <1>1, <2>1
<1>3. CASE PurgeStep \/ CloseStop \/ CloseLease \/ UNCHANGED vars \/ CartStep
  <2>1. UNCHANGED <<created, forCart>>
    BY <1>3 DEF PurgeStep, TickLease, TickQueue, PurgeClaim, PurgeEnd, PurgeStop, PurgeGoto,
       CloseStop, CloseLease, vars, procVars, CartStep, CartHeartbeat, CartPending, CartDock,
       CartHandover
  <2>2. QED
    BY <1>1, <2>1
<1>4. ASSUME NEW c \in Clients, ClientStep(c) \/ ClientCommand(c)
      PROVE  created' \in Nat /\ created <= created' /\ forCart \subseteq forCart'
  <2>1. CASE TrackOrder(c)
    BY <1>1, <2>1 DEF TrackOrder
  <2>2. CASE ~TrackOrder(c)
    <3>1. UNCHANGED <<created, forCart>>
      BY <1>4, <2>2 DEF ClientStep, ClientCommand, EnqueueOrder, PokeConsumer,
         WithdrawDelivery, ProceedRebuilt, LiftPause, ResetWait, ResetClaim, ResetClear,
         ResetFailActive, ResetRebuilt, HandsOff, PrepareOrder, ClearQueue, CancelOrder,
         Cancel, Proceed, ResetWorld, DriveByHand, Move, Receive
    <3>2. QED
      BY <1>1, <3>1
  <2>3. QED
    BY <2>1, <2>2
<1>5. QED
  BY <1>2, <1>3, <1>4 DEF Next

LEMMA NextDelivery == Typed /\ Books /\ DeliveryInv /\ [Next]_vars => DeliveryInv'
<1> SUFFICES ASSUME Typed, Books, DeliveryInv, [Next]_vars PROVE DeliveryInv'
  OBVIOUS
<1>0. created \in Nat /\ created' \in Nat /\ created <= created' /\ forCart \subseteq forCart'
      /\ \A o \in Orders : o \in Nat
  BY BooksGrow, ServiceAssumption DEF Typed, TypeOK
<1>1. ASSUME NEW o \in Orders, delivery'[o] # NoRecord
      PROVE  /\ RecordOK(delivery'[o])
             /\ o \in forCart' /\ o <= created'
             /\ delivery'[o].served => SetDown(o)'
  <2>1. RecordChange(o)
    BY RecordChanges
  <2>2. CASE RecordStarted(o)
    BY <1>1, <2>1, <2>2, ChangedRecord, NewRecordFields DEF RecordStarted
  <2>3. CASE o \in Tracked
    <3>1. o \in forCart /\ o <= created /\ (delivery[o].served => SetDown(o))
      BY <2>3 DEF DeliveryInv, RecordsOK
    <3>2. /\ RecordOK(delivery'[o])
          /\ delivery'[o].served => delivery[o].served \/ (o = brewing /\ at' = "served")
      BY <1>1, <2>1, <2>3, ChangedRecord
    <3>3. o = brewing /\ at' = "served" => SetDown(o)'
      BY BrewingKept DEF SetDown
    <3>4. SetDown(o) => SetDown(o)'
      BY SetDownStays
    <3>5. QED
      BY <1>0, <3>1, <3>2, <3>3, <3>4
  <2>4. QED
    BY <1>1, <2>1, <2>2, <2>3, ChangedRecord
<1>2. RecordsOK'
  BY <1>1 DEF RecordsOK, Tracked
<1>3. CarriedToDock'
  <2> SUFFICES ASSUME at' \in {"docked", "incart"}, (brewing \in Waiting)'
               PROVE  (delivery[brewing].docked)'
    BY DEF CarriedToDock
  <2>1. brewing' = brewing /\ brewing \in Orders
    BY BrewingKept DEF Waiting, Tracked
  <2>2. RecordChange(brewing) /\ delivery'[brewing] # NoRecord
        /\ delivery'[brewing].status \in Active
    BY <2>1, RecordChanges DEF Waiting, Tracked
  <2>3. brewing \in Waiting => delivery[brewing].docked
    BY OnlyConsumerMoves, ConsumerPlaceSteps
       DEF LocateCart, DockedFor, DeliveryInv, CarriedToDock, Waiting,
           StartOrder, CompleteOrder, ReportOrder, Goto
  <2>4. ~RecordStarted(brewing)
    BY <1>0, <2>1, ServiceAssumption DEF RecordStarted, Books
  <2>5. brewing \in Waiting /\ (delivery[brewing].docked => delivery'[brewing].docked)
    BY <2>1, <2>2, <2>4, ChangedRecord
  <2>6. QED
    BY <2>1, <2>3, <2>5
<1>4. QED
  BY <1>2, <1>3 DEF DeliveryInv

LEMMA InitDelivery == Init => DeliveryInv
BY DEF Init, DeliveryInit, DeliveryInv, RecordsOK, CarriedToDock, Tracked

Orderly == Typed /\ OwnsArm /\ Accounted /\ DeliveryInv

LEMMA NextOrderly == Orderly /\ [Next]_vars => Orderly'
BY NextTyped, NextOwnership, NextAccounted, NextDelivery DEF Orderly, Accounted

LEMMA OrderInvariant == Spec => []Orderly
<1>1. Init => Orderly
  BY InitTyped, InitOwnership, InitAccounted, InitDelivery DEF Orderly
<1>2. QED
  BY <1>1, NextOrderly, PTL DEF Spec

(* The cart is told that it may take a drink, or that it has it, only once *)
(* the drink is set down, and that it has it only when it had docked: the  *)
(* early ready that brings the tray out completes no handoff (delivery.go  *)
(* markReadyForCart, settleLocked).                                        *)
THEOREM HandoversAreReal == Spec => []HandoverIsReal
<1>1. Orderly => HandoverIsReal
  BY DEF Orderly, DeliveryInv, RecordsOK, RecordOK, HandoverIsReal
<1>2. QED
  BY <1>1, OrderInvariant, PTL

(* handed_over and failed are final until the record is pruned, whatever   *)
(* polls, faults, withdrawals and resets come after (delivery.go).         *)
THEOREM OutcomesAreFinal == Spec => TerminalIsFinal
<1>1. ASSUME Orderly, [Next]_vars, NEW o \in Settled
      PROVE  delivery'[o] = NoRecord \/ delivery'[o].status = delivery[o].status
  <2>1. o \in Tracked /\ o \notin Waiting /\ o \in Orders /\ delivery[o] \in Record
        /\ RecordOK(delivery[o])
    BY <1>1, RecordIsRecord DEF Settled, Orderly, DeliveryInv, RecordsOK
  <2>2. delivery[o].status \in {"handed_over", "failed"}
    BY <2>1 DEF Waiting, Record, Terminal
  <2>3. RecordChange(o)
    BY <1>1, <2>1, RecordChanges DEF Orderly, Accounted
  <2>4. CASE Polled(o)
    BY <2>1, <2>2, <2>4, SettleFields DEF Polled
  <2>5. CASE FailedIfMaking(o)
    BY <2>1, <2>2, <2>5, FailFields DEF FailedIfMaking, RecordOK
  <2>6. QED
    BY <2>1, <2>2, <2>3, <2>4, <2>5 DEF RecordChange, RecordStarted, RecordLocated, RecordServed,
       RecordCarried, RecordReset, Tracked
<1>2. Orderly /\ [Next]_vars =>
        [\A o \in Settled : \/ delivery'[o] = NoRecord
                            \/ delivery'[o].status = delivery[o].status]_vars
  BY <1>1
<1>3. QED
  BY <1>2, OrderInvariant, PTL DEF Spec, TerminalIsFinal

(* A drink that is set down is failed by reset_world only: neither a later *)
(* fault of its order nor a withdrawal takes it from the cart (delivery.go *)
(* markReady, failIfMaking).                                               *)
THEOREM SetDownIsSafe == Spec => ServedSurvivesFaults
<1>1. ASSUME Orderly, [Next]_vars, NEW o \in Waiting, delivery[o].served, o \notin Waiting',
             delivery'[o].status = "failed"
      PROVE  \E c \in Clients : job[c].place = "failing"
  <2>1. o \in Tracked /\ o \in Orders /\ delivery[o] \in Record /\ RecordOK(delivery[o])
        /\ delivery[o].status # "failed"
    BY <1>1, RecordIsRecord DEF Waiting, Active, Orderly, DeliveryInv, RecordsOK
  <2>2. RecordChange(o)
    BY <1>1, <2>1, RecordChanges DEF Orderly, Accounted
  <2>3. ~Polled(o)
    <3>1. Settle(delivery[o]).status # "failed"
      BY <2>1, SettleFields
    <3>2. Settle(Docked(delivery[o])).status # "failed"
      BY <2>1, DockedFields, SettleFields
    <3>3. QED
      BY <1>1, <2>1, <3>1, <3>2 DEF Polled, Settled
  <2>4. ~FailedIfMaking(o)
    BY <1>1, <2>1 DEF FailedIfMaking, RecordOK
  <2>5. ~RecordServed(o)
    <3> DEFINE rec == [delivery[o] EXCEPT !.status = "ready", !.served = TRUE, !.toCart = FALSE]
    <3>1. rec \in Record /\ rec.status = "ready"
      BY <2>1 DEF Record, Active
    <3>2. Settle(rec).status # "failed"
      BY <3>1, SettleFields
    <3>3. QED
      BY <1>1, <3>2 DEF RecordServed
  <2>6. ~RecordStarted(o)
    BY <2>1 DEF RecordStarted, Tracked
  <2>7. ~RecordLocated(o)
    BY <1>1, <2>1 DEF RecordLocated, RecordOK
  <2>8. ~RecordCarried(o)
    BY <1>1, <2>1 DEF RecordCarried, Record
  <2>9. QED
    BY <2>2, <2>3, <2>4, <2>5, <2>6, <2>7, <2>8 DEF RecordChange, RecordReset
<1>2. Orderly /\ [Next]_vars =>
        [\A o \in Waiting :
           delivery[o].served /\ o \notin Waiting' /\ delivery'[o].status = "failed"
             => \E c \in Clients : job[c].place = "failing"]_vars
  BY <1>1
<1>3. QED
  BY <1>2, OrderInvariant, PTL DEF Spec, ServedSurvivesFaults

-----------------------------------------------------------------------------
(***************************************************************************)
(* No delivery waits for a drink that nobody is going to make.  An order   *)
(* that is past its placement has its drink set down or its record failed. *)
(***************************************************************************)
PlacedOrFailed ==
  at \in {"served", "ok", "report", "complete"} /\ brewing \in Waiting => delivery[brewing].served

\* failIfMaking leaves no active record of a drink that is not there.
LEMMA FailedIfMakingServed ==
  ASSUME Typed, DeliveryInv, NEW o \in Orders, FailedIfMaking(o), (o \in Waiting)'
  PROVE  delivery'[o].served
<1>1. CASE o \in Tracked /\ (delivery[o].status = "making" \/ delivery[o].toCart)
  BY <1>1, RecordIsRecord, FailFields DEF FailedIfMaking, Waiting, Active
<1>2. CASE ~(o \in Tracked /\ (delivery[o].status = "making" \/ delivery[o].toCart))
  BY <1>2 DEF FailedIfMaking, DeliveryInv, RecordsOK, RecordOK, Waiting, Tracked, Active
<1>3. QED
  BY <1>1, <1>2

LEMMA StillWaiting ==
  ASSUME Typed, Books, DeliveryInv, [Next]_vars, NEW o \in Orders, (o \in Waiting)'
  PROVE  RecordStarted(o) \/ (o \in Waiting /\ (delivery[o].served => delivery'[o].served))
BY RecordChanges, ChangedRecord DEF Waiting, Tracked

LEMMA NextPlacedOrFailed ==
  ASSUME ~Panics, Typed, Books, DeliveryInv, PlacedOrFailed, at # "panicked", [Next]_vars
  PROVE  PlacedOrFailed' /\ at' # "panicked"
<1>0. at' # "panicked"
  <2>1. ConsumerStep => at' # "panicked"
    BY DEF ConsumerStep, SelectWake, SelectStop, DrainLoop, AwaitClaim, AwaitStop, StartNone,
     GiveBack, StartOrder, LocateCart, PlaceOnShelf, RecordReady, PlaceInCart, RecordHandedOver,
     FinishDrink, OrderErrs, OrderPanics, PauseOnFault, FailDelivery, RecoverPanic,
     ReportOrder, CompleteOrder, ReleaseArm, Goto
  <2>2. QED
    BY <2>1, OnlyConsumerMoves
<1> SUFFICES ASSUME at' \in {"served", "ok", "report", "complete"}, (brewing \in Waiting)'
             PROVE  (delivery[brewing].served)'
  BY <1>0 DEF PlacedOrFailed
<1>1. CASE UNCHANGED <<at, brewing, reading>>
  <2>1. brewing \in Orders /\ brewing = current
    BY <1>1, BrewingOnArm DEF OnArm, Running, Ending
  <2>2. ~RecordStarted(brewing)
    BY <2>1, ServiceAssumption DEF RecordStarted, Books, Typed, TypeOK
  <2>3. brewing \in Waiting /\ (delivery[brewing].served => delivery'[brewing].served)
    BY <1>1, <2>1, <2>2, StillWaiting DEF Waiting, Tracked
  <2>4. QED
    BY <1>1, <2>3 DEF PlacedOrFailed
<1>2. CASE FinishDrink \/ ReportOrder
  <2>1. at \in {"served", "ok", "report"} /\ UNCHANGED <<delivery, brewing>>
    BY <1>2 DEF FinishDrink, ReportOrder, Goto, deliveryVars
  <2>2. QED
    BY <2>1 DEF PlacedOrFailed, Waiting, Tracked
<1>3. CASE RecordReady
  <2>1. brewing \in Orders /\ brewing' = brewing
    BY <1>3, BrewingOnArm DEF RecordReady, Goto, OnArm, Running
  <2>2. CASE brewing \in Waiting
    <3>1. brewing \in forCart
      BY <2>2 DEF Waiting, DeliveryInv, RecordsOK
    <3> DEFINE rec == [delivery[brewing] EXCEPT !.status = "ready", !.served = TRUE, !.toCart = FALSE]
    <3>2. rec \in Record /\ rec.served
      BY <2>2, RecordIsRecord DEF Waiting, Record, Active
    <3>3. delivery'[brewing] = Settle(rec)
      BY <1>3, <2>1, <2>2, <3>1, OneRecord DEF RecordReady, MarkReady
    <3> HIDE DEF rec
    <3>4. QED
      BY <2>1, <3>2, <3>3, SettleFields
  <2>3. CASE brewing \notin Waiting
    <3>1. delivery'[brewing] = delivery[brewing]
      BY <1>3, <2>1, <2>3, OneRecord DEF RecordReady, MarkReady, deliveryVars
    <3>2. QED
      BY <2>1, <2>3, <3>1 DEF Waiting, Tracked
  <2>4. QED
    BY <2>2, <2>3
<1>4. CASE RecordHandedOver
  <2>1. brewing \in Orders /\ brewing' = brewing
    BY <1>4, BrewingOnArm DEF RecordHandedOver, Goto, OnArm, Running
  <2>2. brewing \in Waiting => delivery'[brewing].status = "handed_over"
    <3>1. brewing \in Waiting => delivery[brewing] \in Record
      BY RecordIsRecord DEF Waiting
    <3>2. brewing \in Waiting =>
            delivery'[brewing] = [delivery[brewing] EXCEPT !.status = "handed_over",
                                    !.served = TRUE, !.toCart = FALSE]
      BY <1>4, <2>1, OneRecord DEF RecordHandedOver, MarkHandedOver
    <3>3. QED
      BY <3>1, <3>2 DEF Record
  <2>3. brewing \notin Waiting => delivery'[brewing] = delivery[brewing]
    BY <1>4, <2>1, OneRecord DEF RecordHandedOver, MarkHandedOver
  <2>4. QED
    BY <2>1, <2>2, <2>3 DEF Waiting, Tracked, Active
<1>5. CASE FailDelivery
  <2>1. brewing \in Orders /\ brewing' = brewing
    BY <1>5, BrewingOnArm DEF FailDelivery, Goto, OnArm, Ending
  <2>2. FailedIfMaking(brewing)
    BY <1>5, <2>1, FailIfMakingFails DEF FailDelivery
  <2>3. QED
    BY <2>1, <2>2, FailedIfMakingServed DEF Waiting, Tracked
<1>6. CASE ConsumerStep
  BY <1>2, <1>3, <1>4, <1>5, <1>6
     DEF ConsumerStep, SelectWake, SelectStop, DrainLoop, AwaitClaim, AwaitStop, StartNone,
     GiveBack, StartOrder, LocateCart, PlaceOnShelf, PlaceInCart,
     OrderErrs, OrderPanics, PauseOnFault, RecoverPanic, CompleteOrder, ReleaseArm, Goto
<1>7. QED
  BY <1>1, <1>6, OnlyConsumerMoves

-----------------------------------------------------------------------------
(* Somebody answers for the order while its record waits.                  *)
InLine(o) == \E i \in DOMAIN pending : pending[i] = o

AtHandOf(c, o) ==
  /\ job[c].place \in {"enqueue", "withdraw"}
  /\ \E i \in DOMAIN job[c].orders : job[c].orders[i] = o

Coming(o) ==
  \/ InLine(o)
  \/ o = brewing
  \/ \E c \in Clients : AtHandOf(c, o) \/ job[c].place = "failing"

LEMMA ComingIsStillComing == \A o : Coming(o) <=> StillComing(o)
BY DEF Coming, StillComing, InLine, AtHandOf, ToSet

\* A command keeps what it has at hand until it deals with it.
LEMMA JobKept ==
  ASSUME Typed, [Next]_vars, NEW c \in Clients,
         job[c].place \in {"enqueue", "withdraw", "failing"}
  PROVE  job'[c] = job[c] \/ EnqueueOrder(c) \/ WithdrawDelivery(c) \/ ResetFailActive(c)
<1>1. CASE ConsumerStep
  BY <1>1 DEF ConsumerStep, SelectWake, SelectStop, DrainLoop, AwaitClaim, AwaitStop, StartNone,
     GiveBack, StartOrder, LocateCart, PlaceOnShelf, RecordReady, PlaceInCart, RecordHandedOver,
     FinishDrink, OrderErrs, OrderPanics, PauseOnFault, FailDelivery, RecoverPanic,
     ReportOrder, CompleteOrder, ReleaseArm, Goto
<1>2. CASE PurgeStep \/ CloseStop \/ CloseLease \/ UNCHANGED vars \/ CartStep
  BY <1>2 DEF PurgeStep, TickLease, TickQueue, PurgeClaim, PurgeEnd, PurgeStop, PurgeGoto,
       CloseStop, CloseLease, vars, procVars, CartStep, CartHeartbeat, CartPending, CartDock,
       CartHandover
<1>3. ASSUME NEW d \in Clients, ClientStep(d) \/ ClientCommand(d), d # c PROVE job'[c] = job[c]
  <2>1. job \in [Clients -> Job]
    BY DEF Typed, TypeOK
  <2>2. QED
    BY <1>3, <2>1 DEF ClientStep, ClientCommand, TrackOrder, EnqueueOrder, PokeConsumer,
       WithdrawDelivery, ProceedRebuilt, LiftPause, ResetWait, ResetClaim, ResetClear,
       ResetFailActive, ResetRebuilt, HandsOff, PrepareOrder, ClearQueue, CancelOrder,
       Cancel, Proceed, ResetWorld, DriveByHand, Move, Receive
<1>4. CASE ClientStep(c) \/ ClientCommand(c)
  BY <1>4 DEF ClientStep, ClientCommand, TrackOrder, PokeConsumer,
     ProceedRebuilt, LiftPause, ResetWait, ResetClaim, ResetClear,
     ResetRebuilt, HandsOff, PrepareOrder, ClearQueue, CancelOrder,
     Cancel, Proceed, ResetWorld, DriveByHand, Move, Receive
<1>5. QED
  BY <1>1, <1>2, <1>3, <1>4 DEF Next

\* Who takes an order out of line answers for it.
LEMMA LineKept ==
  ASSUME Typed, OwnsArm, Books, [Next]_vars, NEW o \in Orders, InLine(o)
  PROVE  Coming(o)'
<1>0. pending \in Seq(Orders) /\ job \in [Clients -> Job] /\ DOMAIN pending = 1 .. Len(pending)
  BY DEF Typed, TypeOK
<1>1. CASE UNCHANGED pending
  BY <1>1 DEF InLine, Coming
<1>2. CASE StartOrder
  <2>1. pending' = Tail(pending) /\ brewing' = pending[1] /\ pending # <<>>
    BY <1>0, <1>2 DEF StartOrder, Start
  <2>2. PICK i \in DOMAIN pending : pending[i] = o
    BY DEF InLine
  <2>3. CASE i = 1
    BY <2>1, <2>2, <2>3 DEF Coming
  <2>4. CASE i # 1
    <3>1. i - 1 \in DOMAIN Tail(pending) /\ Tail(pending)[i - 1] = o
      BY <1>0, <2>1, <2>2, <2>4
    <3>2. QED
      BY <2>1, <3>1 DEF Coming, InLine
  <2>5. QED
    BY <2>3, <2>4
<1>3. ASSUME NEW c \in Clients, EnqueueOrder(c) PROVE Coming(o)'
  <2>1. PICK i \in DOMAIN pending : pending[i] = o
    BY DEF InLine
  <2>2. Head(job[c].orders) \in Orders
    <3>1. job[c].orders \in Seq(Orders) /\ job[c].orders # <<>>
      BY <1>3 DEF EnqueueOrder, Move, Typed, TypeOK, Job, JobOK
    <3>2. QED
      BY <3>1
  <2>3. i \in DOMAIN pending' /\ pending'[i] = o
    BY <1>0, <1>3, <2>1, <2>2 DEF EnqueueOrder, Append1
  <2>4. QED
    BY <2>3 DEF Coming, InLine
<1>4. ASSUME NEW c \in Clients, ClearQueue(c) PROVE Coming(o)'
  <2>1. job'[c] = [Idle EXCEPT !.place = "withdraw", !.orders = pending]
    BY <1>0, <1>4 DEF ClearQueue, Receive, InLine
  <2>2. job'[c].place = "withdraw" /\ job'[c].orders = pending
    BY <2>1 DEF Idle
  <2>3. AtHandOf(c, o)'
    BY <2>2 DEF AtHandOf, InLine
  <2>4. QED
    BY <2>3 DEF Coming
<1>5. ASSUME NEW c \in Clients, NEW p \in Orders, CancelOrder(c, p) PROVE Coming(o)'
  <2>1. PICK i \in DOMAIN pending : pending[i] = o
    BY DEF InLine
  <2>2. PICK k \in DOMAIN pending : pending[k] = p /\ pending' = RemoveAt(pending, k)
    BY <1>5 DEF CancelOrder, RemoveOrder
  <2>3. CASE o = p
    <3>1. job'[c] = [Idle EXCEPT !.place = "withdraw", !.orders = <<p>>]
      BY <1>0, <1>5 DEF CancelOrder, Receive
    <3>2. job'[c].place = "withdraw" /\ job'[c].orders = <<o>>
      BY <2>3, <3>1 DEF Idle
    <3>3. 1 \in DOMAIN <<o>> /\ <<o>>[1] = o
      OBVIOUS
    <3>4. AtHandOf(c, o)'
      BY <3>2, <3>3 DEF AtHandOf
    <3>5. QED
      BY <3>4 DEF Coming
  <2>4. CASE o # p
    <3>1. i # k /\ i \in 1 .. Len(pending) /\ k \in 1 .. Len(pending) /\ Len(pending) \in Nat
      BY <1>0, <2>1, <2>2, <2>4
    <3>2. /\ Len(pending') = Len(pending) - 1 /\ pending' \in Seq(Orders)
          /\ \A j \in 1 .. Len(pending) - 1 : pending'[j] = pending[IF j < k THEN j ELSE j + 1]
      BY <1>0, <2>2, RemoveAtElements
    <3>3. DOMAIN pending' = 1 .. Len(pending) - 1
      BY <3>2
    <3>4. CASE i < k
      BY <2>1, <3>1, <3>2, <3>3, <3>4 DEF Coming, InLine
    <3>5. CASE i > k
      <4>1. i - 1 \in 1 .. Len(pending) - 1 /\ ~(i - 1 < k) /\ (i - 1) + 1 = i
        BY <3>1, <3>5
      <4>2. pending'[i - 1] = o
        BY <2>1, <3>2, <4>1
      <4>3. QED
        BY <3>3, <4>1, <4>2 DEF Coming, InLine
    <3>6. QED
      BY <3>1, <3>4, <3>5
  <2>5. QED
    BY <2>3, <2>4
<1>6. ASSUME NEW c \in Clients, ResetClear(c) PROVE Coming(o)'
  <2>1. job'[c].place = "failing"
    BY <1>6, MovePlaces DEF ResetClear
  <2>2. QED
    BY <2>1 DEF Coming
<1>7. QED
  <2>1. CASE ConsumerStep
    BY <1>1, <1>2, <2>1 DEF ConsumerStep, SelectWake, SelectStop, DrainLoop, AwaitClaim, AwaitStop,
       StartNone, GiveBack, LocateCart, PlaceOnShelf, RecordReady, PlaceInCart,
       RecordHandedOver, FinishDrink, OrderErrs, OrderPanics, PauseOnFault, FailDelivery,
       RecoverPanic, ReportOrder, CompleteOrder, Complete, ReleaseArm, queueVars
  <2>2. CASE PurgeStep \/ CloseStop \/ CloseLease \/ UNCHANGED vars \/ CartStep
    BY <1>1, <2>2 DEF PurgeStep, TickLease, TickQueue, PurgeClaim, PurgeEnd, PurgeStop, PurgeGoto,
       CloseStop, CloseLease, vars, queueVars, CartStep, CartHeartbeat, CartPending, CartDock,
       CartHandover
  <2>3. ASSUME NEW c \in Clients, ClientStep(c) \/ ClientCommand(c) PROVE Coming(o)'
    BY <1>1, <1>3, <1>4, <1>5, <1>6, <2>3
       DEF ClientStep, ClientCommand, TrackOrder, PokeConsumer, Poke,
       WithdrawDelivery, ProceedRebuilt, LiftPause, ResetWait, ResetClaim,
       ResetFailActive, ResetRebuilt, HandsOff, PrepareOrder,
       Cancel, Proceed, ResetWorld, DriveByHand, queueVars
  <2>4. QED
    BY <2>1, <2>2, <2>3 DEF Next

NoneStranded == \A o \in Waiting : ~delivery[o].served => Coming(o)

LEMMA NextNoneStranded ==
  ASSUME Orderly, PlacedOrFailed, NoneStranded, [Next]_vars
  PROVE  NoneStranded'
<1> USE DEF Orderly, Accounted
<1> SUFFICES ASSUME NEW o \in Orders, (o \in Waiting)', ~delivery'[o].served
             PROVE  Coming(o)'
  BY DEF NoneStranded, Waiting, Tracked
<1>1. CASE RecordStarted(o)
  <2>1. PICK c \in Clients : job'[c].place = "enqueue" /\ job'[c].orders = <<o>>
    BY <1>1 DEF RecordStarted
  <2>2. 1 \in DOMAIN <<o>> /\ <<o>>[1] = o
    OBVIOUS
  <2>3. AtHandOf(c, o)'
    BY <2>1, <2>2 DEF AtHandOf
  <2>4. QED
    BY <2>3 DEF Coming
<1>2. CASE ~RecordStarted(o)
  <2>1. o \in Waiting /\ ~delivery[o].served /\ Coming(o)
    BY <1>2, StillWaiting DEF NoneStranded
  <2>2. CASE InLine(o)
    BY <2>2, LineKept
  <2>3. CASE o = brewing
    <3>1. ~StartOrder
      BY <2>3, ServiceAssumption DEF StartOrder, Goto, Books, OnArm, Running, Ending
    <3>2. ~CompleteOrder
      BY <2>1, <2>3 DEF CompleteOrder, Goto, PlacedOrFailed
    <3>3. brewing' = brewing
      BY <3>1, <3>2, OnlyConsumerMoves, ConsumerPlaceSteps DEF ReportOrder
    <3>4. QED
      BY <2>3, <3>3 DEF Coming
  <2>4. ASSUME NEW c \in Clients, AtHandOf(c, o) PROVE Coming(o)'
    <3>0. job[c].orders \in Seq(Orders) /\ DOMAIN job[c].orders = 1 .. Len(job[c].orders)
          /\ job[c].orders # <<>>
      BY <2>4 DEF Typed, TypeOK, Job, JobOK, AtHandOf
    <3>1. CASE job'[c] = job[c]
      BY <2>4, <3>1 DEF AtHandOf, Coming
    <3>2. CASE EnqueueOrder(c)
      <4>1. PICK e \in Orders : job[c].orders = <<e>>
        BY <3>2 DEF EnqueueOrder, Move, Entering
      <4>2. e = o /\ Head(job[c].orders) = o
        BY <2>4, <4>1 DEF AtHandOf
      <4>3. pending \in Seq(Orders) /\ pending' = Append(pending, o)
        BY <3>2, <4>2 DEF EnqueueOrder, Append1, Typed, TypeOK
      <4>4. Len(pending) + 1 \in DOMAIN pending' /\ pending'[Len(pending) + 1] = o
        BY <4>3
      <4>5. QED
        BY <4>4 DEF Coming, InLine
    <3>3. CASE WithdrawDelivery(c)
      <4>1. Head(job[c].orders) = job[c].orders[1] /\ Head(job[c].orders) \in Orders
        BY <3>0
      <4>2. job[c].orders[1] # o
        <5>1. job[c].orders[1] = o => FailedIfMaking(o)
          BY <3>3, <4>1, FailIfMakingFails DEF WithdrawDelivery
        <5>2. QED
          BY <5>1, FailedIfMakingServed
      <4>3. PICK i \in DOMAIN job[c].orders : job[c].orders[i] = o
        BY <2>4 DEF AtHandOf
      <4>4. Len(job[c].orders) # 1 /\ i - 1 \in DOMAIN Tail(job[c].orders)
            /\ Tail(job[c].orders)[i - 1] = o
        <5> DEFINE line == job[c].orders
        <5>1. line \in Seq(Orders) /\ line # <<>> /\ i \in 1 .. Len(line) /\ i # 1 /\ line[i] = o
          BY <3>0, <4>2, <4>3
        <5> HIDE DEF line
        <5>2. Len(line) # 1 /\ i - 1 \in 1 .. Len(line) - 1
          BY <5>1
        <5>3. /\ DOMAIN Tail(line) = 1 .. Len(line) - 1
              /\ Tail(line)[i - 1] = line[(i - 1) + 1]
          BY <5>1, <5>2
        <5>4. (i - 1) + 1 = i
          BY <5>1
        <5>5. QED
          BY <5>1, <5>2, <5>3, <5>4 DEF line
      <4>5. job'[c] = [job[c] EXCEPT !.orders = Tail(@)] /\ job[c].place = "withdraw"
        BY <3>3, <4>4 DEF WithdrawDelivery, Typed, TypeOK
      <4>6. job'[c].place = "withdraw" /\ job'[c].orders = Tail(job[c].orders)
        BY <4>5 DEF Typed, TypeOK, Job
      <4>7. AtHandOf(c, o)'
        BY <4>4, <4>6 DEF AtHandOf
      <4>8. QED
        BY <4>7 DEF Coming
    <3>4. CASE ResetFailActive(c)
      BY <2>4, <3>4 DEF ResetFailActive, Move, AtHandOf
    <3>5. QED
      BY <2>4, <3>1, <3>2, <3>3, <3>4, JobKept DEF AtHandOf
  <2>5. ASSUME NEW c \in Clients, job[c].place = "failing" PROVE Coming(o)'
    <3>1. CASE job'[c] = job[c]
      BY <2>5, <3>1 DEF Coming
    <3>2. CASE EnqueueOrder(c) \/ WithdrawDelivery(c)
      BY <2>5, <3>2 DEF EnqueueOrder, WithdrawDelivery, Move
    <3>3. CASE ResetFailActive(c)
      <4>1. delivery'[o] = Fail(delivery[o]) /\ delivery[o] \in Record
        BY <2>1, <3>3, RecordIsRecord DEF ResetFailActive, FailActive, Waiting
      <4>2. QED
        BY <4>1, FailFields DEF Waiting, Active
    <3>4. QED
      BY <2>5, <3>1, <3>2, <3>3, JobKept
  <2>6. QED
    BY <2>1, <2>2, <2>3, <2>4, <2>5 DEF Coming
<1>3. QED
  BY <1>1, <1>2

(* The cart never waits for a drink nobody is going to make: when a brew   *)
(* does not panic, an active record whose drink is not set down belongs to *)
(* an order in line, on the arm or being withdrawn (queue.go, operator.go, *)
(* delivery.go failIfMaking).  A panic is the exception a run shows.       *)
THEOREM DeliveriesAreComing == ~Panics => (Spec => []NoStrandedDelivery)
<1> SUFFICES ASSUME ~Panics PROVE Spec => []NoStrandedDelivery
  OBVIOUS
<1> DEFINE I == Orderly /\ PlacedOrFailed /\ at # "panicked" /\ NoneStranded
<1>1. Init => PlacedOrFailed /\ at # "panicked" /\ NoneStranded
  BY DEF Init, DeliveryInit, PlacedOrFailed, NoneStranded, Waiting, Tracked
<1>2. I /\ [Next]_vars => I'
  BY NextOrderly, NextPlacedOrFailed, NextNoneStranded DEF Orderly, Accounted
<1>3. I => NoStrandedDelivery
  BY ComingIsStillComing DEF NoneStranded, NoStrandedDelivery
<1>4. Init => Orderly
  BY InitTyped, InitOwnership, InitAccounted, InitDelivery DEF Orderly
<1> HIDE DEF I
<1>5. Init => I
  BY <1>1, <1>4 DEF I
<1>6. QED
  BY <1>2, <1>3, <1>5, PTL DEF Spec
=============================================================================
