# Verification of beanjamin

Beanjamin is a Viam module (Go) that makes coffee with one robot arm: customers
order through a kiosk or the command line, a queue goroutine makes the drinks
one at a time, operators can stop, reset and hand-drive the arm, a keep-alive
goroutine purges the machine when it has stood idle, and a delivery cart may
take drinks away. This directory holds TLA+ models of its core, the TLC
configurations that check them, and proofs for TLAPS. Around the core it also
models what a drink does to the machine and to the service's model of it, and the
smaller services beside the arm: the fridge door, the ice machine, the clips of
orders, the loyalty ledger, the refill display, the pose switches and the dial.

`src/coffee` is the heart of the repository; below, a file named without a
directory is in `src/coffee`.

## Inventory

| Component | State | Operations | What makes it correct |
|---|---|---|---|
| arm lease (`arm_lease.go`) | holder, cancel context, paused, closed | claimManual, claimAutomated, release, pause, unpause, shutdown, signalCancel | one sequence on the arm at a time; a cancel reaches exactly the sequence that runs; nothing automated between a failure and proceed |
| order queue (`order/queue.go`) | pending, current, wakeup channel | Enqueue, Start, Complete, Remove, Clear, ClearPending | no order lost, duplicated, made twice or both withdrawn and made; no lost wakeup |
| consumer (`queue.go`) | its program counter, the order it runs | wait for a wakeup, wait for the arm, start, run, report, complete, release | what the queue's books say is what the arm does; the arm comes back on every path |
| brew cycle (`prepare.go`, `steps.go`, ...) | step label, the drink's place | nine phases, faults, panics | a fault pauses before the arm is given back |
| operator commands (`operator.go`, `actions.go`, `api.go`) | one goroutine per call | cancel, proceed, reset_world, clear_queue, cancel_order, hand-driven sequences | a command never works under another's claim |
| intake (`order_intake.go`) | the batch being entered | prepare_order | a batch enters order by order, with its delivery records |
| keep-alive (`keepalive.go`) | last activity, its snapshot | tick, purge | never beside an order, never while paused |
| delivery cart (`delivery.go`, `delivery_slots.go`) | a record per order, the last heartbeat | track, markReady, markReadyForCart, markHandedOver, failIfMaking, failActive, the cart's polls | the cart is told the truth, final is final, no drink is forgotten |
| plan-ahead flow (`flow.go`, `gripper_state.go`) | channel of moves, next plan's start, first error | hand off, settle, synced region, execute | planning ahead cannot be told from doing one move after the other |
| brew world (`motion.go`, `held_geometry.go`, `brew_steps.go`, `milk.go`, `iced.go`) | frame system, held item, locked filter, staged glass, bottle, portafilter flags | attach, detach, stage, lock, swap, rebuild, refresh, around every step of a drink | what is modelled is there, and what is there is modelled, whenever a motion is planned; nothing is spilt; the drink is the one ordered |
| fridge door (`door.go`) | recorded angle, modelled angle | open, close, rebuild, declare shut | the modelled door stands where the panel does |
| ice dispensing (`iced.go`, `ice_dwell.go`, `icevision/`) | output pin, sightings, misses, errors | dispense until full, or for a fixed time | the pin ends low whatever ends the dispense; one bad frame stops nothing |
| pickup and serving (`cup_pickup.go`, `serving.go`, `serving_slots.go`) | attempts, next slot | pick a cup or a glass, place a drink | a miss spills nothing; the slot filled last is used last |
| clips (`clips/`) | pending records on disk | record, save, sweep | every clip is saved or can still be recovered, none is saved by two at a time |
| loyalty (`src/crm`) | ledger and its file | credit, contribute, load | an order is credited once; balances never go negative; memory agrees with the file |
| usage counters (`sensor_usage.go`), refill display (`src/refilldisplay`) | readings of a sensor, what the deck was told | increment; refill, sync, repaint | the deck ends up showing the counters |
| pose switch (`src/multiposesexecutionswitch`) | position, executing | set a position, resolve relative poses | the position reported is where the last move went |
| dial (`src/dialcontrolmotion`) | last readings, pending moves, speed | a reading, a tick of the drain loop, change of axis mode | no detent lost or doubled, no step back, rest when left alone |
| sensors, detector, chore wheel, speech, reports, web app, CLI | see `PROJECT.json` | | |

### How the parts interact

Every call to the module is a `DoCommand` on a goroutine of its own, so any two
commands interleave at every lock. `prepare_order` tracks each order of a batch
in the delivery cart (one lock), enqueues it (another lock) and pokes the
consumer through a channel that holds one wakeup. The consumer polls the lease
until it may claim the arm, starts the head of the line, runs `prepareDrink`
under the context its claim returned, reports the outcome, completes the order
and releases the arm. An operator's cancel takes the lease's lock, sets the pause,
cancels that context and installs a new one; it does not wait for the lease.
`proceed` and `reset_world` claim the arm, rebuild the frame system, release,
and then lift the pause. The keep-alive loop looks at the lease and the queue,
then claims. The cart's polls read and settle the delivery records while the
consumer updates them. Inside an order the brew code is a planning thread that
feeds an execution goroutine.

What the sequences do to the machine they also note down: the cached frame
system, which every later plan is checked against, and flags beside it.
`execute_action` runs one step of a drink by hand on the same records, a fault
leaves them as they are, an order starts with a rebuild unless something would
be lost by it, and `proceed` and `reset_world` rebuild on the operator's word
that the machine is put right. The services beside the arm have locks of their
own; they share with the coffee service one sensor's readings (the counters)
and the storage of the clips.

### What is hard

Interleavings between a check and a claim; a context swapped under a running
sequence; wakeups sent after the lock is dropped; commands that empty the queue
while an order is on the arm; panics that skip the error path; the pause lifted
after the arm is given back; deliveries reported ready early; errors of an
execution thread that surface later, on another thread; records of the world
that are changed by hand along every path; read-modify-writes of a shared map;
saves cut short by a crash. `PROJECT.json` lists
them as hazards at their lines, with the properties that watch each one.

## Modules

| Module | Models | Role |
|---|---|---|
| `ArmLease` | `arm_lease.go`, `signalCancel` | state and operators of the lease, one per locked section |
| `OrderQueue` | `order/queue.go` | state and operators of the queue |
| `DeliveryCart` | `delivery.go` | records and operators of the cart session |
| `CoffeeService` | `queue.go`, `prepare.go`, `operator.go`, `order_intake.go`, `keepalive.go`, `api.go`, `module.go` | composes the three: the goroutines, their program counters, Init, Next, fairness and all properties |
| `OrderLifecycle` | (abstract) | the line as a customer sees it: an order joins once, and is withdrawn, or made and then finished |
| `PlanAhead` | `flow.go`, `steps.go`, `gripper_state.go` | the planning and execution threads of one order |
| `ArmSequence` | (abstract) | work done one at a time, in the order given, and nothing after a failure |
| `WorldModel` | `motion.go`, `held_geometry.go` | what the service believes: one operator per change of the frame system and its flags |
| `Machine` | (external) | the machine, the things and the jaws: what a step of the code does to them, and what counts as a mishap |
| `FridgeDoor` | `door.go` | the recorded, the modelled and the real angle |
| `BrewScripts` | `brew_steps.go`, `serving.go`, `iced.go`, `milk.go`, `prepare.go`, `actions.go` | every function of the brew and every action as a sequence of steps |
| `BrewWorld` | `steps.go`, `cup_pickup.go`, `serving.go`, `operator.go`, `held_geometry.go` | runs the scripts on `Machine`, `WorldModel` and `FridgeDoor`, with faults and the operator |
| `IceDispenser` | `iced.go`, `ice_dwell.go` | one dispense and Close beside it |
| `PoseSwitch` | `src/multiposesexecutionswitch` | baselines and their resolution; calls that race for the switch |
| `DialMotion` | `src/dialcontrolmotion` | readings, pending moves, the drain loop |
| `Ledger` | `src/crm` | credits and contributions, saved or not |
| `Clips` | `clips/saver.go` | records, saves and sweeps on a clock |
| `RefillDisplay` | `sensor_usage.go`, `src/refilldisplay` | the counters, the monitor, the display and the deck |
| `Periphery` | | composes the six services beside the arm, one explored at a time |
| `MCCoffeeService` | | constants for TLC |
| `CoffeeServiceProofs` | | theorems about `CoffeeService`: types, the lease, recovery, wakeups; the line, its refinement of `OrderLifecycle`, the deliveries |
| `PlanAheadProofs` | | theorems about `PlanAhead`, with its refinement of `ArmSequence` |
| `ClipsProofs`, `DialMotionProofs`, `IceDispenserProofs` | | theorems about `Clips`, `DialMotion`, `IceDispenser` on their own |
| `BrewScriptProofs` | | what the scripts of `BrewScripts` do, step by step, on a sketch of the machine: lemmas for `BrewWorldProofs` |
| `BrewWorldProofs` | | theorems about `BrewWorld`: types, the fridge door, the shelf, the recorded world, no mishap, the drink as ordered, the rest after an order |
| `PeripheryProofs` | | theorems about `Periphery`, which lift those of the three and add the ledger, the switches and their poses |

### CoffeeService and the code

`holder`, `ctx`, `cancelled`, `grant`, `paused`, `closed` are the lease. Go's
contexts are numbered: `ctx` is the shared one, `cancelled` those already
cancelled, `grant` the one the holder's claim returned. `pending`, `current`
and `wake` are the queue. `delivery` and `cart` are the cart session; time
appears as a choice: a heartbeat may have timed out (`cart`), a retention may
have run out (the `old` sets the polls prune). `at` is where the consumer
goroutine is, `purge` where the keep-alive goroutine is, and `job[c]` what the
command of client `c` is doing. Each action is one locked section or one
unlocked step whose order matters; actions that hold the arm name it with
`Claim` and `Release`, exactly where the code calls them.

`recovery` is a history variable: "due" from a failure or an interrupting
cancel until a rebuild, "skipped" when a pause is lifted while it is due.

What a drink's sequence does to the machine is `BrewWorld`'s: here an order
goes through the places where it touches shared state (`making`, `docked`,
`placed`, `incart`, `served`, `ok`), may err anywhere on the way, and may panic.

### PlanAhead and the code

`from`, `err`, `failed`, `synced` are the fields of `flow`; `moves` and
`closed` the channel; `worker`, `doing`, `first` the goroutine of
`startExecution`. The planning thread (`code`) makes any sequence of calls of
the brew code: a planned move, a plan that fails, a gripper action, wait, label
or flag, a stopping point, a synced region, a move run at once, the end of the
order. `settle` is two steps, closing the channel and receiving on `done`.
`given`, `performed` and `broken` are history, what `ArmSequence` is about. A
cancel is seen by the merged context a moment after it is given
(`mergedCancelContext`).

### BrewWorld and the code

`BrewScripts` writes each function of the brew as the sequence of its calls, with
the calls that change the frame system (`know`) where the code makes them; a
function that calls others is their concatenation, and `actionFuncs` is the
table of `actions.go`. `BrewWorld` takes the head of the running sequence
(`todo`), one action per kind of step. `real` is the machine (`Machine`),
`belief` the records (`WorldModel`: `held` for `heldItemAttached` and its shape,
`locked` for `filterFrameLocked`, `staged` for `stagedGlassPlaced`, and so on).
Where the code says "continuing untracked", both outcomes are possible, and
`untracked` remembers which vessel it concerns. A pickup (`attempt`,
`candidates`) and a placement (`offset`, `next` for `servingSlot`) are loops of
their own: `Observe`, `Unplanned`, `GripMissed`, `Picks`; `Unreachable`, `Place`.

Any step may fail (`Fails`). The sequence ends, an order pauses the queue, and
`doubt` says that the machine is in a state only a person can judge: the operator
puts it back (`Tidy`), then declares it (`Proceed`, `ResetWorld`). Until then the
machine is not followed. What the service still believes then is what the next
`proceed` has to clear up.

The operator is assumed to follow the manual: actions are sent while the queue is
paused, and only where they make sense (`Ready`), since the code checks next to
nothing of it. In particular a glass that is staged is taken off before
`unlock_portafilter`, whose rebuild forgets it.

### FridgeDoor and the code

A sweep takes the door's shut pose to be the modelled one turned back by the
recorded angle (`door.go:258-273`), so a difference of the two (`Skew`) is carried
along by every later sweep. `PlanSweep` and `PlanFails` are the loop that plans
the arc and turns the modelled door on the way, `Swing` and `SwingFails` the one
call of the arm.

### The services beside the arm

`Ledger`: each command holds the store's lock from its first look to the end of its
save, so it is one step with three outcomes: saved, failed and rolled back, or
the process dies before or after the rename. A sum of points is written as a count
of them. `Clips`: an order, its own save and
the sweep on a clock that nobody outruns. No lock keeps the three apart, so a record
is created torn and then filled (`StartOrder`, `WritePendingSave`), and the sweep
reads one (`SweepNext`) before it removes, by its path, what it found corrupt
(`RemoveCorrupt`); `misread` remembers the records read half written. Every removal
may fail. `RefillDisplay`: the read and the set of
a counter are two steps, the monitor and the deck are external. `PoseSwitch`: a
pose is a point on a line with a direction; `Resolve` is the code's walk along the
baselines and `Circles` the search of `Validate`, both recursive functions. `DialMotion`: a reading is two locked sections (`Reading`, `Queue`), the
drain loop's flush three steps. `IceDispenser`: a frame shows the surface, nothing,
or an error, and at most `BadFrames` of a dispense lie, which must be fewer than the
confirmations a stop takes for `StopsOnlyWhenFull` to say anything.

## Runs

| Run | Question | Bounds |
|---|---|---|
| `queue_core` | does the queue keep its books, the lease its exclusion and the service its promise? | 2 clients, 2 orders, 3 commands, batch of up to 2, purge, panics, Close; no cart |
| `queue_live` | does an order in line leave it? | the same bounds under `FairSpec`, without Close |
| `delivery_core` | is the cart told the truth, and is no record stranded? | 2 clients, 2 orders, 3 commands, a cart, placement in the cart; no panics, purge or Close (`panic_strands_delivery` shows what a panic does) |
| `delivery_live` | does a finished drink reach a polling cart? | 1 client, 2 orders, 3 commands, `CartFairSpec`: a cart that goes on polling |
| `plan_ahead` | is planning ahead invisible, is no error lost, is the planner never stuck? | 4 calls, channel of 1, 2 places, failures and a cancel anywhere |
| `brew_world` | is the world model the machine whenever a motion is planned, is nothing spilt, is the drink made the drink ordered? | 2 milks, 3 slots, 2 attempts of 2 candidates, a door of 2 steps; all orders, all actions, faults anywhere |
| `periphery` | do the six services beside the arm keep their promises? | see below |
| `panic_strands_delivery` | (violation) a panic leaves a delivery active for good | as `delivery_core`, with panics |
| `late_proceed` | (violation) a proceed lifts the pause of a later cancel | as `queue_core`, without purge and Close |
| `toggle_brew` | (violation) a pour is recorded before it has run | as `plan_ahead` |
| `door_misplaced` | (violation) a sweep that cannot be planned leaves the modelled door off its record | as `brew_world` |
| `refill_undone` | (violation) adding to one counter undoes the refill of another | 2 counters, 2 additions, 1 refill |

Two clients are enough for every race the code has between two operators
(proceed against cancel, reset against an intake or a hand-driven sequence):
the third party is the consumer or the purge. Two orders make one current and
one in line, the most the properties relate. Three commands allow an order, a
cancel and a proceed or reset in one behaviour. A channel of one with four
calls has one move running, one queued and one blocked in the send.

`brew_world` has no bound on its length: orders, actions and faults follow each
other for ever over finitely many states. Two milks tell a bottle from another,
three slots tell "the next" from "any other", two candidates and two attempts have
a miss before a hit and a search that comes up empty, two steps of the door have an
angle that is neither open nor shut. What is in a glass is followed for orders
only (`Followed`): by hand the operator may fill one in any order.

`periphery` runs three poses and two callers of the switch; one dial of five
positions, both kinds (wrapping and stopping), three readings; two accounts, two
orders and three writes of the ledger, with rewards of 2 or 3 points; two orders
of clips on a clock of five ticks, with the longest order at 1 and `maxBrewDuration`
at 3, which leaves the sweep the one tick in which it could meet a save if the
constant were shorter; two counters, two additions, one refill and two faults of
the display; and an ice dispense with two confirmations, two errors to the
fallback (three in the code), a surface cap below the ceiling and one frame that
lies. The services share nothing, so one is explored at a time (`part`) with the
others at rest.

The intake's bound counts the orders other intakes still have to enter, so two
batches of one run side by side.

`QueueDrains` and `DeliveredEventually` are checked on finitely many commands:
the code polls for the arm, so without a bound on hand-driven sequences the
poll could lose every race. That is what the bound stands for.

### A clip the sweep can lose

`src/coffee/clips/saver.go:110-111` says that `WritePendingSave` records an order's
clip "so CleanupPendingClips can recover the clip if the order never reaches its save",
and line 141 that a sweep removes a record "only once its save succeeds". The exception,
a corrupt record, is removed because it "won't get better" (line 181), but a record that
is being written does: the sweep reads it half written (line 173), `os.WriteFile` (line
125) completes it, the sweep removes it by its path (line 183), and the process dies or
the order's own save fails. Nothing is then left to save the clip from. In the model
these are the steps `StartOrder`, `StartSweep`, `SweepNext`, `WritePendingSave` and
`RemoveCorrupt`, which TLC finds when `misread` is taken out of `ClipNotLost`, and then
`Crash`, or `OwnSaved` with a save that failed.
The property therefore leaves out the records read half written, and promises the
others theirs.

### Fairness

A goroutine that can take a step does (`ConsumerStep`, the purge's steps, each
client's running command): Go schedules them, and the waits and polls of a sequence
are bounded by the code. Its calls of the arm, the grippers and the cameras are taken
to return, well or not. The code puts no timeout of its own around most of them (the
camera of the ice dwell, `ice_dwell.go:252`, does not even see the order's cancel), so
this is what the liveness properties assume of those services. No command has to
arrive, Close need not happen, and a motion may always fail. Only
`delivery_live` assumes more: a cart that docks when it is told of an order
and asks after it until the answer is final, the loop `delivery.go` describes.
In `PlanAhead` both threads are fair; a move that runs ends, well or not.
In `Periphery` the dial's ticker ticks and its handlers finish, the monitor and the
display poll, the deck answers in the end and `repaintEvery` passes; presses,
faults and restarts need not happen. `BrewWorld` states safety only.

## Proofs

Every theorem holds for all values of the constants that satisfy the module's
assumption (`ServiceAssumption`, `FlowAssumption`, `BrewAssumption`, `PeripheryAssumption`
and those it is made of); TLC evaluates the assumptions in the runs. Besides ranges,
the assumptions say where two things have different names: a milk bottle is no other
thing of the machine and no place, and "none" is neither a pose nor an orientation.
The inductive invariants of the service and the flow, and `BrewInv` of the brew world,
were checked by TLC on the instances of their runs before they were proved; the
sketches of the brew world quantify over too much for that.

### The service: `CoffeeServiceProofs`

- `TypeCorrect`: `Spec => []TypeOK`.
- `ArmExclusion`: `LeaseOwnership`, by induction together with the types: each
  worker's program counter says it holds the arm exactly when the lease names it.
- `CancelIsExact`: `CancelReachesHolder`. Alone it is not inductive: a cancelled
  context must never come back as the shared one. The invariant adds that every
  cancelled context is older than the shared one, unless the lease is closed.
- `FailureHoldsAutomation`: `RecoveryBeforeAutomation`. The invariant
  (`HeldBack`) says that while recovery is due the service is paused or closed,
  or the order that failed still holds the arm and has the pause ahead of it: a
  panic's recover, or a fault whose context is still live.
- `WakeupsArrive`: `NoLostWakeup`. The invariant extends it to the consumer that
  is giving the arm back, from where it goes to sleep without looking again.
- `BooksAgree`: `OrdersAccounted`. The property says that the backlog, the current
  slot, the order the consumer runs and the finished ones fit together; the
  invariant (`Accounted`) adds the orders still on their way in: a batch being
  entered is disjoint from everything entered before it, by whichever client, and
  from the other batches (`Books`, `Entering`).
- `LineIsKept`: the service implements `OrderLifecycle`. `Accounted` maps each step
  of the queue to a step of the abstract line, withdrawals by `cancel_order` and by
  `clear_queue` or `reset_world` included, and everything else to a stutter.
- `HandoversAreReal`, `OutcomesAreFinal`, `SetDownIsSafe`: `HandoverIsReal`,
  `TerminalIsFinal` and `ServedSurvivesFaults`. `DeliveryInv` says of every record what its
  fields may be together (`RecordOK`): ready and not only announced for the cart means
  set down, handed over means set down for a cart that had docked; and while the drink
  is carried to the dock, its record has the dock (`CarriedToDock`).
- `DeliveriesAreComing`: `NoStrandedDelivery` where `~Panics`. The hypothesis is the
  code's own exception: with panics the run `panic_strands_delivery` shows the
  record that is never failed. `PlacedOrFailed` says that the drink on the arm is
  either placed or has its record failed by the end of its order, `NoneStranded`
  extends the property to the commands that have emptied the line and have
  records left to fail.

### The flow: `PlanAheadProofs`

One invariant, `FlowInv`, carries all six theorems: the types with the handshake of
the two threads (`Typed`), the errors that somebody still remembers (`Remembered`),
and the pipeline (`Pipeline`): what was given is what was performed followed by what
is in hand, in the channel and about to be sent (`InOrder`), each planned move starts
where the one before it ends (`Chained`), and the planner plans on from the last of
them (`PlansOn`).

- `FlowTypeCorrect`, `PlanFits` (`PlannedFromTheArm`), `CodeAlone`
  (`NothingBehindTheCode`), `EndsWellOnlyIfDone` (`ErrorNotLost`) and
  `PoursRecordedRan` (`WaterHasRunWithButtons`, with its own `PourRan`).
- `PlanningIsInvisible`: the flow implements `ArmSequence`: every step of either
  thread maps to giving a piece of work, performing the next one, failing, or nothing.

### The services beside the arm: `ClipsProofs`, `DialMotionProofs`, `IceDispenserProofs`, `PeripheryProofs`

The first three prove theorems of a service on its own:

- `ClipsProofs`: `RecordsOutliveCrashes` (`ClipNotLost`) and `SweepKeepsOff`
  (`OneWriterPerClip`). The second needs the times: an order ends in time, then
  comes the wait, then the save (`OnTime`), while the sweep saves only when the
  order must be over (`Swept`); `ClipsAssumption` puts one after the other. The
  first needs that an order not begun has no record (`Fresh`) and who may remove one
  (`Read`): what the sweep takes for corrupt is a record nobody writes any more, or one
  it read half written. `ClipNotLost` leaves out the latter (`misread`), where the
  code does lose clips (see "A clip the sweep can lose"), and says that it has no
  other way to.
- `DialMotionProofs`: `NoDetentLost` (`DetentsAccounted`) and `ArmStepsOn`
  (`StepsOn`). The drain loop keeps quiet when nothing was counted, so the invariant
  of the first adds that nothing is pending on an axis with nothing counted
  (`PendingIsCounted`), which in turn needs every queued step to count for something
  (`ReadingQueuesAStep`). The second needs that the last reading on record is
  the last one the hand gave, at either end of the dial (`LatestStands`).
- `IceDispenserProofs`: `PinEndsLow` (`PinLowWhenDone`), with the dwell below the
  ceiling as long as it goes on, and `GlassIsFull` (`StopsOnlyWhenFull`): of the
  sightings counted towards a stop, all but the frames that lied saw the surface
  (`LiesCounted`).

`PeripheryProofs` shows that a step of `Periphery` is a step of one service and
leaves the others alone (`PartSteps`), that the modules instantiated there and the
ones the theorems above are about are the same operators (`SameDial`, `SameClips`,
`SameIce`), and so gets those theorems for the composition (`DialLosesNothing`,
`ArmNeverStepsBack`, `ClipsAreKept`, `ClipsAreWrittenByOne`, `PinIsLowWhenDone`,
`DispenseStopsWhenFull`). It adds `PeripheryTypeCorrect` for all six, and

- `SwitchReportsArrival` (`PositionIsLastArrival`): only the call that won the
  compare-and-swap moves and records;
- `PosesLieAsGiven` (`PosesAddUp`), for any number of poses: see below;
- `LedgerBalances` (`BooksBalance`): points are counted, so a credit appended and a
  contribution made change the sums by cardinalities, and the rest follows from what
  `Contribute` checks under the store's lock;
- `ReportsAreOnDisk` (`BooksAreOnDisk`): memory and file agree, but for accounts a
  failed save left empty, whenever the service is up.

`PosesLieAsGiven` is about two recursive functions, `Circles` and `Resolve`, and the
library's induction is out of reach. In its place stands the least counterexample
(`Least`, from the well-foundedness of `<`): a closed form is shown to satisfy the
equation of the function, so that there is such a function, and any function that
satisfies it agrees with the closed form, or they would differ at a least place. A walk
along the baselines with no pose its own ancestor has ended after as many steps as
there are poses, since otherwise two of them would meet (`AcyclicEnds`, the pigeonhole
principle), and one that ends never comes back (`EndedNeverReturns`); so `Validate`'s
search, which finds a walk that comes to what it visited or goes on for ever
(`SearchFinds`), refuses exactly the configurations with an ancestor of its own
(`ValidateRefusesCircles`). In the others each chain is the baseline's and one pose
more (`ChainGrows`), which is one offset more in the sum (`NextIsShifted`).

### The brew world: `BrewScriptProofs`, `BrewWorldProofs`

For any number of milks, slots, attempts and candidates and any width of the door.
Three theorems follow from `BrewInv`, about the records alone:

- `BrewTypeCorrect`: `Spec => []TypeOK`;
- `DoorAsModelled`: `Moves => DoorIsReal`, the part of `RecordedWorldIsReal` that is
  about the fridge door. The invariant (`DoorInv`) lets the modelled door run ahead of
  the panel only between the planning of an arc and its swing, and says nothing of the
  three angles but their range while the machine is in doubt. That needs to know that
  nothing is planned or swung at any other time, which is a fact about the scripts:
  `Scripts` are the sequences in which an arc planned is swung next and nothing else is
  swung; they are closed under concatenation (`ScriptsJoin`), every function of the
  brew, every drink and every action is one (`PrepareDrinkScript`, `ActionScripts`),
  and so is what is left after a step (`ScriptGoesOn`);
- `LastSlotLast`: `FreshSlotFirst`, from the counter being one past the slot filled last
  (`ShelfInv`).

The four that matter most need to know what each rest of each script still expects of
the machine:

- `WorldRecorded` (`RecordedWorldIsReal`): whenever a motion is planned, the
  portafilter and its flags, what the gripper holds, the milk, the staged glass and the
  fridge door are as they are recorded;
- `NoSpill` (`NothingSpilled`): no mishap, in any order or action;
- `DrinkAsOrdered` (`ServedAsOrdered`): an order that ends has set down its drink;
- `OrderLeavesRest` (`OrderEndsAtRest`): and left the machine as the next one finds it.

An invariant over the rests of all scripts would be as long as the scripts. Instead
`BrewScriptProofs` says what a script does once, on a *sketch* of the machine: a record
of where the arm, the portafilter, the cup and the glass are, what the service knows it
holds, and what is in the vessels. `Can(e, q)` is when a step is right on a sketch
(nothing is rammed, nothing falls, the flags say what is so: what the code leaves to
the order of its calls), `After(e, q)` where it leads, and `Runs(q, s, z)` says that
the whole of `s` is right from `q` on and leads to `z`. Each function of the brew has
a lemma that says from which sketches it runs and to which (`GrabBrewedRuns`,
`FetchGlassRuns`, `AddMilkRuns`, ...). They are put together by `RunsJoin`, without
looking into the steps again, to an order (`PrepareRuns`: from rest to rest, with the
espresso, the ice and the milk of the order set down where it asked) and to each
action, from every sketch that lets it be done by hand (`ActionRuns`).

`BrewWorldProofs` ties sketches to the model. `RealOf(q)` and `KnownOf(q, b, u)` say
when the machine and the service's records are as the sketch has them, and a step of the
model does to them what `After` does to the sketch. The invariant `SketchInv` then says:
what runs pictures some sketch from which the rest of the script runs to an end as it
should be (`Going`); a machine at rest pictures one at rest, and unless the queue is
paused one an order may start from (`Waiting`); a machine in doubt has been put right
(`PutRight`). A fault ends the sequence and leaves doubt, a recovery comes back to rest,
and everything else is one step of the sketch. The four theorems read off what `Runs`
and the two pictures give.

The proof found three slips of the model, now corrected. `LoadGlass` left the jaws
open. The arms of the `CASE` in `Ready` and in `brewAndServe` overlapped, and TLA+ does
not say that the first one is taken, as TLC does and as Go does. And a bottle could have
been called like another thing, for which the theorems do not hold.

### What is only model-checked

Every safety invariant and action property of the passing runs is proved,
`NoStrandedDelivery` without panics. Liveness
(`QueueDrains`, `DeliveredEventually`, `PlannerGoesOn`, `DialComesToRest`,
`DeckCatchesUp`) is only checked: TLAPS does not prove it under fairness. Nor are the
violations theorems: each is a trace TLC found.

## Plan

The models of the first plan are written and their safety is proved. What is left:

1. The hand's side of a drink: `ServedAsOrdered` says nothing of a drink made action by
   action, whose order of steps is the operator's.
2. The heartbeat at the time an order is tracked and the outcome of an order cancelled
   late, which no property watches.
3. The parts that are not modelled, as far as they have state: the customer detector
   and the order sensor.

## Not modelled, and why

Motion planning, collision geometry, pose arithmetic, image processing and the
ice-level detector are numeric; their outcomes appear as free choices. Speech,
Slack, reports and the web front end are output. Configuration parsing is
checked by its own tests. The order, fault and maintenance sensors only report
what the coffee service says.

Inside the modelled parts:

- The arm's state between a fault and the operator's tidying is not followed, and
  a grip on the fridge's handle is not verified, as in the code.
- A pour that is accepted short and a dispense that timed out count as done, as
  they do in the code, which serves the drink.
- `grind_decaf` differs from `grind_coffee` in the button it presses; the actions
  that press one button of the machine, `check_ice_level` and `keepalive_purge`
  change no record and are left out of `BrewWorld`.
- `PlanAhead` plans on the records as they will be when the move runs; `BrewWorld`
  has the moves take effect in the order of the code, which is what the refinement
  of `ArmSequence` shows.
- `PinLowWhenDone` counts the dwell in rounds of its poll, and a frame takes no time:
  a camera that is slow to answer (`ice_dwell.go:252`, `icevision/level.go:265`, with
  no timeout) keeps the pin high for as long as it takes, past the ceiling.
- `ServedSurvivesFaults` starts from the delivery's record, which `markReady` changes.
  A drink set down on the shelf by a placement whose retreat then fails does not get
  there, and is recorded as failed.
- `NoStrandedDelivery` says that an active record has a drink coming, not the reverse:
  an order whose record was failed between `track` and the queue is made all the same.
- `BooksAreOnDisk` is about the death of the process. A rebuild of the service while
  a credit of the old one is being saved is not modelled.
- `CleanupPendingClips` runs once at a time, as the scheduled job it is meant for.
- The process may exit between the ice pin's rise and its shutting after Close;
  what the board does then is not the code's to say.
- The dial's and the switches' motions are one call each; a trajectory's points
  are not modelled.
