---------------------------- MODULE DeliveryCart ----------------------------
(***************************************************************************)
(* coffee/delivery.go: the delivery orders the cart polls for, and the     *)
(* cart's heartbeat.  deliveryCart.mu guards all of it, so each operator   *)
(* is one locked section.                                                  *)
(*                                                                         *)
(* Orders are numbered in the order of their EnqueuedAt stamps.  Of the    *)
(* heartbeat only accepting's answer is kept: the cart is "running" when   *)
(* its latest heartbeat says so and is not too old, else it is "away".     *)
(***************************************************************************)
EXTENDS Naturals

CONSTANTS
  Orders,      \* order numbers, a set of naturals
  NoRecord     \* no entry in deliveryCart.orders

VARIABLES
  delivery,    \* deliveryCart.orders
  cart         \* what the heartbeat says: "running" or "away"

deliveryVars == <<delivery, cart>>

Active   == {"making", "ready", "retrying"}
Terminal == {"handed_over", "failed"}

Record == [status : Active \cup Terminal, served : BOOLEAN,
           docked : BOOLEAN, toCart : BOOLEAN]

DeliveryInit ==
  /\ delivery = [o \in Orders |-> NoRecord]
  /\ cart = "away"

Tracked == {o \in Orders : delivery[o] # NoRecord}
Waiting == {o \in Tracked : delivery[o].status \in Active}
Settled == Tracked \ Waiting

Accepting == cart = "running"

\* Mutant of Settle: a drink still on its way to the cart counts as ready.
SettleEarly(rec) ==
  IF rec.docked /\ rec.status \in {"ready", "retrying"}
  THEN [rec EXCEPT !.status = IF Accepting THEN "handed_over" ELSE "retrying"]
  ELSE rec

(* settleLocked: attempt the handoff the cart has already started.         *)
Settle(rec) ==
  IF rec.docked /\ ~rec.toCart /\ rec.status \in {"ready", "retrying"}
  THEN [rec EXCEPT !.status = IF Accepting THEN "handed_over" ELSE "retrying"]
  ELSE rec

Fail(rec) == [rec EXCEPT !.status = "failed"]

Update(o, rec) ==
  /\ delivery' = [delivery EXCEPT ![o] = rec]
  /\ UNCHANGED cart

Track(o) ==
  Update(o, IF delivery[o] # NoRecord THEN delivery[o]
            ELSE [status |-> "making", served |-> FALSE,
                  docked |-> FALSE, toCart |-> FALSE])

\* Mutants of MarkReady: a settled record is revived; the drink put on the
\* shelf is still taken to be on its way to the cart.
MarkReadyAnyway(o) ==
  Update(o, IF o \in Tracked
            THEN Settle([delivery[o] EXCEPT !.status = "ready",
                                            !.served = TRUE, !.toCart = FALSE])
            ELSE delivery[o])

MarkReadyStillToCart(o) ==
  Update(o, IF o \in Waiting
            THEN Settle([delivery[o] EXCEPT !.status = "ready", !.served = TRUE])
            ELSE delivery[o])

MarkReady(o) ==
  Update(o, IF o \in Waiting
            THEN Settle([delivery[o] EXCEPT !.status = "ready",
                                            !.served = TRUE, !.toCart = FALSE])
            ELSE delivery[o])

MarkReadyForCart(o) ==
  Update(o, IF o \in Tracked /\ delivery[o].status = "making"
            THEN [delivery[o] EXCEPT !.status = "ready", !.toCart = TRUE]
            ELSE delivery[o])

DockedFor(o) == o \in Waiting /\ delivery[o].docked /\ Accepting

MarkHandedOver(o) ==
  Update(o, IF o \in Waiting
            THEN [delivery[o] EXCEPT !.status = "handed_over",
                                     !.served = TRUE, !.toCart = FALSE]
            ELSE delivery[o])

\* Mutants of FailIfMaking: the early "ready" is taken for a drink that is
\* there; every active record is failed.
FailIfNotReady(o) ==
  Update(o, IF o \in Tracked /\ delivery[o].status = "making"
            THEN Fail(delivery[o]) ELSE delivery[o])

FailIfActive(o) ==
  Update(o, IF o \in Waiting THEN Fail(delivery[o]) ELSE delivery[o])

FailIfMaking(o) ==
  Update(o, IF /\ o \in Tracked
               /\ delivery[o].status = "making" \/ delivery[o].toCart
            THEN Fail(delivery[o]) ELSE delivery[o])

FailActive ==
  /\ delivery' = [o \in Orders |->
                    IF o \in Waiting THEN Fail(delivery[o]) ELSE delivery[o]]
  /\ UNCHANGED cart

(* pruneLocked opens every poll of the cart: the settled records in old    *)
(* are past deliveryResultRetention.                                       *)
Pruned(old) == [o \in Orders |-> IF o \in old THEN NoRecord ELSE delivery[o]]

PendingPoll(old) ==
  /\ delivery' = Pruned(old)
  /\ UNCHANGED cart

(* delivery_machine_ready names the oldest order still active.             *)
Oldest(o) == o \in Waiting /\ \A p \in Waiting : o <= p

Dock(old) ==
  /\ delivery' = [o \in Orders |->
                    IF Oldest(o) THEN Settle([delivery[o] EXCEPT !.docked = TRUE])
                    ELSE Pruned(old)[o]]
  /\ UNCHANGED cart

HandoverPoll(o, old) ==
  /\ delivery' = [Pruned(old) EXCEPT
                    ![o] = IF @ = NoRecord THEN @ ELSE Settle(@)]
  /\ UNCHANGED cart

Heartbeat(state) ==
  /\ cart' = state
  /\ UNCHANGED delivery
=============================================================================
