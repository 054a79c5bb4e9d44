----------------------------- MODULE OrderQueue -----------------------------
(***************************************************************************)
(* coffee/order/queue.go: pending -> current, under Queue.mu.  Each        *)
(* operator is one locked section; the poke that follows Enqueue is        *)
(* outside the lock and therefore an operator of its own.  The recent      *)
(* buffer keeps completed copies for get_queue to show and is left out.    *)
(***************************************************************************)
EXTENDS Naturals, SequencesExt

CONSTANT NoOrder       \* the nil *Order in current

VARIABLES
  pending,   \* the backlog, FIFO
  current,   \* the order being made, or NoOrder
  wake       \* notify, the buffered(1) channel, holds a wakeup

queueVars == <<pending, current, wake>>

QueueInit ==
  /\ pending = <<>>
  /\ current = NoOrder
  /\ wake = FALSE

(* Len: the backlog plus the order on the arm.                             *)
Depth == Len(pending) + (IF current = NoOrder THEN 0 ELSE 1)

Append1(o) ==
  /\ pending' = Append(pending, o)
  /\ UNCHANGED <<current, wake>>

\* Mutant of Poke: wake the consumer for the first waiting order only.
PokeFirst ==
  /\ wake' = (wake \/ Len(pending) = 1)
  /\ UNCHANGED <<pending, current>>

(* The non-blocking send that wakes the consumer.                          *)
Poke ==
  /\ wake' = TRUE
  /\ UNCHANGED <<pending, current>>

Start ==
  /\ pending # <<>>
  /\ current' = Head(pending)
  /\ pending' = Tail(pending)
  /\ UNCHANGED wake

(* Queue.Remove succeeds on a waiting order only, the first with that ID;  *)
(* the three ways it can miss (in flight, completed, unknown) change       *)
(* nothing.                                                                *)
RemoveOrder(o) ==
  /\ \E i \in DOMAIN pending :
       /\ pending[i] = o
       /\ \A j \in 1 .. i - 1 : pending[j] # o
       /\ pending' = RemoveAt(pending, i)
  /\ UNCHANGED <<current, wake>>

Complete ==
  /\ current' = NoOrder
  /\ UNCHANGED <<pending, wake>>

Clear ==
  /\ pending' = <<>>
  /\ current' = NoOrder
  /\ UNCHANGED wake

\* Mutant of ClearPending: clear_queue takes the order on the arm as well.
ClearPendingAndCurrent ==
  /\ pending' = <<>>
  /\ current' = NoOrder
  /\ UNCHANGED wake

ClearPending ==
  /\ pending' = <<>>
  /\ UNCHANGED <<current, wake>>
=============================================================================
