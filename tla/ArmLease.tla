------------------------------ MODULE ArmLease ------------------------------
(***************************************************************************)
(* coffee/arm_lease.go: who may move the arm, how to interrupt them, and   *)
(* whether automated work may start.  Every field below is guarded by      *)
(* armLease.mu, so each operator of this module is one locked section and  *)
(* therefore one atomic step of whichever module composes it.              *)
(*                                                                         *)
(* A context is a generation number.  The lease owns generation ctx; a     *)
(* claim hands it to the holder (grant), and a cancel kills it and moves   *)
(* the lease on to the next one.                                           *)
(***************************************************************************)
EXTENDS Naturals

CONSTANT Free          \* the empty holder name, ""

VARIABLES
  holder,     \* the process that holds the arm, or Free
  paused,     \* automated work is held back until proceed
  closed,     \* shutdown ran: every later claim is refused
  ctx,        \* generation of the context the lease hands out (cancelCtx)
  cancelled,  \* the generations that have been cancelled
  grant       \* the generation the latest claim returned

leaseVars == <<holder, paused, closed, ctx, cancelled, grant>>

LeaseInit ==
  /\ holder = Free
  /\ paused = FALSE
  /\ closed = FALSE
  /\ ctx = 0
  /\ cancelled = {}
  /\ grant = 0

\* Mutant of Refused: the claim forgets to look at the holder.
RefusedBlindToHolder(respectPause) == closed \/ (respectPause /\ paused)

(* Why claim would refuse, for a caller that does or does not respect the  *)
(* pause (claimAutomated / claimManual).                                   *)
Refused(respectPause) ==
  \/ closed
  \/ holder # Free
  \/ respectPause /\ paused

Claim(who, respectPause) ==
  /\ ~Refused(respectPause)
  /\ holder' = who
  /\ grant' = ctx
  /\ UNCHANGED <<paused, closed, ctx, cancelled>>

(* release does not look at who holds the arm.                             *)
Release ==
  /\ holder' = Free
  /\ UNCHANGED <<paused, closed, ctx, cancelled, grant>>

Pause ==
  /\ paused' = TRUE
  /\ UNCHANGED <<holder, closed, ctx, cancelled, grant>>

Unpause ==
  /\ paused' = FALSE
  /\ UNCHANGED <<holder, closed, ctx, cancelled, grant>>

\* Mutant of SignalCancel: the cancelled context is not replaced.
SignalCancelOnce ==
  /\ paused' = TRUE
  /\ cancelled' = IF holder = Free THEN cancelled ELSE cancelled \cup {ctx}
  /\ UNCHANGED <<holder, closed, ctx, grant>>

(* operator.go signalCancel: pause, and interrupt whoever has the arm.     *)
SignalCancel ==
  /\ paused' = TRUE
  /\ IF holder = Free
     THEN UNCHANGED <<ctx, cancelled>>
     ELSE /\ cancelled' = cancelled \cup {ctx}
          /\ ctx' = ctx + 1
  /\ UNCHANGED <<holder, closed, grant>>

Shutdown ==
  /\ closed' = TRUE
  /\ cancelled' = cancelled \cup {ctx}
  /\ UNCHANGED <<holder, paused, ctx, grant>>

(* The holder's context has not been cancelled.                            *)
Live == grant \notin cancelled
=============================================================================
