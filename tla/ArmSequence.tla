----------------------------- MODULE ArmSequence -----------------------------
(***************************************************************************)
(* What brew code relies on when it plans ahead: the arm does what it was  *)
(* given, one piece of work at a time and in the order it was given, and   *)
(* once something has gone wrong it does nothing more.                     *)
(***************************************************************************)
EXTENDS Naturals, Sequences

CONSTANT Work

VARIABLES
  given,      \* the work asked for so far, oldest first
  performed,  \* the work done so far
  broken      \* something went wrong

sequenceVars == <<given, performed, broken>>

Init ==
  /\ given = <<>>
  /\ performed = <<>>
  /\ broken = FALSE

Give(w) ==
  /\ given' = Append(given, w)
  /\ UNCHANGED <<performed, broken>>

Perform ==
  /\ ~broken
  /\ Len(performed) < Len(given)
  /\ performed' = Append(performed, given[Len(performed) + 1])
  /\ UNCHANGED <<given, broken>>

\* Work the caller waits for: nothing may be left from before.
GiveAndPerform(w) ==
  /\ ~broken
  /\ performed = given
  /\ given' = Append(given, w)
  /\ performed' = Append(performed, w)
  /\ UNCHANGED broken

Break ==
  /\ broken' = TRUE
  /\ UNCHANGED <<given, performed>>

Next == (\E w \in Work : Give(w) \/ GiveAndPerform(w)) \/ Perform \/ Break

Spec == Init /\ [][Next]_sequenceVars
=============================================================================
