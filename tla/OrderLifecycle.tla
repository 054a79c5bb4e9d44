--------------------------- MODULE OrderLifecycle ---------------------------
(***************************************************************************)
(* What the order queue promises a customer, without the arm, the locks or *)
(* the goroutines: an order waits in line, is made when it reaches the     *)
(* front and nothing else is being made, and is then accounted for exactly *)
(* once.  Only an order still in line can be withdrawn.                    *)
(***************************************************************************)
EXTENDS Naturals, SequencesExt

CONSTANT Orders

VARIABLES line, making, finished, seen

lifeVars == <<line, making, finished, seen>>

Init ==
  /\ line = <<>>
  /\ making = {}
  /\ finished = {}
  /\ seen = {}

Enter(o) ==
  /\ o \notin seen
  /\ seen' = seen \cup {o}
  /\ line' = Append(line, o)
  /\ UNCHANGED <<making, finished>>

Begin ==
  /\ making = {}
  /\ line # <<>>
  /\ making' = {Head(line)}
  /\ line' = Tail(line)
  /\ UNCHANGED <<finished, seen>>

Finish ==
  /\ making # {}
  /\ finished' = finished \cup making
  /\ making' = {}
  /\ UNCHANGED <<line, seen>>

WithdrawOne ==
  /\ \E i \in DOMAIN line : line' = RemoveAt(line, i)
  /\ UNCHANGED <<making, finished, seen>>

WithdrawAll ==
  /\ line' = <<>>
  /\ UNCHANGED <<making, finished, seen>>

Next ==
  \/ \E o \in Orders : Enter(o)
  \/ Begin
  \/ Finish
  \/ WithdrawOne
  \/ WithdrawAll

Spec == Init /\ [][Next]_lifeVars
=============================================================================
