------------------------------- MODULE Ledger -------------------------------
(***************************************************************************)
(* crm: the loyalty ledger, one JSON file that every credit and every      *)
(* contribution rewrites through a temporary file and a rename.  The       *)
(* commands hold Store.mu from their first look at the ledger until they   *)
(* have saved it, so each is one step; the process may crash in the save,  *)
(* before or after the rename.                                             *)
(***************************************************************************)
EXTENDS Integers, Sequences, FiniteSetsExt

CONSTANTS
  Emails,
  Orders,       \* order ids a credit may name
  Manual,       \* the credit of an operator, for no order
  Targets,      \* values points_required takes over the reconfigurations
  NotFunded,    \* no entry in FundedAt
  MaxWrites     \* bound: commands that write

LedgerAssumption ==
  /\ IsFiniteSet(Emails)
  /\ Manual \notin Orders
  /\ Targets \subseteq Nat \ {0} /\ Targets # {}
  /\ NotFunded \notin Nat
  /\ MaxWrites \in Nat

VARIABLES
  ledger,    \* in memory: credits, keys of the credits map, contributions, FundedAt
  file,      \* the same, on disk
  up,        \* the service is running
  required,  \* points_required of the reward
  writes,    \* commands that wrote, so far; also the clock
  told       \* history: order credits and contributions reported as done
vars == <<ledger, file, up, required, writes, told>>

Amounts == 1 .. 2
Credits == [email : Emails, points : Amounts, order : Orders \cup {Manual}]
Empty == [credits |-> <<>>, accounts |-> {}, paid |-> [e \in Emails |-> 0],
          fundedAt |-> NotFunded]

(* A sum of points is a count of them: a point earned has a credit and its *)
(* number there, a point contributed an account and its number.            *)
Earned(l, e) ==
  Cardinality({p \in (DOMAIN l.credits) \X Amounts :
                 l.credits[p[1]].email = e /\ p[2] <= l.credits[p[1]].points})
Points(l, e) == Earned(l, e) - l.paid[e]
Given(l) == UNION {{e} \X (1 .. l.paid[e]) : e \in Emails}
Contributed(l) == Cardinality(Given(l))
Funded(l) == Contributed(l) >= required

\* Mutant of OrderCredited: only the account to be credited is looked at.
OrderCreditedTo(email, order) ==
  \E i \in DOMAIN ledger.credits :
    ledger.credits[i].order = order /\ ledger.credits[i].email = email

\* Under any email.
OrderCredited(email, order) ==
  \E i \in DOMAIN ledger.credits : ledger.credits[i].order = order

\* Mutant of Kept: memory keeps what could not be saved.
KeptUnsaved(next, email) == next

(* What a failed save leaves in memory: everything as it was, but for the  *)
(* entry of the credits map, which is put back as nil.                     *)
Kept(next, email) == [ledger EXCEPT !.accounts = @ \cup {email}]

Init ==
  /\ ledger = Empty /\ file = Empty
  /\ up = TRUE /\ required \in Targets
  /\ writes = 0
  /\ told = [orders |-> {}, paid |-> [e \in Emails |-> 0]]

Writing == up /\ writes < MaxWrites /\ writes' = writes + 1

\* saveInLock: saved, failed, or cut short by a crash on either side of the rename.
Save(next, kept, report) ==
  \/ /\ ledger' = next /\ file' = next /\ told' = report
     /\ UNCHANGED <<up, required>>
  \/ /\ ledger' = kept
     /\ UNCHANGED <<file, up, required, told>>
  \/ /\ up' = FALSE
     /\ file' \in {file, next}
     /\ UNCHANGED <<ledger, required, told>>

\* Store.Credit; creditPoints calls it entry by entry and stops at an error.
Credit(email, points, order) ==
  /\ Writing
  /\ order = Manual \/ ~OrderCredited(email, order)
  /\ LET c == [email |-> email, points |-> points, order |-> order]
         next == [ledger EXCEPT !.credits = Append(@, c),
                                !.accounts = @ \cup {email}]
     IN  Save(next, Kept(next, email),
              [told EXCEPT !.orders = IF order = Manual THEN @ ELSE @ \cup {order}])

\* Store.Contribute: no more than the balance, no more than the reward needs.
Contribute(email, points) ==
  /\ Writing
  /\ ~Funded(ledger)
  /\ points <= Points(ledger, email)
  /\ LET applied == Min({points, required - Contributed(ledger)})
         full == Contributed(ledger) + applied >= required
         next == [ledger EXCEPT !.paid[email] = @ + applied,
                                !.fundedAt = IF full THEN writes ELSE @]
     IN  Save(next, ledger, [told EXCEPT !.paid[email] = @ + applied])

\* The module stops; nothing is written on the way out.
Stop ==
  /\ up
  /\ up' = FALSE
  /\ UNCHANGED <<ledger, file, required, writes, told>>

\* Open, with the rewards configured by then.
Open ==
  /\ ~up
  /\ up' = TRUE
  /\ ledger' = file
  /\ required' \in Targets
  /\ UNCHANGED <<file, writes, told>>

Next ==
  \/ \E e \in Emails, n \in Amounts, o \in Orders \cup {Manual} : Credit(e, n, o)
  \/ \E e \in Emails, n \in Amounts : Contribute(e, n)
  \/ Stop
  \/ Open

-----------------------------------------------------------------------------
IsLedger(l) ==
  /\ l.credits \in Seq(Credits)
  /\ l.accounts \subseteq Emails
  /\ l.paid \in [Emails -> Nat]
  /\ l.fundedAt \in Nat \cup {NotFunded}

TypeOK ==
  /\ IsLedger(ledger) /\ IsLedger(file)
  /\ up \in BOOLEAN /\ required \in Targets /\ writes \in 0 .. MaxWrites
  /\ told.orders \subseteq Orders /\ told.paid \in [Emails -> Nat]

(* The books balance, in memory and on disk: an order is credited at most  *)
(* once over all accounts, no account has spent more than it earned, and   *)
(* the reward never holds more than it was ever asked to.                  *)
BooksBalance ==
  \A l \in {ledger, file} :
    /\ \A i, j \in DOMAIN l.credits :
         l.credits[i].order = l.credits[j].order /\ i # j
           => l.credits[i].order = Manual
    /\ \A e \in Emails : Earned(l, e) >= l.paid[e]
    /\ \E t \in Targets : Contributed(l) <= t

(* Whatever was reported as credited or contributed is on disk, through    *)
(* failed saves, crashes and restarts, and a running service shows no      *)
(* points the file does not have.                                          *)
BooksAreOnDisk ==
  /\ \A o \in told.orders : \E i \in DOMAIN file.credits : file.credits[i].order = o
  /\ \A e \in Emails : file.paid[e] >= told.paid[e]
  /\ up => ledger.credits = file.credits /\ ledger.paid = file.paid
=============================================================================
