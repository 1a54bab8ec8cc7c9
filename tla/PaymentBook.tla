----------------------------- MODULE PaymentBook ----------------------------
(***************************************************************************)
(* What posting payments promises to those who send them: a book in which  *)
(* every idempotency key is entered at most once, on a loan that is being  *)
(* collected, and lowers that loan's debt by at most its amount; and a     *)
(* loan that is closed once it owes nothing and takes nothing afterwards.  *)
(* LoanServicing implements it with transactions, row locks and retries.   *)
(***************************************************************************)
EXTENDS Integers

CONSTANTS
  Loans,     \* loan accounts
  Keys,      \* idempotency keys of payments
  Amounts,   \* amounts a payment may have
  Principal  \* what each loan owes when it is approved

VARIABLES
  book,   \* the payments entered
  debt,   \* the principal each loan owes
  phase   \* whether the loan is new, being collected, or closed

vars == <<book, debt, phase>>

Init ==
  /\ book = {}
  /\ debt = Principal
  /\ phase = [l \in Loans |-> "new"]

Open(l) ==
  /\ phase[l] = "new"
  /\ phase' = [phase EXCEPT ![l] = "collecting"]
  /\ UNCHANGED <<book, debt>>

(* The part of the amount that does not lower the debt pays charges or is  *)
(* held as an overpayment.                                                 *)
Enter(k, l, a) ==
  /\ phase[l] = "collecting"
  /\ \A e \in book : e.key # k
  /\ book' = book \cup {[key |-> k, loan |-> l, amount |-> a]}
  /\ \E p \in 0..a :
       /\ p <= debt[l]
       /\ debt' = [debt EXCEPT ![l] = debt[l] - p]
       /\ phase' = [phase EXCEPT ![l] =
                      IF debt[l] - p = 0 THEN "closed" ELSE "collecting"]

(* Closed by hand: written off, or completed whatever it owes.             *)
Close(l) ==
  /\ phase[l] = "collecting"
  /\ phase' = [phase EXCEPT ![l] = "closed"]
  /\ UNCHANGED <<book, debt>>

Next ==
  \/ \E l \in Loans : Open(l) \/ Close(l)
  \/ \E k \in Keys, l \in Loans, a \in Amounts : Enter(k, l, a)

Spec == Init /\ [][Next]_vars
=============================================================================
