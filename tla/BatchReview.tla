----------------------------- MODULE BatchReview ----------------------------
(***************************************************************************)
(* What reconciling payments promises to the finance team: a payment is    *)
(* counted in at most one batch and stays there; a batch is accepted when  *)
(* its amounts agree or when a held one is approved, rejected or accepted  *)
(* for good; and the charges of its payments are realized at that moment,  *)
(* once.  ReconciliationPosting implements it with concurrent              *)
(* transactions, retries and a scheduled job.                              *)
(***************************************************************************)
EXTENDS Integers

CONSTANTS
  References, \* batch references
  Payments,   \* payments that may be counted
  Unclaimed,  \* the batch of a payment that is in none
  Charge      \* what each set of payments earned

VARIABLES
  batchOf,  \* the batch each payment is counted in
  verdict,  \* what became of each batch
  realized  \* the charges realized so far

vars == <<batchOf, verdict, realized>>

In(ref) == {p \in Payments : batchOf[p] = ref}

Init ==
  /\ batchOf = [p \in Payments |-> Unclaimed]
  /\ verdict = [ref \in References |-> "none"]
  /\ realized = 0

(* A new batch takes payments no other batch has.                          *)
Take(ref, S) ==
  /\ verdict[ref] = "none"
  /\ \A p \in S : batchOf[p] = Unclaimed
  /\ batchOf' = [p \in Payments |-> IF p \in S THEN ref ELSE batchOf[p]]

Hold(ref, S) ==
  /\ Take(ref, S)
  /\ verdict' = [verdict EXCEPT ![ref] = "held"]
  /\ UNCHANGED realized

Accept(ref, S) ==
  /\ Take(ref, S)
  /\ verdict' = [verdict EXCEPT ![ref] = "accepted"]
  /\ realized' = realized + Charge[S]

Approve(ref) ==
  /\ verdict[ref] = "held"
  /\ verdict' = [verdict EXCEPT ![ref] = "accepted"]
  /\ realized' = realized + Charge[In(ref)]
  /\ UNCHANGED batchOf

Reject(ref) ==
  /\ verdict[ref] = "held"
  /\ verdict' = [verdict EXCEPT ![ref] = "rejected"]
  /\ UNCHANGED <<batchOf, realized>>

Next ==
  \E ref \in References :
    \/ \E S \in SUBSET Payments : Hold(ref, S) \/ Accept(ref, S)
    \/ Approve(ref) \/ Reject(ref)

Spec == Init /\ [][Next]_vars
=============================================================================
