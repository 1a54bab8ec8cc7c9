-------------------------- MODULE OverdueDetection --------------------------
(***************************************************************************)
(* The scheduled job that marks loans overdue (overdueDetectionCron.ts),   *)
(* beside the requests of LoanServicing.  A cycle reads its list of loans  *)
(* once and then takes one transaction per loan; payments go on meanwhile. *)
(* An advisory lock keeps a second cycle away.  The calendar stands still: *)
(* a cycle is short.                                                       *)
(***************************************************************************)
EXTENDS LoanServicing

CONSTANT PastDue \* the installments of each loan whose day has passed

VARIABLE due \* the loans the cycle has still to go through

allVars == <<vars, due>>

PastDueOpen(l) == \E n \in PastDue[l] : schedule[l][n].status = "open"

(* loadOverdueLoanIds: no row is locked. *)
StartCycle ==
  /\ due = {}
  /\ due' = {l \in Loans : loan[l].status = "active" /\ PastDueOpen(l)}
  /\ UNCHANGED vars

(* transitionLoan waits for the row and looks at the status only. *)
MarkOverdue(l) ==
  /\ TransitionLoan(l, "overdue")
  /\ due' = due \ {l}

(* A loan that is not active any more makes it throw: the cycle is over.   *)
LoseCycle(l) ==
  /\ LockFree(l)
  /\ "overdue" \notin loanTransitions[loan[l].status]
  /\ due' = {}
  /\ UNCHANGED vars

(* The server stops, or the database is out of reach. *)
StopCycle ==
  /\ due # {}
  /\ due' = {}
  /\ UNCHANGED vars

DetectInit == Init /\ due = {}

DetectNext ==
  \/ Next /\ UNCHANGED due
  \/ StartCycle \/ StopCycle
  \/ \E l \in due : MarkOverdue(l) \/ LoseCycle(l)

DetectSpec == DetectInit /\ [][DetectNext]_allVars

(* "Installment past due": the job's reason for the loans it marks.  Who   *)
(* marks nothing else overdue finds an open installment past its day in    *)
(* every overdue loan, as a payment makes the loan active again.           *)
OverdueMeansPastDue ==
  \A l \in Loans : loan[l].status = "overdue" => PastDueOpen(l)
=============================================================================
