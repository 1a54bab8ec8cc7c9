------------------------- MODULE MCOverdueDetection -------------------------
(* The loans of MCLoanServicing; the first installment of each is past due. *)
EXTENDS MCLoanServicing, OverdueDetection

MCPastDue == [l \in Loans |-> {1}]

(* Payments that settle an installment and no more, and the whole loan. *)
MCInstallments ==
  {Send("k1", l1, 2, "max", FALSE, none), Send("k2", l1, 3, "max", FALSE, none),
   Send("k3", l2, 2, "max", FALSE, none)}
=============================================================================
