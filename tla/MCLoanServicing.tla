-------------------------- MODULE MCLoanServicing --------------------------
(* Small instances of LoanServicing. *)
EXTENDS LoanServicing, TLC

CONSTANTS l1, l2, h1, h2, d1, d2, none

Due(principal, penalty, interest) ==
  [principalDue |-> principal, penaltyDue |-> penalty,
   interestDue |-> interest, chargeDue |-> 0,
   principalPaid |-> 0, penaltyPaid |-> 0, interestPaid |-> 0,
   chargePaid |-> 0, status |-> "open"]

(* A row from before migration 006: only its charge is due beside the      *)
(* principal.                                                              *)
LegacyDue(principal, charge) ==
  [Due(principal, 0, 0) EXCEPT !.chargeDue = charge]

(* l1 is a schedule built by schedule.ts, with a penalty added; l2 is      *)
(* smaller than its number of installments, so the first one is due        *)
(* nothing.                                                                *)
MCPrincipal   == (l1 :> 3) @@ (l2 :> 1)
MCNewSchedule == (l1 :> <<Due(1, 1, 0), Due(2, 0, 1)>>)
                   @@ (l2 :> <<LegacyDue(0, 0), LegacyDue(1, 1)>>)
MCClientOf    == [l \in {l1, l2} |-> "ann"]
MCBranchOf    == [l \in {l1, l2} |-> "north"]

Send(key, l, amount, actor, scoped, localId) ==
  [key |-> key, receipt |-> none, loan |-> l, branch |-> "north",
   client |-> none, amount |-> amount, actor |-> actor, scoped |-> scoped,
   localId |-> localId, capture |-> "facts"]

(* cara may only collect from clients assigned to her, max from all. k2 is  *)
(* used on both loans; k3 is sent with and without a device record that k1  *)
(* may also claim; k2 and k3 claim one receipt number.                      *)
MCRequests ==
  {Send("k1", l1, 4, "cara", TRUE, "dev1"),
   [Send("k2", l2, 1, "max", FALSE, none) EXCEPT !.receipt = "rct"],
   Send("k2", l1, 1, "max", FALSE, none),
   [Send("k3", l1, 3, "max", FALSE, none) EXCEPT !.receipt = "rct"],
   [Send("k3", l1, 3, "max", FALSE, "dev1") EXCEPT !.receipt = "rct"]}

(* Two keys, each used on both loans, so that two handlers can wait for each *)
(* other; one request names a client the loan is not of.                     *)
MCCrossedRequests ==
  {Send(k, l, 2, "max", FALSE, none) : k \in {"k1", "k2"}, l \in {l1, l2}}
    \cup {[Send("k1", l1, 2, "max", FALSE, none) EXCEPT !.client = "bob"]}

Symmetry == Permutations(Handlers) \cup Permutations(DisbursementKeys)
=============================================================================
