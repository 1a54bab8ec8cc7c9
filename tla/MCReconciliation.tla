-------------------------- MODULE MCReconciliation --------------------------
(* Small instances of ReconciliationPosting. *)
EXTENDS ReconciliationPosting, TLC

CONSTANTS h1, h2, job, none

Posted(branch, amount, penalty, interest) ==
  [branch |-> branch, amount |-> amount, penalty |-> penalty, interest |-> interest]

(* Two payments of the same amount.                                        *)
MCFacts == <<Posted("north", 30, 0, 7), Posted("north", 30, 4, 1)>>

(* 30, 30, 20 and 10 per cent of such charges are never whole numbers.      *)
MCRates == ("v1" :> (("credit_loss_reserve" :> 3000) @@ ("operating_reserve" :> 3000)
                     @@ ("collection" :> 2000) @@ ("growth" :> 1000)))

Send(ref, actor, expected, recorded, payments) ==
  [ref |-> ref, branch |-> "north", actor |-> actor, expected |-> expected,
   recorded |-> recorded, submitted |-> recorded, payments |-> payments,
   policy |-> "v1", decision |-> "none", entitled |-> FALSE]

Decide(r, actor, decision) ==
  [r EXCEPT !.actor = actor, !.decision = decision, !.entitled = TRUE]

Short == Send("m1", "mia", 90, 30, {1})

(* A matched batch, one with a variance and what may be decided about it,  *)
(* by whom and with which payments; another branch's payment; the job's     *)
(* reference used by hand.                                                 *)
MCRequests ==
  {[Send("m1", "mia", 60, 60, {1, 2}) EXCEPT !.policy = "v0"], Short,
   Decide(Short, "mia", "approve"), Decide(Short, "max", "approve"),
   Decide(Short, "max", "reject"),
   Decide([Short EXCEPT !.payments = {2}], "max", "approve"),
   [Send("m1", "mia", 30, 30, {1}) EXCEPT !.branch = "south"],
   Send("auto", "max", 60, 60, {1, 2})}

Symmetry == Permutations(Handlers)

MCAutoReference == [b \in {"north", "south"} |-> "auto"]
=============================================================================
