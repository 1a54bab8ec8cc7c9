--------------------------- MODULE MCOrigination ---------------------------
(***************************************************************************)
(* A small instance of Origination: two applications of one client, whose  *)
(* reviews may meet; two managers, either of whom may have created what he *)
(* decides on; schedules that divide without rest and with, end of January *)
(* and of February.                                                        *)
(***************************************************************************)
EXTENDS Origination

CONSTANTS client, first, second, mia, max, h1, h2

MCForms ==
  {[client |-> client, createdBy |-> mia, requestedAmount |-> 500,
    terms |-> [annualRate |-> 2400, installments |-> 3, cycle |-> "monthly"]],
   [client |-> client, createdBy |-> max, requestedAmount |-> 5,
    terms |-> [annualRate |-> 3000, installments |-> 4, cycle |-> "biweekly"]]}

(* Who submits, reviews and assesses makes no difference. *)
MCRequests ==
  {[op |-> "submit", application |-> a, user |-> mia,
    verdict |-> "favourable"] : a \in Applications}
  \cup [op : {"review", "assess"}, application : Applications, user : {mia},
        verdict : {"favourable", "unfavourable"}]
  \cup [op : {"decide"}, application : Applications, user : Users,
        verdict : {"favourable", "unfavourable"}]

MCApprovalDays == {[month |-> 12, day |-> 31], [month |-> 1, day |-> 28]}
=============================================================================
