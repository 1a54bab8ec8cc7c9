---------------------------- MODULE Underwriting ----------------------------
(***************************************************************************)
(* What the way from an application to a loan promises to the lender: an   *)
(* application stays what was asked for; it goes on step by step until it  *)
(* is approved or rejected, once; its client is reviewed once, in the      *)
(* review of one of the client's applications; somebody else than who made *)
(* it approves it; and what is lent is what was asked for, no more and not *)
(* twice.  Origination implements it with requests that run side by side,  *)
(* each reading and writing in several statements.                         *)
(***************************************************************************)
EXTENDS Integers

CONSTANTS
  Clients,
  Applications,
  Users,
  Forms, \* what may be asked for, by whom and for which client
  None   \* an absent value

VARIABLES
  form,     \* what each application asks for
  stage,    \* how far it is
  verdicts, \* what the reviews of each client came to
  approver, \* who approved each application
  lent      \* how much was lent on it

vars == <<form, stage, verdicts, approver, lent>>

Init ==
  /\ form = [a \in Applications |-> None]
  /\ stage = [a \in Applications |-> "none"]
  /\ verdicts = [c \in Clients |-> {}]
  /\ approver = [a \in Applications |-> None]
  /\ lent = [a \in Applications |-> 0]

Apply(a, f) ==
  /\ stage[a] = "none"
  /\ stage' = [stage EXCEPT ![a] = "draft"]
  /\ form' = [form EXCEPT ![a] = f]
  /\ UNCHANGED <<verdicts, approver, lent>>

Step(a, from, to) ==
  /\ stage[a] = from
  /\ stage' = [stage EXCEPT ![a] = to]
  /\ UNCHANGED form

Submit(a) ==
  /\ Step(a, "draft", "submitted")
  /\ UNCHANGED <<verdicts, approver, lent>>

(* The first application of a client to be reviewed decides on the client. *)
Review(a, verdict) ==
  LET c == form[a].client
  IN  /\ Step(a, "submitted", IF verdict = "verified" THEN "kyc_verified"
                                                      ELSE "rejected")
      /\ verdicts[c] = {}
      /\ verdicts' = [verdicts EXCEPT ![c] = {verdict}]
      /\ UNCHANGED <<approver, lent>>

Assess(a) ==
  /\ Step(a, "kyc_verified", "risk_assessed")
  /\ UNCHANGED <<verdicts, approver, lent>>

Approve(a, u) ==
  /\ Step(a, "risk_assessed", "approved")
  /\ u # form[a].createdBy
  /\ approver' = [approver EXCEPT ![a] = u]
  /\ lent' = [lent EXCEPT ![a] = form[a].requestedAmount]
  /\ UNCHANGED verdicts

(* By the assessment or the decision. *)
Decline(a) ==
  /\ \E from \in {"submitted", "kyc_verified", "risk_assessed"} :
       Step(a, from, "rejected")
  /\ UNCHANGED <<verdicts, approver, lent>>

Next ==
  \E a \in Applications :
    \/ \E f \in Forms : Apply(a, f)
    \/ \E verdict \in {"verified", "rejected"} : Review(a, verdict)
    \/ \E u \in Users : Approve(a, u)
    \/ Submit(a) \/ Assess(a) \/ Decline(a)

Spec == Init /\ [][Next]_vars
=============================================================================
