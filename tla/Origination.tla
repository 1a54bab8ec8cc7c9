---------------------------- MODULE Origination ----------------------------
(***************************************************************************)
(* From a client to an approved loan (lifecycle.ts): applications are      *)
(* created, submitted, reviewed for KYC, assessed for risk and decided,    *)
(* each step by a request of its own inside one transaction.  What becomes *)
(* of the loan is the business of LoanServicing, but its disbursement is   *)
(* the last line of the application's timeline.                            *)
(*                                                                         *)
(* findApplication joins the application with its client and locks both    *)
(* rows, in this order.  What a request reads after that it writes from    *)
(* in a later step.  KYC belongs to the client while its review is a step  *)
(* of one application: the requests of two applications of one client      *)
(* meet in it.  Actors are of the branch of the client; what a request     *)
(* must contain to be looked at at all it contains.                        *)
(***************************************************************************)
EXTENDS RepaymentSchedule, FiniteSets

CONSTANTS
  Clients,
  Applications,
  Users,
  Forms,        \* what an application may ask for
  Requests,     \* submissions, reviews, assessments and decisions
  ApprovalDays, \* days on which the clock may find a decision
  Handlers,     \* server requests in progress
  None          \* an absent value

ApplicationStatus ==
  {"draft", "submitted", "kyc_verified", "risk_assessed", "approved",
   "rejected"}

Form ==
  [client : Clients, createdBy : Users, requestedAmount : Nat \ {0},
   terms : ProductTerms]

Request ==
  [op : {"submit", "review", "assess", "decide"}, application : Applications,
   user : Users, verdict : {"favourable", "unfavourable"}]

Application ==
  [form : Forms, status : ApplicationStatus, approvedBy : Users \cup {None}]

ASSUME OriginationAssumption ==
  /\ Forms \subseteq Form
  /\ Requests \subseteq Request
  /\ ApprovalDays \subseteq Date
  /\ None \notin Handlers \cup Application
  /\ None \notin Seq(ScheduleRow)
  /\ Clients \cap Applications = {}

VARIABLES
  clients,      \* clients registered
  applications, \* loan_applications: form, status and who decided
  kyc,          \* kyc_records, with the application each was reviewed in
  risk,         \* risk_assessments: the status for each application
  loans,        \* the schedule each approved application's loan has
  disbursed,    \* the applications whose loan disburseLoan has disbursed
  history,      \* application_transition_history, as it was written
  lock,         \* the handler holding the row lock of a client, application
  pc,           \* what each handler does next
  request,      \* the request it serves
  seen,         \* the application's status as it read it
  known         \* the client's KYC statuses as it read them

tables == <<clients, applications, kyc, risk, loans, disbursed, history>>
reads  == <<request, seen, known>>
vars   == <<tables, lock, pc, reads>>

Rows == Clients \cup Applications

applicationTransitions ==
  [draft         |-> {"submitted"},
   submitted     |-> {"kyc_verified", "rejected"},
   kyc_verified  |-> {"risk_assessed", "rejected"},
   risk_assessed |-> {"approved", "rejected"},
   approved      |-> {},
   rejected      |-> {}]

Existing(a) == applications[a] # None

ClientOf(a) == applications[a].form.client

(* The client's KYC statuses. *)
Verdicts(c) == {k.status : k \in {r \in kyc : r.client = c}}

-----------------------------------------------------------------------------
CreateClient(c) ==
  /\ c \notin clients
  /\ clients' = clients \cup {c}
  /\ UNCHANGED <<applications, kyc, risk, loans, disbursed, history, lock, pc,
                 reads>>

(* createLoanApplication.  The foreign key of the new row needs a share of *)
(* the client's row, which waits for whoever holds its lock.               *)
CreateLoanApplication(a, form) ==
  /\ ~Existing(a)
  /\ form.client \in clients
  /\ lock[form.client] = None
  /\ applications' = [applications EXCEPT ![a] =
       [form |-> form, status |-> "draft", approvedBy |-> None]]
  /\ history' = [history EXCEPT ![a] = <<<<None, "draft">>>>]
  /\ UNCHANGED <<clients, kyc, risk, loans, disbursed, lock, pc, reads>>

-----------------------------------------------------------------------------
(* findApplication with FOR UPDATE. *)

LockApplication(h, q) ==
  /\ pc[h] = "idle"
  /\ Existing(q.application)
  /\ lock[q.application] = None
  /\ lock' = [lock EXCEPT ![q.application] = h]
  /\ request' = [request EXCEPT ![h] = q]
  /\ pc' = [pc EXCEPT ![h] = "client"]
  /\ UNCHANGED <<tables, seen, known>>

(* Seeded fault: FOR UPDATE OF la locks the application alone. *)
LockClientUnlocked(h) ==
  LET q == request[h]
  IN  /\ pc[h] = "client"
      /\ seen' = [seen EXCEPT ![h] = applications[q.application].status]
      /\ pc' = [pc EXCEPT ![h] = IF q.op = "review" THEN "kyc" ELSE "ready"]
      /\ UNCHANGED <<tables, lock, request, known>>

LockClient(h) ==
  LET q == request[h]
      c == ClientOf(q.application)
  IN  /\ pc[h] = "client"
      /\ lock[c] = None
      /\ lock' = [lock EXCEPT ![c] = h]
      /\ seen' = [seen EXCEPT ![h] = applications[q.application].status]
      /\ pc' = [pc EXCEPT ![h] = IF q.op = "review" THEN "kyc" ELSE "ready"]
      /\ UNCHANGED <<tables, request, known>>

(* reviewKyc selects the client's latest record.  No code writes a pending *)
(* one, so that any there is is final and which is the latest is all one.  *)
ReadKyc(h) ==
  /\ pc[h] = "kyc"
  /\ known' = [known EXCEPT ![h] = Verdicts(ClientOf(request[h].application))]
  /\ pc' = [pc EXCEPT ![h] = "ready"]
  /\ UNCHANGED <<tables, lock, request, seen>>

-----------------------------------------------------------------------------
(* The status a request moves its application to. *)
Target(q) ==
  CASE q.op = "submit" -> "submitted"
    [] q.op # "submit" /\ q.verdict = "unfavourable" -> "rejected"
    [] q.op = "review" /\ q.verdict = "favourable" -> "kyc_verified"
    [] q.op = "assess" /\ q.verdict = "favourable" -> "risk_assessed"
    [] q.op = "decide" /\ q.verdict = "favourable" -> "approved"

(* Seeded fault: whoever created an application may decide on it. *)
AllowedToCreator(h) ==
  LET q == request[h]
      a == q.application
  IN  /\ Target(q) \in applicationTransitions[seen[h]]
      /\ q.op = "review" => known[h] = {}
      /\ q.op = "assess" => risk[a] = None
      /\ q.op = "decide" /\ q.verdict = "favourable" =>
           risk[a] = "approved" /\ loans[a] = None

(* Seeded fault: what was already decided can be declined. *)
AllowedToDecline(h) ==
  LET q == request[h]
      a == q.application
  IN  /\ q.verdict = "favourable" =>
           Target(q) \in applicationTransitions[seen[h]]
      /\ q.op = "review" => known[h] = {}
      /\ q.op = "assess" => risk[a] = None
      /\ q.op = "decide" => q.user # applications[a].form.createdBy
      /\ q.op = "decide" /\ q.verdict = "favourable" =>
           risk[a] = "approved" /\ loans[a] = None

(* What the handler insists on, the unique keys of risk_assessments and    *)
(* loans included.                                                         *)
Allowed(h) ==
  LET q == request[h]
      a == q.application
  IN  /\ Target(q) \in applicationTransitions[seen[h]]
      /\ q.op = "review" => known[h] = {}
      /\ q.op = "assess" => risk[a] = None
      /\ q.op = "decide" => q.user # applications[a].form.createdBy
      /\ q.op = "decide" /\ q.verdict = "favourable" =>
           risk[a] = "approved" /\ loans[a] = None

Forgotten(h) ==
  /\ request' = [request EXCEPT ![h] = None]
  /\ seen' = [seen EXCEPT ![h] = None]
  /\ known' = [known EXCEPT ![h] = {}]

(* Seeded fault: the lock of the client is one of the session. *)
ReleasedInPart(h) ==
  /\ pc' = [pc EXCEPT ![h] = "idle"]
  /\ lock' = [r \in Rows |->
       IF lock[r] = h /\ r \in Applications THEN None ELSE lock[r]]
  /\ Forgotten(h)

(* COMMIT and ROLLBACK release the locks, and the handler is gone. *)
Released(h) ==
  /\ pc' = [pc EXCEPT ![h] = "idle"]
  /\ lock' = [r \in Rows |-> IF lock[r] = h THEN None ELSE lock[r]]
  /\ Forgotten(h)

(* The status, its row in the timeline, COMMIT. *)
Advance(h, op) ==
  LET q == request[h]
      a == q.application
  IN  /\ pc[h] = "ready"
      /\ q.op = op
      /\ Allowed(h)
      /\ applications' = [applications EXCEPT ![a] =
           [form       |-> @.form,
            status     |-> Target(q),
            approvedBy |-> IF op = "decide" THEN q.user ELSE @.approvedBy]]
      /\ history' =
           [history EXCEPT ![a] = Append(@, <<seen[h], Target(q)>>)]
      /\ Released(h)

SubmitLoanApplication(h) ==
  /\ Advance(h, "submit")
  /\ UNCHANGED <<clients, kyc, risk, loans, disbursed>>

ReviewKyc(h) ==
  LET q == request[h]
  IN  /\ Advance(h, "review")
      /\ kyc' = kyc \cup
           {[client      |-> ClientOf(q.application),
             application |-> q.application,
             status      |-> IF q.verdict = "favourable"
                             THEN "verified" ELSE "rejected"]}
      /\ UNCHANGED <<clients, risk, loans, disbursed>>

AssessApplicationRisk(h) ==
  LET q == request[h]
  IN  /\ Advance(h, "assess")
      /\ risk' = [risk EXCEPT ![q.application] =
           IF q.verdict = "favourable" THEN "approved" ELSE "declined"]
      /\ UNCHANGED <<clients, kyc, loans, disbursed>>

(* decideApplication: an approval makes the loan and its schedule. *)
DecideApplication(h, today) ==
  LET q    == request[h]
      form == applications[q.application].form
  IN  /\ Advance(h, "decide")
      /\ loans' =
           IF q.verdict = "favourable"
           THEN [loans EXCEPT ![q.application] =
                   BuildRepaymentSchedule(form.requestedAmount, form.terms,
                                          today)]
           ELSE loans
      /\ UNCHANGED <<clients, kyc, risk, disbursed>>

(* A check throws, or the connection breaks at any point: ROLLBACK. *)
Refuse(h) ==
  /\ pc[h] = "ready" /\ ~Allowed(h)
  /\ Released(h)
  /\ UNCHANGED tables

Break(h) ==
  /\ pc[h] # "idle"
  /\ Released(h)
  /\ UNCHANGED tables

-----------------------------------------------------------------------------
(* disburseLoan locks the loan and writes a line into the timeline of its  *)
(* application, which stays approved: no application is ever "disbursed".  *)
(* The foreign key of that line waits for whoever holds the application.   *)
(* Only this takes a loan from approved: the status route does not.        *)
DisburseLoan(a) ==
  /\ loans[a] # None
  /\ a \notin disbursed
  /\ lock[a] = None
  /\ disbursed' = disbursed \cup {a}
  /\ history' = [history EXCEPT ![a] = Append(@, <<"approved", "disbursed">>)]
  /\ UNCHANGED <<clients, applications, kyc, risk, loans, lock, pc, reads>>

-----------------------------------------------------------------------------
Init ==
  /\ clients = {}
  /\ applications = [a \in Applications |-> None]
  /\ kyc = {}
  /\ risk = [a \in Applications |-> None]
  /\ loans = [a \in Applications |-> None]
  /\ disbursed = {}
  /\ history = [a \in Applications |-> <<>>]
  /\ lock = [r \in Rows |-> None]
  /\ pc = [h \in Handlers |-> "idle"]
  /\ request = [h \in Handlers |-> None]
  /\ seen = [h \in Handlers |-> None]
  /\ known = [h \in Handlers |-> {}]

Commit(h) ==
  \/ SubmitLoanApplication(h)
  \/ ReviewKyc(h)
  \/ AssessApplicationRisk(h)
  \/ \E today \in ApprovalDays : DecideApplication(h, today)

Next ==
  \/ \E c \in Clients : CreateClient(c)
  \/ \E a \in Applications, form \in Forms : CreateLoanApplication(a, form)
  \/ \E a \in Applications : DisburseLoan(a)
  \/ \E h \in Handlers :
       \/ \E q \in Requests : LockApplication(h, q)
       \/ LockClient(h)
       \/ ReadKyc(h)
       \/ Commit(h)
       \/ Refuse(h)
       \/ Break(h)

Spec == Init /\ [][Next]_vars

(* A request that may go on does.  PostgreSQL queues those who wait for a  *)
(* row, so that none is overtaken for ever.                                *)
FairSpec ==
  /\ Spec
  /\ \A h \in Handlers :
       /\ SF_vars(LockClient(h))
       /\ WF_vars(ReadKyc(h) \/ Commit(h) \/ Refuse(h))

-----------------------------------------------------------------------------
Transition ==
  (ApplicationStatus \cup {None}) \X (ApplicationStatus \cup {"disbursed"})

(* Every variable has its type; amounts due are naturals, as the CHECKs on *)
(* repayment_schedules demand.                                             *)
TypeOK ==
  /\ clients \subseteq Clients
  /\ applications \in [Applications -> Application \cup {None}]
  /\ kyc \subseteq [client : Clients, application : Applications,
                    status : {"verified", "rejected"}]
  /\ risk \in [Applications -> {"approved", "declined", None}]
  /\ DOMAIN loans = Applications
  /\ \A a \in Applications : loans[a] # None => loans[a] \in Seq(ScheduleRow)
  /\ disbursed \subseteq Applications
  /\ history \in [Applications -> Seq(Transition)]
  /\ lock \in [Rows -> Handlers \cup {None}]
  /\ pc \in [Handlers -> {"idle", "client", "kyc", "ready"}]
  /\ request \in [Handlers -> Requests \cup {None}]
  /\ seen \in [Handlers -> ApplicationStatus \cup {None}]
  /\ known \in [Handlers -> SUBSET {"verified", "rejected"}]

(* What a handler decides by is still so when it writes: the status of its *)
(* application and the KYC of its client, read in other statements.        *)
ReadsStayCurrent ==
  \A h \in Handlers :
    LET a == request[h].application
    IN  /\ pc[h] \in {"kyc", "ready"} => seen[h] = applications[a].status
        /\ pc[h] = "ready" /\ request[h].op = "review" =>
             known[h] = Verdicts(ClientOf(a))

(* A client is reviewed once: two reviews of two of its applications at    *)
(* the same time do not both give a verdict.                               *)
OneVerdict == \A k, r \in kyc : k.client = r.client => k = r

(* There is a loan exactly for what was approved, and only for a client    *)
(* verified in that very application, with an approved risk assessment and *)
(* a decision by somebody else than who created the application.           *)
Underwritten ==
  \A a \in Applications :
    /\ loans[a] # None <=> Existing(a) /\ applications[a].status = "approved"
    /\ loans[a] # None =>
         /\ [client |-> ClientOf(a), application |-> a,
             status |-> "verified"] \in kyc
         /\ risk[a] = "approved"
         /\ applications[a].approvedBy \in
              Users \ {applications[a].form.createdBy}

(* The lines of a timeline follow each other, from the draft to a state.   *)
timelineTransitions ==
  [applicationTransitions EXCEPT !.approved = {"disbursed"}]

Leads(steps, state) ==
  /\ steps # <<>> /\ steps[1] = <<None, "draft">>
  /\ steps[Len(steps)][2] = state
  /\ \A n \in 2..Len(steps) :
       /\ steps[n][1] = steps[n - 1][2]
       /\ steps[n][2] \in timelineTransitions[steps[n][1]]

(* The timeline of an application is a path from its draft over allowed    *)
(* transitions to the status it has, and over its approval to the          *)
(* disbursement exactly if disburseLoan disbursed its loan: the requests   *)
(* on the application and the one on its loan lock different rows and      *)
(* write into the same timeline.                                           *)
TimelineTellsStatus ==
  \A a \in Applications :
    /\ a \in disbursed =>
         /\ Existing(a) /\ applications[a].status = "approved"
         /\ Leads(history[a], "disbursed")
    /\ Existing(a) /\ a \notin disbursed =>
         Leads(history[a], applications[a].status)

(* A loan is repaid by its schedule: the installments add up to its        *)
(* principal and its interest, each falls due after the one before, and    *)
(* none asks for less than an earlier one.                                 *)
Repays(schedule, form) ==
  /\ Len(schedule) = form.terms.installments
  /\ Total([i \in 1..Len(schedule) |-> schedule[i].principalDue])
       = form.requestedAmount
  /\ Total([i \in 1..Len(schedule) |-> schedule[i].interestDue])
       = TotalInterest(form.requestedAmount, form.terms)
  /\ \A i, j \in 1..Len(schedule) : i < j =>
       /\ Before(schedule[i].dueOn, schedule[j].dueOn)
       /\ schedule[i].principalDue <= schedule[j].principalDue
       /\ schedule[i].interestDue <= schedule[j].interestDue

SchedulesRepay ==
  \A a \in Applications :
    loans[a] # None => Repays(loans[a], applications[a].form)

(* Every request is answered: two of them never wait for each other.       *)
RequestsEnd == \A h \in Handlers : pc[h] # "idle" ~> pc[h] = "idle"

-----------------------------------------------------------------------------
(* The promise these tables keep. *)

Lent(schedule) == Total([i \in 1..Len(schedule) |-> schedule[i].principalDue])

FormOf     == [a \in Applications |->
                 IF Existing(a) THEN applications[a].form ELSE None]
StageOf    == [a \in Applications |->
                 IF Existing(a) THEN applications[a].status ELSE "none"]
VerdictsOf == [c \in Clients |-> Verdicts(c)]
ApproverOf == [a \in Applications |->
                 IF Existing(a) /\ applications[a].status = "approved"
                 THEN applications[a].approvedBy ELSE None]
LentOn     == [a \in Applications |->
                 IF loans[a] = None THEN 0 ELSE Lent(loans[a])]

Promise == INSTANCE Underwriting
  WITH form <- FormOf, stage <- StageOf, verdicts <- VerdictsOf,
       approver <- ApproverOf, lent <- LentOn

(* Requests that read and write in several statements, side by side, come  *)
(* to the same as requests served one at a time: each client reviewed      *)
(* once, each application lent on once, the amount it asked for.           *)
ImplementsUnderwriting == Promise!Spec
=============================================================================
