--------------------- MODULE CollectorAssignmentsProofs ---------------------
(***************************************************************************)
(* When a client has one collector.  The service takes any dates, and then *)
(* it need not be so; the screen for assignments (AssignmentManager.tsx)   *)
(* sends none: what it asks for begins today and what it ends, ended       *)
(* yesterday.  Used like that, the service keeps what it says.             *)
(***************************************************************************)
EXTENDS CollectorAssignments, TLAPS

(* Managers never plan ahead: what they create begins by today, and what   *)
(* they end, ends by today.                                                *)
PromptNext ==
  \/ NextDay
  \/ \E o \in Officers, c \in Clients, route \in Routes, from \in Days :
       from <= today /\ CreateAssignment(o, c, route, from)
  \/ \E a \in assignments :
       \/ \E to \in Days \cup {today - 1} : to <= today /\ EndAssignment(a, to)
       \/ \E route \in Routes : UpdateRouteCode(a, route)

PromptSpec == Init /\ [][PromptNext]_vars

(* From tomorrow on a client has at most one collector; today it may have  *)
(* two, if both were assigned today.                                       *)
OneFromTomorrow ==
  \A a, b \in assignments : \A day \in Nat :
    a.client = b.client /\ day > today /\ Active(a, day) /\ Active(b, day) => a = b

(* Goes on after today, which is either for good or up to a day to come.   *)
Ahead(a, day) == a.to = Never \/ a.to > day

Row ==
  [officer : Officers, client : Clients, route : Routes, from : Int,
   to : Int \cup {Never}]

(* Nothing lies in the future, and of a client's assignments one goes on.  *)
PromptInv ==
  /\ today \in Nat
  /\ \A a \in assignments : a \in Row /\ a.from <= today
  /\ \A a, b \in assignments :
       a.client = b.client /\ Ahead(a, today) /\ Ahead(b, today) => a = b

LEMMA CreateKeepsPrompt ==
  ASSUME Never \notin Int, LastDay \in Nat, PromptInv,
         NEW o \in Officers, NEW c \in Clients, NEW route \in Routes,
         NEW from \in Days, from <= today, CreateAssignment(o, c, route, from)
  PROVE  PromptInv'
PROOF
<1> DEFINE previous == {a \in assignments : a.client = c /\ Active(a, today)}
           new == [officer |-> o, client |-> c, route |-> route, from |-> from,
                   to |-> Never]
<1>1. /\ today' = today /\ today \in Nat /\ from \in Int
      /\ assignments' = (assignments \ previous)
                          \cup {Ended(a, from) : a \in previous} \cup {new}
  BY DEF CreateAssignment, PromptInv, Days
<1>2. /\ new.client = c /\ new.from = from /\ new.to = Never
      /\ new \in Row
  BY <1>1 DEF Row
<1>3. \A a \in assignments : a \in Row /\ a.from <= today
  BY DEF PromptInv
<1>4. ASSUME NEW a \in previous
      PROVE  /\ Ended(a, from) \in Row /\ Ended(a, from).from = a.from
             /\ a.from <= today /\ ~ Ahead(Ended(a, from), today)
  <2>1. a \in Row /\ a.from \in Int /\ a.from <= today
    BY <1>3 DEF Row
  <2>2. Later(a.from, from - 1) \in Int /\ Later(a.from, from - 1) <= today
    BY <1>1, <2>1 DEF Later
  <2>3. /\ Ended(a, from) \in Row
        /\ Ended(a, from).from = a.from
        /\ Ended(a, from).to = Later(a.from, from - 1)
    BY <2>1, <2>2 DEF Row, Ended
  <2> QED
    BY <1>1, <2>1, <2>2, <2>3 DEF Ahead
<1>5. ASSUME NEW a \in assignments, a \notin previous, a.client = c
      PROVE  ~ Ahead(a, today)
  BY <1>1, <1>3, <1>5 DEF Active, Ahead, Row
<1> HIDE DEF previous, new
<1>6. \A a \in assignments' : a \in Row /\ a.from <= today
  BY <1>1, <1>2, <1>3, <1>4
<1>7. ASSUME NEW a \in assignments', NEW b \in assignments',
             a.client = b.client, Ahead(a, today), Ahead(b, today)
      PROVE  a = b
  <2>1. /\ a = new \/ (a \in assignments /\ a \notin previous)
        /\ b = new \/ (b \in assignments /\ b \notin previous)
    BY <1>1, <1>4, <1>7
  <2> QED
    BY <1>2, <1>5, <1>7, <2>1 DEF PromptInv
<1> QED
  BY <1>1, <1>6, <1>7 DEF PromptInv

LEMMA EndKeepsPrompt ==
  ASSUME Never \notin Int, LastDay \in Nat, PromptInv,
         NEW a \in assignments, NEW to \in Days \cup {today - 1},
         to <= today, EndAssignment(a, to)
  PROVE  PromptInv'
PROOF
<1> DEFINE ended == [a EXCEPT !.to = to]
<1>1. /\ today' = today /\ today \in Nat /\ to \in Int
      /\ assignments' = (assignments \ {a}) \cup {ended}
  BY DEF EndAssignment, PromptInv, Days
<1>2. /\ ended \in Row /\ ended.from <= today /\ ended.to = to
  <2>1. a \in Row /\ a.from <= today
    BY DEF PromptInv
  <2> QED
    BY <1>1, <2>1 DEF Row
<1>3. ~ Ahead(ended, today)
  BY <1>1, <1>2 DEF Ahead
<1> HIDE DEF ended
<1>4. \A b \in assignments' : b \in Row /\ b.from <= today
  BY <1>1, <1>2 DEF PromptInv
<1>5. \A b \in assignments' : Ahead(b, today) => b \in assignments
  BY <1>1, <1>3
<1> QED
  BY <1>1, <1>4, <1>5 DEF PromptInv

LEMMA RerouteKeepsPrompt ==
  ASSUME PromptInv, NEW a \in assignments, NEW route \in Routes,
         UpdateRouteCode(a, route)
  PROVE  PromptInv'
PROOF
<1> DEFINE moved == [a EXCEPT !.route = route]
<1>1. /\ today' = today /\ today \in Nat
      /\ assignments' = (assignments \ {a}) \cup {moved}
  BY DEF UpdateRouteCode, PromptInv
<1>2. /\ moved \in Row /\ moved.from <= today
      /\ moved.to = a.to /\ moved.client = a.client
  <2>1. a \in Row /\ a.from <= today
    BY DEF PromptInv
  <2> QED
    BY <2>1 DEF Row
<1> HIDE DEF moved
<1>3. \A b \in assignments' : b \in Row /\ b.from <= today
  BY <1>1, <1>2 DEF PromptInv
<1>4. ASSUME NEW b \in assignments', NEW d \in assignments',
             b.client = d.client, Ahead(b, today), Ahead(d, today)
      PROVE  b = d
  <2>1. CASE b = moved /\ d # moved
    <3>1. d \in assignments /\ d # a
      BY <1>1, <2>1
    <3> QED
      BY <1>2, <1>4, <2>1, <3>1 DEF PromptInv, Ahead
  <2>2. CASE b # moved /\ d = moved
    <3>1. b \in assignments /\ b # a
      BY <1>1, <2>2
    <3> QED
      BY <1>2, <1>4, <2>2, <3>1 DEF PromptInv, Ahead
  <2>3. CASE b # moved /\ d # moved
    BY <1>1, <1>4, <2>3 DEF PromptInv
  <2> QED
    BY <2>1, <2>2, <2>3
<1> QED
  BY <1>1, <1>3, <1>4 DEF PromptInv

LEMMA StepPrompt ==
  ASSUME Never \notin Int, LastDay \in Nat, PromptInv, [PromptNext]_vars
  PROVE  PromptInv'
PROOF
<1>1. ASSUME NextDay
      PROVE  PromptInv'
  <2>1. today' = today + 1 /\ today \in Nat /\ assignments' = assignments
    BY <1>1 DEF NextDay, PromptInv
  <2>2. \A a \in assignments : a \in Row /\ a.from <= today
    BY DEF PromptInv
  <2>3. \A a \in assignments : a.from <= today + 1
    BY <2>1, <2>2 DEF Row
  <2>4. ASSUME NEW a \in assignments, Ahead(a, today + 1)
        PROVE  Ahead(a, today)
    BY <2>1, <2>2, <2>4 DEF Row, Ahead
  <2> QED
    BY <2>1, <2>2, <2>3, <2>4 DEF PromptInv
<1>2. ASSUME NEW o \in Officers, NEW c \in Clients, NEW route \in Routes,
             NEW from \in Days, from <= today, CreateAssignment(o, c, route, from)
      PROVE  PromptInv'
  BY <1>2, CreateKeepsPrompt
<1>3. ASSUME NEW a \in assignments, NEW to \in Days \cup {today - 1},
             to <= today, EndAssignment(a, to)
      PROVE  PromptInv'
  BY <1>3, EndKeepsPrompt
<1>4. ASSUME NEW a \in assignments, NEW route \in Routes, UpdateRouteCode(a, route)
      PROVE  PromptInv'
  BY <1>4, RerouteKeepsPrompt
<1>5. UNCHANGED vars => PromptInv'
  BY DEF vars, PromptInv
<1> QED
  BY <1>1, <1>2, <1>3, <1>4, <1>5 DEF PromptNext

(* As long as nobody plans ahead, a client's collector of tomorrow is      *)
(* settled today, however often assignments are created, ended, ended      *)
(* again from a list that is out of date, or re-routed: what               *)
(* OneOpenAssignment asks, which fails only for dates to come.             *)
THEOREM PromptOneCollector ==
  ASSUME Never \notin Int, LastDay \in Nat
  PROVE  PromptSpec => [](OneFromTomorrow /\ OneOpenAssignment)
PROOF
<1>1. Init => PromptInv
  BY DEF Init, PromptInv
<1>2. PromptInv /\ [PromptNext]_vars => PromptInv'
  BY StepPrompt
<1>3. PromptInv => OneFromTomorrow /\ OneOpenAssignment
  <2> SUFFICES ASSUME PromptInv PROVE OneFromTomorrow /\ OneOpenAssignment
    OBVIOUS
  <2>1. OneOpenAssignment
    BY DEF PromptInv, OneOpenAssignment, Ahead
  <2>2. ASSUME NEW a \in assignments, NEW day \in Nat, day > today, Active(a, day)
        PROVE  Ahead(a, today)
    <3>1. a \in Row /\ today \in Nat
      BY DEF PromptInv
    <3> QED
      BY <2>2, <3>1 DEF Row, Active, Ahead
  <2>3. OneFromTomorrow
    BY <2>2 DEF PromptInv, OneFromTomorrow
  <2> QED
    BY <2>1, <2>3
<1> QED
  BY <1>1, <1>2, <1>3, PTL DEF PromptSpec
=============================================================================
