------------------------ MODULE CollectorAssignments ------------------------
(***************************************************************************)
(* Who collects from which client and when (collector-assignments.ts).  An *)
(* assignment is valid from one day to another or for good; managers       *)
(* create, end and re-route them.  Every operation holds the client's row  *)
(* or the assignment's until it commits, so that operations on one client  *)
(* follow each other.  Officers and clients are those of one branch, which *)
(* the service insists on.                                                 *)
(***************************************************************************)
EXTENDS Integers, FiniteSets

CONSTANTS
  Officers, \* active collectors and officers
  Clients,
  Routes,   \* route codes
  LastDay,  \* bounds the days
  Never     \* the end of an assignment that has none

Days == 0..LastDay

VARIABLES
  today,      \* CURRENT_DATE
  assignments \* collector_assignments

vars == <<today, assignments>>

Assignment ==
  [officer : Officers, client : Clients, route : Routes, from : Days,
   to : Days \cup {Never}]

Active(a, day) == a.from <= day /\ (a.to = Never \/ a.to >= day)

Key(a) == <<a.officer, a.client, a.route, a.from>>

Later(d, e) == IF d > e THEN d ELSE e

(* createAssignment ends what is active today the day before the new one   *)
(* begins, but not before its own start; its own end, if it has one, does  *)
(* not matter.  A collision with the unique key undoes all of it.          *)
Ended(a, from) == [a EXCEPT !.to = Later(a.from, from - 1)]

CreateAssignment(o, c, route, from) ==
  LET previous == {a \in assignments : a.client = c /\ Active(a, today)}
      new      == [officer |-> o, client |-> c, route |-> route, from |-> from,
                   to |-> Never]
  IN  /\ \A a \in assignments : Key(a) # Key(new)
      /\ assignments' = (assignments \ previous)
                          \cup {Ended(a, from) : a \in previous} \cup {new}
      /\ UNCHANGED today

(* endAssignment takes the day it is given, or yesterday.  The clamp to    *)
(* the assignment's own start compares a Date with a string, which is      *)
(* never true; the WHERE clause then refuses what ends before its start.   *)
EndAssignment(a, to) ==
  /\ a.from <= to
  /\ assignments' = (assignments \ {a}) \cup {[a EXCEPT !.to = to]}
  /\ UNCHANGED today

UpdateRouteCode(a, route) ==
  LET moved == [a EXCEPT !.route = route]
  IN  /\ \A b \in assignments \ {a} : Key(b) # Key(moved)
      /\ assignments' = (assignments \ {a}) \cup {moved}
      /\ UNCHANGED today

NextDay ==
  /\ today < LastDay
  /\ today' = today + 1
  /\ UNCHANGED assignments

Init == today = 0 /\ assignments = {}

Next ==
  \/ NextDay
  \/ \E o \in Officers, c \in Clients, route \in Routes, from \in Days :
       CreateAssignment(o, c, route, from)
  \/ \E a \in assignments :
       \/ \E to \in Days \cup {today - 1} : EndAssignment(a, to)
       \/ \E route \in Routes : UpdateRouteCode(a, route)

Spec == Init /\ [][Next]_vars

(* "A client should have exactly one active collector at a time": creating *)
(* an assignment ends what is active, so that when the later of two        *)
(* officers' assignments has begun, not both go on for good.  Two officers *)
(* who are assigned on one day may share that day, the comment grants it.  *)
OneOpenAssignment ==
  \A a, b \in assignments :
    ~ /\ a.client = b.client /\ a.officer # b.officer
      /\ a.from < b.from /\ b.from <= today
      /\ a.to = Never /\ b.to = Never
=============================================================================
