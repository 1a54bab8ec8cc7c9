------------------------- MODULE OfflineQueueProofs -------------------------
(***************************************************************************)
(* What a collector's device shows is true of the server, for any records, *)
(* users and number of events from outside: a posted collection was        *)
(* posted, none is taken back by another pass, and none is left behind as  *)
(* Syncing without a pass having lost its storage or its page at it.       *)
(***************************************************************************)
EXTENDS OfflineQueue, TLAPS

-----------------------------------------------------------------------------
(* The four storages of two users are cells of one table. *)

Kinds == {"indexed", "fallback"}

At(n, kind, r) == IF kind = "indexed" THEN indexed[n][r] ELSE fallback[n][r]

(* The kind of storage that is open now. *)
Kind == IF database THEN "indexed" ELSE "fallback"

(* The queue is one of the cells. *)
LEMMA ViewIsAt ==
  ASSUME NEW r \in Records
  PROVE  View[r] = At(session, Kind, r) /\ Kind \in Kinds
PROOF
  BY DEF View, At, Kind, Kinds

(* What a cell holds has its type. *)
LEMMA AtType ==
  ASSUME TypeOK, NEW n \in Namespaces, NEW kind \in Kinds, NEW r \in Records
  PROVE  At(n, kind, r) \in Statuses \cup {None}
PROOF
  BY DEF TypeOK, At, Kinds

(* Copies are what the cells hold. *)
LEMMA CopiesAt ==
  ASSUME NEW status
  PROVE  Copies(status) = {r \in Records : \E n \in Namespaces, kind \in Kinds :
                             At(n, kind, r) = status}
PROOF
  BY DEF Copies, At, Kinds

LEMMA CopiesAtNext ==
  ASSUME NEW status
  PROVE  Copies(status)' = {r \in Records : \E n \in Namespaces, kind \in Kinds :
                              At(n, kind, r)' = status}
PROOF
  BY DEF Copies, At, Kinds

(* A write changes the open cell of its record and nothing else. *)
Written(r, status) ==
  \A n \in Namespaces, kind \in Kinds, q \in Records :
    /\ n = session /\ kind = Kind /\ q = r => At(n, kind, q)' = status
    /\ ~ (n = session /\ kind = Kind /\ q = r) => At(n, kind, q)' = At(n, kind, q)

LEMMA AppendWrites ==
  ASSUME TypeOK, NEW r \in Records, NEW status \in Statuses, Append(r, status)
  PROVE  /\ indexed' \in [Namespaces -> [Records -> Statuses \cup {None}]]
         /\ fallback' \in [Namespaces -> [Records -> Statuses \cup {None}]]
         /\ supported' = supported
         /\ Written(r, status)
PROOF
<1>0. supported' = supported
  BY DEF Append
<1>1. /\ indexed \in [Namespaces -> [Records -> Statuses \cup {None}]]
      /\ fallback \in [Namespaces -> [Records -> Statuses \cup {None}]]
      /\ session \in Namespaces
  BY DEF TypeOK
<1>2. CASE database
  BY <1>1, <1>2 DEF Append, Written, At, Kind, Kinds
<1>3. CASE ~ database
  <2>1. /\ fallback' = [fallback EXCEPT ![session][r] = status]
        /\ indexed' = indexed
    BY <1>3 DEF Append
  <2> QED
    BY <1>0, <1>1, <1>3, <2>1 DEF Written, At, Kind, Kinds
<1> QED
  BY <1>0, <1>2, <1>3

(* What no write touches stays. *)
LEMMA DeviceStays ==
  ASSUME UNCHANGED device
  PROVE  /\ indexed' = indexed /\ fallback' = fallback
         /\ \A n, kind, r : At(n, kind, r)' = At(n, kind, r)
PROOF
  BY DEF device, At

-----------------------------------------------------------------------------
(* Types. *)

(* The part of TypeOK about the pass. *)
PassType ==
  /\ pc \in {"idle", "next", "look", "put", "notify", "call", "wait", "answered"}
  /\ todo \subseteq Records /\ current \in Records \cup {None}
  /\ mark \in Statuses \cup {None} /\ sender \in Users \cup {None}
  /\ (current = None <=> pc \in {"idle", "next"})
  /\ (mark = None <=> pc \in {"idle", "next"})
  /\ (pc = "call" => mark = "Syncing")
  /\ (pc \in {"wait", "answered"} => sender # None)

(* The part about the server, the page and what came from outside. *)
RestType ==
  /\ postedBy \in [Records -> Users \cup {None}]
  /\ late \subseteq Records \X Users
  /\ session \in Namespaces /\ database \in BOOLEAN /\ opens \subseteq Namespaces
  /\ startup \in Namespaces \cup {"opening", "done", "failed"}
  /\ retries \subseteq Namespaces /\ online \in BOOLEAN /\ listening \in BOOLEAN
  /\ cut \subseteq Records /\ events \in 0..MaxEvents

DeviceType ==
  /\ supported \in BOOLEAN
  /\ indexed \in [Namespaces -> [Records -> Statuses \cup {None}]]
  /\ fallback \in [Namespaces -> [Records -> Statuses \cup {None}]]

LEMMA TypeParts == TypeOK <=> DeviceType /\ PassType /\ RestType
PROOF
  BY DEF TypeOK, DeviceType, PassType, RestType

LEMMA TypePartsNext == TypeOK' <=> DeviceType' /\ PassType' /\ RestType'
PROOF
  BY DEF TypeOK, DeviceType, PassType, RestType

(* A pass that begins or ends, or is left alone, keeps its type. *)
LEMMA PassControl ==
  ASSUME PassType,
         \/ BeginPass /\ pc \in {"idle", "next"}
         \/ EndPass
         \/ ProcessQueued
         \/ UNCHANGED pass
  PROVE  PassType'
PROOF
<1>1. CASE BeginPass /\ pc \in {"idle", "next"}
  BY <1>1 DEF PassType, BeginPass
<1>2. CASE EndPass
  BY <1>2 DEF PassType, EndPass
<1>3. CASE UNCHANGED pass
  BY <1>3 DEF PassType, pass
<1>4. CASE ProcessQueued
  BY <1>1, <1>3, <1>4 DEF ProcessQueued
<1> QED
  BY <1>1, <1>2, <1>3, <1>4

(* A throw ends the pass or puts its record back in the queue. *)
LEMMA ThrowType ==
  ASSUME PassType, pc \notin {"idle", "next"}, Throw
  PROVE  PassType'
PROOF
<1>1. CASE EndPass
  BY <1>1, PassControl
<1>2. CASE ~ EndPass
  BY <1>2, QueueAssumption DEF PassType, Throw, Statuses
<1> QED
  BY <1>1, <1>2

LEMMA DisturbedType ==
  ASSUME cut \subseteq Records, current \in Records \cup {None}, Disturbed
  PROVE  cut' \subseteq Records
PROOF
  BY DEF Disturbed

LEMMA FromOutsideType ==
  ASSUME events \in 0..MaxEvents, FromOutside
  PROVE  events' \in 0..MaxEvents
PROOF
  BY QueueAssumption DEF FromOutside

(* What the server answers and what becomes of the record. *)
LEMMA AnswerType ==
  ASSUME NEW r \in Records, NEW u \in Users, NEW answer \in Answers(r, u),
         postedBy \in [Records -> Users \cup {None}]
  PROVE  /\ PostedAfter(r, u, answer) \in [Records -> Users \cup {None}]
         /\ StatusOf(answer) \in {"Posted", "Needs review", "Rejected", "Queued"}
         /\ \A q \in Records : postedBy[q] # None => PostedAfter(r, u, answer)[q] # None
         /\ StatusOf(answer) \in {"Posted", "Needs review"} =>
              PostedAfter(r, u, answer)[r] # None
PROOF
<1>1. answer \in {"ok", "refused", "failed", "conflict"}
  BY DEF Answers
<1>2. StatusOf(answer) \in {"Posted", "Needs review", "Rejected", "Queued"}
  BY <1>1 DEF StatusOf
<1>3. u # None
  BY QueueAssumption DEF Namespaces
<1>4. CASE answer = "ok"
  BY <1>2, <1>3, <1>4 DEF PostedAfter
<1>5. CASE answer # "ok"
  <2>1. StatusOf(answer) = "Posted" => FALSE
    BY <1>1, <1>5 DEF StatusOf
  <2>2. StatusOf(answer) = "Needs review" => answer = "conflict"
    BY <1>1, <1>5 DEF StatusOf
  <2>3. answer = "conflict" => postedBy[r] # None
    BY DEF Answers
  <2> QED
    BY <1>2, <1>5, <2>1, <2>2, <2>3 DEF PostedAfter
<1> QED
  BY <1>4, <1>5

(* A step leaves every variable its type. *)
LEMMA InitType == Init => TypeOK
PROOF
<1> SUFFICES ASSUME Init PROVE TypeOK
  OBVIOUS
<1>1. DeviceType
  BY DEF Init, DeviceType
<1>2. PassType
  BY DEF Init, PassType
<1>3. events = 0 /\ 0 \in 0..MaxEvents
  BY QueueAssumption DEF Init
<1>4. RestType
  BY <1>3 DEF Init, RestType, Namespaces
<1> QED
  BY <1>1, <1>2, <1>4, TypeParts

LEMMA StepType == TypeOK /\ [Next]_vars => TypeOK'
PROOF
<1> SUFFICES ASSUME TypeOK, [Next]_vars PROVE TypeOK'
  OBVIOUS
<1>a. DeviceType /\ PassType /\ RestType
  BY TypeParts
<1> USE <1>a
<1>1. ASSUME NEW r \in Records, Enqueue(r) PROVE TypeOK'
  <2>1. Append(r, "Queued") /\ UNCHANGED <<server, page, pass, cut, events>>
    BY <1>1 DEF Enqueue
  <2>2. DeviceType'
    BY <2>1, AppendWrites DEF DeviceType, Statuses
  <2>3. PassType'
    BY <2>1, PassControl
  <2>4. RestType'
    BY <2>1 DEF RestType, server, page
  <2> QED
    BY <2>2, <2>3, <2>4, TypePartsNext
<1>2. CASE Finish
  BY <1>2, PassControl, TypePartsNext
     DEF Finish, DeviceType, RestType, device, server, page
<1>3. ASSUME NEW r \in Records, NextRecord(r) PROVE TypeOK'
  <2>1. DeviceType' /\ RestType'
    BY <1>3 DEF NextRecord, DeviceType, RestType, device, server, page
  <2>2. PassType'
    BY <1>3, QueueAssumption DEF NextRecord, PassType, Statuses
  <2> QED
    BY <2>1, <2>2, TypePartsNext
<1>4. CASE Look
  <2>1. DeviceType' /\ UNCHANGED <<server, page, events>>
    BY <1>4 DEF Look, DeviceType, device
  <2>2. CASE Throw /\ Disturbed
    <3>1. PassType'
      BY <1>4, <2>2, ThrowType DEF Look
    <3>2. RestType'
      BY <2>1, <2>2, DisturbedType DEF RestType, PassType, server, page
    <3> QED
      BY <2>1, <3>1, <3>2, TypePartsNext
  <2>3. CASE pc' = "put" /\ UNCHANGED <<todo, current, mark, sender, cut>>
    <3>1. PassType'
      BY <1>4, <2>3 DEF Look, PassType
    <3>2. RestType'
      BY <2>1, <2>3 DEF RestType, server, page
    <3> QED
      BY <2>1, <3>1, <3>2, TypePartsNext
  <2> QED
    BY <1>4, <2>2, <2>3 DEF Look
<1>5. CASE Put
  <2>1. current \in Records /\ mark \in Statuses
    BY <1>5 DEF Put, PassType
  <2>2. DeviceType'
    BY <1>5, <2>1, AppendWrites DEF Put, DeviceType
  <2>3. PassType' /\ RestType'
    BY <1>5 DEF Put, PassType, RestType, server, page
  <2> QED
    BY <2>2, <2>3, TypePartsNext
<1>6. CASE Notify
  <2>1. DeviceType' /\ RestType'
    BY <1>6 DEF Notify, DeviceType, RestType, device, server, page
  <2>2. PassType'
    BY <1>6, QueueAssumption DEF Notify, PassType, Statuses
  <2> QED
    BY <2>1, <2>2, TypePartsNext
<1>7. CASE StorageFails
  <2>1. DeviceType'
    BY <1>7 DEF StorageFails, DeviceType, device
  <2>2. PassType'
    BY <1>7, ThrowType DEF StorageFails
  <2>3. RestType'
    BY <1>7, DisturbedType, FromOutsideType
       DEF StorageFails, RestType, PassType, server, page
  <2> QED
    BY <2>1, <2>2, <2>3, TypePartsNext
<1>8. CASE Call
  <2>1. DeviceType' /\ RestType'
    BY <1>8 DEF Call, DeviceType, RestType, device, server, page
  <2>2. PassType'
    BY <1>8, QueueAssumption DEF Call, PassType, Statuses, Namespaces
  <2> QED
    BY <2>1, <2>2, TypePartsNext
<1>9. CASE Serve
  <2>1. current \in Records /\ sender \in Users
    BY <1>9 DEF Serve, PassType
  <2>2. PICK answer \in Answers(current, sender) :
          /\ postedBy' = PostedAfter(current, sender, answer)
          /\ mark' = StatusOf(answer)
    BY <1>9 DEF Serve
  <2>3. /\ postedBy' \in [Records -> Users \cup {None}]
        /\ mark' \in {"Posted", "Needs review", "Rejected", "Queued"}
    BY <2>1, <2>2, AnswerType DEF RestType
  <2>4. DeviceType' /\ RestType'
    BY <1>9, <2>3 DEF Serve, DeviceType, RestType, device, page
  <2>5. PassType'
    BY <1>9, <2>3, QueueAssumption DEF Serve, PassType, Statuses
  <2> QED
    BY <2>4, <2>5, TypePartsNext
<1>10. CASE Lose
  <2>1. DeviceType'
    BY <1>10 DEF Lose, DeviceType, device
  <2>2. pc = "wait" => current \in Records /\ sender \in Users
    BY DEF PassType
  <2>3. late' \subseteq Records \X Users
    BY <1>10, <2>2 DEF Lose, Abandon, RestType
  <2>4. RestType'
    BY <1>10, <2>3, FromOutsideType DEF Lose, RestType, page
  <2>5. StatusOf("failed") = "Queued"
    BY DEF StatusOf
  <2>6. PassType'
    BY <1>10, <2>5, QueueAssumption DEF Lose, PassType, Statuses
  <2> QED
    BY <2>1, <2>4, <2>6, TypePartsNext
<1>11. ASSUME NEW r \in Records, NEW u \in Users, LateRequest(r, u) PROVE TypeOK'
  <2>1. PICK answer \in Answers(r, u) : postedBy' = PostedAfter(r, u, answer)
    BY <1>11 DEF LateRequest
  <2>2. postedBy' \in [Records -> Users \cup {None}]
    BY <2>1, AnswerType DEF RestType
  <2>3. RestType'
    BY <1>11, <2>2 DEF LateRequest, RestType, page
  <2>4. DeviceType' /\ PassType'
    BY <1>11, PassControl DEF LateRequest, DeviceType, device
  <2> QED
    BY <2>3, <2>4, TypePartsNext
<1>12. CASE PageStep
  <2>1. DeviceType'
    BY <1>12 DEF PageStep, CallStart, Start, CallRetry, GoOffline, GoOnline, Reload,
       BindUser, Opened, OpenFails, Retry, DeviceType, device
  <2>2. CASE CallStart \/ Start
    <3>1. PassType'
      BY <2>2, PassControl DEF CallStart, Start, Listen, pass
    <3>2. RestType'
      BY <2>2 DEF CallStart, Start, Listen, RestType, server
    <3> QED
      BY <2>1, <3>1, <3>2, TypePartsNext
  <2>3. CASE CallRetry \/ (\E n \in Namespaces : Retry(n))
    <3>1. PassType'
      BY <2>3, PassControl DEF CallRetry, Retry
    <3>2. RestType'
      BY <2>3 DEF CallRetry, Retry, RestType, server
    <3> QED
      BY <2>1, <3>1, <3>2, TypePartsNext
  <2>4. CASE GoOffline
    BY <2>1, <2>4, PassControl, FromOutsideType, TypePartsNext
       DEF GoOffline, RestType, server
  <2>5. CASE GoOnline
    <3>1. PassType'
      BY <2>5, PassControl DEF GoOnline
    <3>2. RestType'
      BY <2>5 DEF GoOnline, RestType, server
    <3> QED
      BY <2>1, <3>1, <3>2, TypePartsNext
  <2>6. CASE Reload
    <3>1. PassType'
      BY <2>6, PassControl DEF Reload
    <3>2. pc = "wait" => current \in Records /\ sender \in Users
      BY DEF PassType
    <3>3. late' \subseteq Records \X Users
      BY <2>6, <3>2 DEF Reload, Abandon, RestType
    <3>4. cut' \subseteq Records
      BY <2>6, DisturbedType DEF Reload, RestType, PassType
    <3>5. RestType'
      BY <2>6, <3>3, <3>4, FromOutsideType DEF Reload, RestType, Namespaces
    <3> QED
      BY <2>1, <3>1, <3>5, TypePartsNext
  <2>7. ASSUME NEW n \in Namespaces, BindUser(n) PROVE TypeOK'
    <3>1. PassType'
      BY <2>7, PassControl DEF BindUser
    <3>2. cut' \subseteq Records
      BY <2>7, DisturbedType DEF BindUser, RestType, PassType
    <3>3. RestType'
      BY <2>7, <3>2, FromOutsideType DEF BindUser, RestType, server
    <3> QED
      BY <2>1, <3>1, <3>3, TypePartsNext
  <2>8. ASSUME NEW n \in Namespaces, Opened(n) PROVE TypeOK'
    <3>1. PassType'
      BY <2>8, PassControl DEF Opened
    <3>2. cut' \subseteq Records
      BY <2>8, DisturbedType DEF Opened, RestType, PassType
    <3>3. RestType'
      BY <2>8, <3>2 DEF Opened, RestType, server
    <3> QED
      BY <2>1, <3>1, <3>3, TypePartsNext
  <2>9. ASSUME NEW n \in Namespaces, OpenFails(n) PROVE TypeOK'
    <3>1. PassType'
      BY <2>9, PassControl DEF OpenFails
    <3>2. RestType'
      BY <2>9, FromOutsideType DEF OpenFails, RestType, server
    <3> QED
      BY <2>1, <3>1, <3>2, TypePartsNext
  <2> QED
    BY <1>12, <2>2, <2>3, <2>4, <2>5, <2>6, <2>7, <2>8, <2>9 DEF PageStep
<1>13. CASE UNCHANGED vars
  BY <1>13 DEF vars, TypeOK, device, server, page, pass
<1> QED
  BY <1>1, <1>2, <1>3, <1>4, <1>5, <1>6, <1>7, <1>8, <1>9, <1>10, <1>11, <1>12, <1>13
     DEF Next, PassStep

(* Every variable keeps its type, whatever is lost, late or failing. *)
THEOREM QueueTyped == Spec => []TypeOK
PROOF
  BY InitType, StepType, PTL DEF Spec

-----------------------------------------------------------------------------
(* What changes what. *)

(* The storages change when the form records something and when a pass     *)
(* stores a status; everything else only reads them.                       *)
LEMMA DeviceChanges ==
  ASSUME [Next]_vars
  PROVE  UNCHANGED device \/ Put \/ \E r \in Records : Enqueue(r)
PROOF
<1>1. CASE PassStep
  BY <1>1 DEF PassStep, Finish, NextRecord, Look, Notify, StorageFails, Call, Serve, Lose
<1>2. CASE PageStep
  BY <1>2 DEF PageStep, CallStart, Start, CallRetry, GoOffline, GoOnline, Reload,
     BindUser, Opened, OpenFails, Retry
<1>3. CASE \E r \in Records, u \in Users : LateRequest(r, u)
  BY <1>3 DEF LateRequest
<1>4. CASE UNCHANGED vars
  BY <1>4 DEF vars
<1> QED
  BY <1>1, <1>2, <1>3, <1>4 DEF Next

(* A pass sets its mark to what an answer says in one place only. *)
LEMMA MarkChanges ==
  ASSUME [Next]_vars, TypeOK
  PROVE  \/ UNCHANGED <<mark, current>>
         \/ mark' \in {"Syncing", "Queued", None}
         \/ Serve
PROOF
<1>1. CASE PassStep
  <2>1. Throw => UNCHANGED <<mark, current>> \/ mark' \in {"Queued", None}
    BY DEF Throw, EndPass
  <2>2. Look \/ StorageFails => UNCHANGED <<mark, current>> \/ Throw
    BY DEF Look, StorageFails
  <2>3. StatusOf("failed") = "Queued"
    BY DEF StatusOf
  <2> QED
    BY <1>1, <2>1, <2>2, <2>3 DEF PassStep, Finish, EndPass, NextRecord, Put, Notify,
       Call, Lose
<1>2. CASE PageStep
  <2>1. ProcessQueued \/ BeginPass => UNCHANGED <<mark, current>>
    BY DEF ProcessQueued, BeginPass, pass
  <2>2. EndPass => mark' = None
    BY DEF EndPass
  <2> QED
    BY <1>2, <2>1, <2>2 DEF PageStep, CallStart, Start, Listen, CallRetry, GoOffline,
       GoOnline, Reload, BindUser, Opened, OpenFails, Retry, pass
<1>3. CASE \E r \in Records : Enqueue(r) \/ \E u \in Users : LateRequest(r, u)
  BY <1>3 DEF Enqueue, LateRequest, pass
<1>4. CASE UNCHANGED vars
  BY <1>4 DEF vars, pass
<1> QED
  BY <1>1, <1>2, <1>3, <1>4 DEF Next

(* What the server has posted stays posted. *)
LEMMA PostedRemains ==
  ASSUME [Next]_vars, TypeOK, NEW r \in Records, postedBy[r] # None
  PROVE  postedBy'[r] # None
PROOF
<1>a. postedBy \in [Records -> Users \cup {None}] /\ PassType
  BY TypeParts DEF RestType
<1>1. CASE Serve
  <2>1. current \in Records /\ sender \in Users
    BY <1>1, <1>a DEF Serve, PassType
  <2>2. PICK answer \in Answers(current, sender) :
          postedBy' = PostedAfter(current, sender, answer)
    BY <1>1 DEF Serve
  <2> QED
    BY <1>a, <2>1, <2>2, AnswerType
<1>2. ASSUME NEW q \in Records, NEW u \in Users, LateRequest(q, u)
      PROVE  postedBy'[r] # None
  <2>1. PICK answer \in Answers(q, u) : postedBy' = PostedAfter(q, u, answer)
    BY <1>2 DEF LateRequest
  <2> QED
    BY <1>a, <2>1, AnswerType
<1>3. CASE UNCHANGED postedBy
  BY <1>3
<1>4. PassStep => Serve \/ UNCHANGED postedBy
  BY DEF PassStep, Finish, NextRecord, Look, Put, Notify, StorageFails, Call, Lose, server
<1>5. PageStep => UNCHANGED postedBy
  BY DEF PageStep, CallStart, Start, CallRetry, GoOffline, GoOnline, Reload, BindUser,
     Opened, OpenFails, Retry, server
<1>6. UNCHANGED vars \/ (\E q \in Records : Enqueue(q)) => UNCHANGED postedBy
  BY DEF Enqueue, vars, server
<1> QED
  BY <1>1, <1>2, <1>3, <1>4, <1>5, <1>6 DEF Next

-----------------------------------------------------------------------------
(* What the device shows as posted. *)

(* What a pass is about to store is as true as what is stored. *)
MarkTrue == mark \in {"Posted", "Needs review"} => postedBy[current] # None

LEMMA StepMark == TypeOK /\ MarkTrue /\ [Next]_vars => MarkTrue'
PROOF
<1> SUFFICES ASSUME TypeOK, MarkTrue, [Next]_vars,
                    mark' \in {"Posted", "Needs review"}
             PROVE  postedBy'[current'] # None
  BY DEF MarkTrue
<1>a. postedBy \in [Records -> Users \cup {None}] /\ PassType
  BY TypeParts DEF RestType
<1>1. None \notin {"Posted", "Needs review"}
  BY QueueAssumption DEF Statuses
<1>2. CASE Serve
  <2>1. current \in Records /\ sender \in Users /\ current' = current
    BY <1>2, <1>a DEF Serve, PassType
  <2>2. PICK answer \in Answers(current, sender) :
          /\ postedBy' = PostedAfter(current, sender, answer)
          /\ mark' = StatusOf(answer)
    BY <1>2 DEF Serve
  <2> QED
    BY <1>a, <2>1, <2>2, AnswerType
<1>3. CASE UNCHANGED <<mark, current>>
  <2>1. current \in Records
    BY <1>1, <1>3, <1>a DEF PassType
  <2> QED
    BY <1>3, <2>1, PostedRemains DEF MarkTrue
<1> QED
  BY <1>1, <1>2, <1>3, MarkChanges

LEMMA StepPosted == TypeOK /\ MarkTrue /\ PostedIsPosted /\ [Next]_vars => PostedIsPosted'
PROOF
<1> SUFFICES ASSUME TypeOK, MarkTrue, PostedIsPosted, [Next]_vars,
                    NEW r \in Records, NEW n \in Namespaces, NEW kind \in Kinds,
                    At(n, kind, r)' \in {"Posted", "Needs review"}
             PROVE  postedBy'[r] # None
  <2>1. Copies("Posted")' \cup Copies("Needs review")' \subseteq Records
    BY CopiesAtNext
  <2> QED
    BY <2>1, CopiesAtNext DEF PostedIsPosted
<1>1. At(n, kind, r) \in {"Posted", "Needs review"} => postedBy[r] # None
  BY CopiesAt DEF PostedIsPosted
<1>2. CASE At(n, kind, r)' = At(n, kind, r)
  BY <1>1, <1>2, PostedRemains
<1>3. CASE Put
  <2>1. /\ current \in Records /\ mark \in Statuses
        /\ Append(current, mark) /\ UNCHANGED postedBy
    BY <1>3, TypeParts DEF Put, PassType, server
  <2>2. Written(current, mark)
    BY <2>1, AppendWrites
  <2>3. CASE r = current /\ At(n, kind, r)' = mark
    BY <2>1, <2>3 DEF MarkTrue
  <2>4. CASE ~ (r = current /\ At(n, kind, r)' = mark)
    <3>1. At(n, kind, r)' = At(n, kind, r)
      BY <2>2, <2>4 DEF Written
    <3> QED
      BY <1>2, <3>1
  <2> QED
    BY <2>3, <2>4
<1>4. ASSUME NEW q \in Records, Enqueue(q) PROVE At(n, kind, r)' = At(n, kind, r)
  <2>1. Append(q, "Queued") /\ "Queued" \in Statuses
    BY <1>4 DEF Enqueue, Statuses
  <2>2. Written(q, "Queued")
    BY <2>1, AppendWrites
  <2>3. At(n, kind, r)' \in {At(n, kind, r), "Queued"}
    BY <2>2 DEF Written
  <2> QED
    BY <2>3
<1>5. CASE UNCHANGED device
  BY <1>2, <1>5, DeviceStays
<1> QED
  BY <1>2, <1>3, <1>4, <1>5, DeviceChanges

(* A collection shown as posted, or as in conflict with what is posted, is *)
(* posted on the server.                                                   *)
THEOREM PostedKept == Spec => []PostedIsPosted
PROOF
<1>1. Init => MarkTrue /\ PostedIsPosted
  <2> SUFFICES ASSUME Init PROVE MarkTrue /\ PostedIsPosted
    OBVIOUS
  <2>1. None \notin {"Posted", "Needs review"}
    BY QueueAssumption DEF Statuses
  <2>2. MarkTrue
    BY <2>1 DEF Init, MarkTrue
  <2>3. PostedIsPosted
    BY <2>1 DEF Init, PostedIsPosted, Copies
  <2> QED
    BY <2>2, <2>3
<1> QED
  BY <1>1, StepMark, StepPosted, QueueTyped, PTL DEF Spec

-----------------------------------------------------------------------------
(* Where a pass stands. *)

(* A record no pass has disturbed is in one storage at most. *)
OneCopy ==
  \A r \in Records \ cut, m \in Namespaces, n \in Namespaces, k \in Kinds, l \in Kinds :
    At(m, k, r) # None /\ At(n, l, r) # None => m = n /\ k = l

(* No pass has yet begun with it. *)
Waiting(r) ==
  \A n \in Namespaces, kind \in Kinds : At(n, kind, r) \in Selected \cup {None}

Ahead ==
  /\ pc = "idle" => todo = {}
  /\ current \notin todo
  /\ \A r \in todo \ cut : Waiting(r)

Here(r) == At(session, Kind, r)

(* What the storage shows of the record the pass is at. *)
AtRecord ==
  /\ pc = "answered" => mark # "Syncing"
  /\ current \in Records \ cut =>
       /\ pc = "look" /\ mark = "Syncing" => Waiting(current)
       /\ pc = "put" /\ mark = "Syncing" => Here(current) \in Selected
       /\ pc = "notify" => Here(current) = mark
       /\ pc \in {"call", "wait", "answered"} => Here(current) = "Syncing"
       /\ pc \in {"look", "put"} /\ mark # "Syncing" => Here(current) = "Syncing"

NoneLeft ==
  \A r \in Records \ cut, n \in Namespaces, kind \in Kinds :
    At(n, kind, r) = "Syncing" => r = current

PassInv == OneCopy /\ Ahead /\ AtRecord /\ NoneLeft

(* The cells hold what the property speaks of. *)
LEMMA NoneLeftSyncing == NoneLeft <=> SyncingIsBeingSent
PROOF
  BY CopiesAt DEF NoneLeft, SyncingIsBeingSent

LEMMA StatusesDiffer ==
  /\ None \notin {"Queued", "Syncing", "Posted", "Needs review", "Rejected"}
  /\ Selected \subseteq Statuses /\ "Syncing" \notin Selected
PROOF
  BY QueueAssumption DEF Statuses, Selected

(* Steps that leave storages and pass alone keep the invariant, if what    *)
(* the storage then is has not changed either, or the record counts as     *)
(* disturbed.                                                              *)
LEMMA QuietKeepsPass ==
  ASSUME TypeOK, PassInv, UNCHANGED <<device, pass>>,
         UNCHANGED <<session, database, cut>> \/ Disturbed
  PROVE  PassInv'
PROOF
<1>1. /\ \A n, kind, r : At(n, kind, r)' = At(n, kind, r)
      /\ UNCHANGED <<pc, todo, current, mark>>
  BY DeviceStays DEF pass
<1>2. cut \subseteq cut'
  BY DEF Disturbed
<1>3. OneCopy'
  BY <1>1, <1>2 DEF PassInv, OneCopy
<1>4. Ahead'
  BY <1>1, <1>2 DEF PassInv, Ahead, Waiting
<1>5. NoneLeft'
  BY <1>1, <1>2 DEF PassInv, NoneLeft
<1>6. CASE UNCHANGED <<session, database, cut>>
  <2>1. \A r : Here(r)' = Here(r)
    BY <1>1, <1>6 DEF Here, Kind, At, device
  <2>2. AtRecord'
    BY <1>1, <1>6, <2>1 DEF PassInv, AtRecord, Waiting
  <2> QED
    BY <1>3, <1>4, <1>5, <2>2 DEF PassInv
<1>7. CASE Disturbed
  <2>1. AtRecord'
    BY <1>1, <1>7, QueueAssumption DEF PassInv, AtRecord, Disturbed
  <2> QED
    BY <1>3, <1>4, <1>5, <2>1 DEF PassInv
<1> QED
  BY <1>6, <1>7

(* What a pass selects is in no other storage. *)
LEMMA BeginKeepsPass ==
  ASSUME TypeOK, PassInv, UNCHANGED <<device, session, database, cut>>,
         BeginPass, pc = "idle"
  PROVE  PassInv'
PROOF
<1>1. \A n, kind, r : At(n, kind, r)' = At(n, kind, r)
  BY DeviceStays
<1>2. pc' = "next" /\ current' = None /\ current = None
  BY DEF BeginPass, TypeOK
<1>3. OneCopy' /\ NoneLeft'
  BY <1>1, <1>2 DEF PassInv, OneCopy, NoneLeft
<1>4. ASSUME NEW r \in todo' \ cut PROVE Waiting(r)
  <2>1. r \in Records /\ View[r] \in Selected
    BY <1>4 DEF BeginPass
  <2>2. At(session, Kind, r) \in Selected /\ Kind \in Kinds /\ session \in Namespaces
    BY <2>1, ViewIsAt DEF TypeOK
  <2>3. At(session, Kind, r) # None
    BY <2>2, StatusesDiffer DEF Selected
  <2> QED
    BY <1>4, <2>1, <2>2, <2>3 DEF PassInv, OneCopy, Waiting
<1>5. None \notin todo'
  BY QueueAssumption DEF BeginPass
<1>6. Ahead'
  BY <1>1, <1>2, <1>4, <1>5 DEF Ahead, Waiting
<1>7. AtRecord'
  BY <1>2, QueueAssumption DEF AtRecord
<1> QED
  BY <1>3, <1>6, <1>7 DEF PassInv

LEMMA EndKeepsPass ==
  ASSUME TypeOK, PassInv, UNCHANGED device, EndPass,
         Disturbed \/ (current = None /\ UNCHANGED cut)
  PROVE  PassInv'
PROOF
<1>1. \A n, kind, r : At(n, kind, r)' = At(n, kind, r)
  BY DeviceStays
<1>2. pc' = "idle" /\ current' = None /\ todo' = {}
  BY DEF EndPass
<1>3. cut \subseteq cut' /\ (current \in Records => current \in cut')
  BY QueueAssumption DEF Disturbed
<1>4. OneCopy' /\ NoneLeft'
  BY <1>1, <1>3 DEF PassInv, OneCopy, NoneLeft
<1>5. Ahead' /\ AtRecord'
  BY <1>2, QueueAssumption DEF Ahead, AtRecord
<1> QED
  BY <1>4, <1>5 DEF PassInv

LEMMA ThrowKeepsPass ==
  ASSUME TypeOK, PassInv, UNCHANGED device, Throw, Disturbed,
         pc \notin {"idle", "next"}
  PROVE  PassInv'
PROOF
<1>1. CASE EndPass
  BY <1>1, EndKeepsPass
<1>2. CASE ~ EndPass
  <2>1. pc' = "look" /\ UNCHANGED <<todo, current>>
    BY <1>2 DEF Throw
  <2>2. \A n, kind, r : At(n, kind, r)' = At(n, kind, r)
    BY DeviceStays
  <2>3. current \in cut' /\ cut \subseteq cut'
    BY DEF Disturbed, TypeOK
  <2>4. OneCopy' /\ NoneLeft'
    BY <2>1, <2>2, <2>3 DEF PassInv, OneCopy, NoneLeft
  <2>5. Ahead'
    BY <2>1, <2>2, <2>3 DEF PassInv, Ahead, Waiting
  <2>6. AtRecord'
    BY <2>1, <2>3 DEF AtRecord
  <2> QED
    BY <2>4, <2>5, <2>6 DEF PassInv
<1> QED
  BY <1>1, <1>2

(* processQueued starts a pass or does nothing. *)
LEMMA ProcessKeepsPass ==
  ASSUME TypeOK, PassInv, UNCHANGED <<device, session, database, cut>>,
         ProcessQueued \/ UNCHANGED pass
  PROVE  PassInv'
PROOF
<1>1. CASE BeginPass /\ pc = "idle"
  BY <1>1, BeginKeepsPass
<1>2. CASE UNCHANGED pass
  BY <1>2, QuietKeepsPass
<1> QED
  BY <1>1, <1>2 DEF ProcessQueued

(* Recording something new puts it where nothing of it was. *)
LEMMA EnqueueKeepsPass ==
  ASSUME TypeOK, PassInv, NEW r \in Records, Enqueue(r)
  PROVE  PassInv'
PROOF
<1>1. UNCHANGED <<session, database, cut, pc, todo, current, mark>>
  BY DEF Enqueue, page, pass
<1>2. Written(r, "Queued")
  BY AppendWrites DEF Enqueue, Statuses
<1>3. session \in Namespaces /\ Kind \in Kinds
  BY DEF TypeOK, Kind, Kinds
<1>4. \A n \in Namespaces, kind \in Kinds : At(n, kind, r) = None
  BY DEF Enqueue, Holds, At, Kinds
<1>5. \A q \in Records : q # r => Here(q)' = Here(q)
  BY <1>1, <1>3 DEF Enqueue, Append, Here, Kind, At, TypeOK
<1>6. OneCopy'
  BY <1>1, <1>2, <1>3, <1>4 DEF PassInv, OneCopy, Written
<1>7. \A q \in Records : Waiting(q) => Waiting(q)'
  BY <1>2 DEF Waiting, Written, Selected
<1>8. Ahead'
  BY <1>1, <1>7 DEF PassInv, Ahead, TypeOK
<1>9. NoneLeft'
  BY <1>1, <1>2 DEF PassInv, NoneLeft, Written
<1>10. AtRecord'
  <2>1. current \in Records => mark \in Statuses
    BY QueueAssumption DEF TypeOK
  <2>2. Here(r) = None
    BY <1>3, <1>4 DEF Here
  <2>3. ASSUME current \in Records \ cut, current = r
        PROVE  pc = "look" /\ mark = "Syncing"
    <3>1. PassType /\ AtRecord
      BY TypeParts DEF PassInv
    <3>2. pc \in {"look", "put", "notify", "call", "wait", "answered"}
      BY <2>3, <3>1, QueueAssumption DEF PassType
    <3>3. Here(current) = None /\ None \notin Selected
      BY <2>2, <2>3, StatusesDiffer DEF Here, Selected
    <3>4. pc # "notify"
      BY <2>1, <2>3, <3>1, <3>3, StatusesDiffer DEF AtRecord, Statuses
    <3> QED
      BY <2>3, <3>1, <3>2, <3>3, <3>4, StatusesDiffer DEF AtRecord
  <2> QED
    BY <1>1, <1>5, <1>7, <2>3 DEF PassInv, AtRecord
<1> QED
  BY <1>6, <1>8, <1>9, <1>10 DEF PassInv

(* A status is stored over that of the same record. *)
LEMMA PutKeepsPass ==
  ASSUME TypeOK, PassInv, Put
  PROVE  PassInv'
PROOF
<1>1. /\ UNCHANGED <<session, database, cut, todo, current, mark>>
      /\ pc = "put" /\ pc' = "notify"
  BY DEF Put, page
<1>2. current \in Records /\ mark \in Statuses
  BY <1>1 DEF TypeOK
<1>3. Written(current, mark)
  BY <1>2, AppendWrites DEF Put
<1>4. session \in Namespaces /\ Kind \in Kinds
  BY DEF TypeOK, Kind, Kinds
<1>5. current \notin cut => Here(current) \in Selected \cup {"Syncing"}
  BY <1>1, <1>2 DEF PassInv, AtRecord
<1>6. current \notin cut => At(session, Kind, current) # None
  BY <1>5, StatusesDiffer DEF Here, Selected
<1>7. OneCopy'
  BY <1>1, <1>3, <1>4, <1>6 DEF PassInv, OneCopy, Written
<1>8. Ahead'
  BY <1>1, <1>3 DEF PassInv, Ahead, Waiting, Written, TypeOK
<1>9. NoneLeft'
  BY <1>1, <1>2, <1>3 DEF PassInv, NoneLeft, Written
<1>10. Here(current)' = mark
  BY <1>1, <1>2, <1>4 DEF Put, Append, Here, Kind, At, TypeOK
<1>11. AtRecord'
  BY <1>1, <1>10 DEF AtRecord
<1> QED
  BY <1>7, <1>8, <1>9, <1>11 DEF PassInv

(* Each step of a pass, and of the page, keeps what is known of the record *)
(* the pass is at.                                                         *)
LEMMA StepPass == TypeOK /\ PassInv /\ [Next]_vars => PassInv'
PROOF
<1> SUFFICES ASSUME TypeOK, PassInv, [Next]_vars PROVE PassInv'
  OBVIOUS
<1>a. PassType /\ OneCopy /\ Ahead /\ AtRecord /\ NoneLeft
  BY TypeParts DEF PassInv
<1>b. /\ "Syncing" \in Statuses /\ "Syncing" \notin Selected /\ None # "Syncing"
      /\ None \notin Records
  BY StatusesDiffer, QueueAssumption DEF Statuses
<1>1. ASSUME NEW r \in Records, Enqueue(r) PROVE PassInv'
  BY <1>1, EnqueueKeepsPass
<1>2. CASE Finish
  <2>1. current = None /\ UNCHANGED <<device, cut>> /\ EndPass
    BY <1>2, <1>a DEF Finish, PassType
  <2> QED
    BY <2>1, EndKeepsPass
<1>3. ASSUME NEW r \in Records, NextRecord(r) PROVE PassInv'
  <2>1. /\ pc = "next" /\ r \in todo /\ current = None
        /\ pc' = "look" /\ current' = r /\ mark' = "Syncing" /\ todo' = todo \ {r}
        /\ UNCHANGED <<device, session, database, cut>>
    BY <1>3, <1>a DEF NextRecord, PassType, page
  <2>2. \A n, kind, q : At(n, kind, q)' = At(n, kind, q)
    BY <2>1, DeviceStays
  <2>3. OneCopy' /\ NoneLeft'
    BY <2>1, <2>2, <1>a, <1>b DEF OneCopy, NoneLeft
  <2>4. Ahead' /\ AtRecord'
    BY <2>1, <2>2, <1>a DEF Ahead, AtRecord, Waiting
  <2> QED
    BY <2>3, <2>4 DEF PassInv
<1>4. CASE Look
  <2>1. pc \in {"look", "answered"} /\ UNCHANGED <<device, session, database>>
    BY <1>4 DEF Look, page
  <2>2. CASE Throw /\ Disturbed
    BY <2>1, <2>2, ThrowKeepsPass
  <2>3. CASE ~ (Throw /\ Disturbed)
    <3>1. /\ View[current] # None /\ pc' = "put"
          /\ UNCHANGED <<todo, current, mark, cut>>
      BY <1>4, <2>3 DEF Look
    <3>2. current \in Records
      BY <2>1, <1>a DEF PassType
    <3>3. \A n, kind, q : At(n, kind, q)' = At(n, kind, q)
      BY <2>1, DeviceStays
    <3>4. OneCopy' /\ NoneLeft' /\ Ahead'
      BY <2>1, <3>1, <3>3, <1>a DEF OneCopy, NoneLeft, Ahead, Waiting
    <3>5. Here(current) # None /\ session \in Namespaces /\ Kind \in Kinds
      BY <3>1, <3>2, ViewIsAt DEF Here, TypeOK
    <3>6. Waiting(current) => Here(current) \in Selected
      BY <3>5 DEF Waiting, Here
    <3>7. Here(current)' = Here(current)
      BY <2>1, <3>1 DEF Here, Kind, At, device
    <3>8. AtRecord'
      BY <2>1, <3>1, <3>6, <3>7, <1>a DEF AtRecord
    <3> QED
      BY <3>4, <3>8 DEF PassInv
  <2> QED
    BY <2>2, <2>3
<1>5. CASE Put
  BY <1>5, PutKeepsPass
<1>6. CASE Notify
  <2>1. /\ pc = "notify" /\ UNCHANGED <<device, session, database, cut, todo>>
        /\ current \in Records
    BY <1>6, <1>a DEF Notify, page, PassType
  <2>2. \A n, kind, q : At(n, kind, q)' = At(n, kind, q)
    BY <2>1, DeviceStays
  <2>3. OneCopy'
    BY <2>1, <2>2, <1>a DEF OneCopy
  <2>4. CASE mark = "Syncing"
    <3>1. pc' = "call" /\ UNCHANGED <<current, mark>>
      BY <1>6, <2>4 DEF Notify
    <3>2. Here(current)' = Here(current)
      BY <2>1, <3>1 DEF Here, Kind, At, device
    <3>3. Ahead' /\ NoneLeft'
      BY <2>1, <2>2, <3>1, <1>a DEF Ahead, NoneLeft, Waiting
    <3>4. AtRecord'
      BY <2>1, <2>4, <3>1, <3>2, <1>a DEF AtRecord
    <3> QED
      BY <2>3, <3>3, <3>4 DEF PassInv
  <2>5. CASE mark # "Syncing"
    <3>1. pc' = "next" /\ current' = None
      BY <1>6, <2>5 DEF Notify
    <3>2. ASSUME current \notin cut, NEW n \in Namespaces, NEW kind \in Kinds
          PROVE  At(n, kind, current) # "Syncing"
      <4>1. Here(current) = mark /\ mark # None
        BY <2>1, <3>2, <1>a, QueueAssumption DEF AtRecord, PassType
      <4>2. session \in Namespaces /\ Kind \in Kinds
        BY DEF TypeOK, Kind, Kinds
      <4>3. At(n, kind, current) # None => n = session /\ kind = Kind
        BY <2>1, <3>2, <4>1, <4>2, <1>a DEF OneCopy, Here
      <4> QED
        BY <2>5, <4>1, <4>3, <1>b DEF Here
    <3>3. NoneLeft'
      BY <2>1, <2>2, <3>1, <3>2, <1>a DEF NoneLeft
    <3>4. Ahead' /\ AtRecord'
      BY <2>1, <2>2, <3>1, <1>a, <1>b DEF Ahead, AtRecord, Waiting, TypeOK
    <3> QED
      BY <2>3, <3>3, <3>4 DEF PassInv
  <2> QED
    BY <2>4, <2>5
<1>7. CASE StorageFails
  BY <1>7, ThrowKeepsPass DEF StorageFails
<1>8. CASE Call \/ Serve \/ Lose
  <2>1. /\ pc \in {"call", "wait", "answered"}
        /\ UNCHANGED <<device, session, database, cut, todo, current>>
    BY <1>8 DEF Call, Serve, Lose, page
  <2>2. \A n, kind, q : At(n, kind, q)' = At(n, kind, q)
    BY <2>1, DeviceStays
  <2>3. \/ pc' = "wait"
        \/ pc' = "answered" /\ mark' # "Syncing"
        \/ pc' = "look" /\ mark' = "Queued"
    <3>1. \A answer \in {"ok", "conflict", "refused", "failed"} :
            StatusOf(answer) # "Syncing"
      BY DEF StatusOf
    <3>2. StatusOf("failed") = "Queued"
      BY DEF StatusOf
    <3>3. \A r, u : Answers(r, u) \subseteq {"ok", "conflict", "refused", "failed"}
      BY DEF Answers
    <3> QED
      BY <1>8, <3>1, <3>2, <3>3 DEF Call, Serve, Lose
  <2>4. OneCopy' /\ NoneLeft'
    BY <2>1, <2>2, <1>a DEF OneCopy, NoneLeft
  <2>5. Ahead'
    BY <2>1, <2>2, <2>3, <1>a DEF Ahead, Waiting
  <2>6. Here(current)' = Here(current)
    BY <2>1 DEF Here, Kind, At, device
  <2>7. AtRecord'
    BY <2>1, <2>3, <2>6, <1>a DEF AtRecord
  <2> QED
    BY <2>4, <2>5, <2>7 DEF PassInv
<1>9. ASSUME NEW r \in Records, NEW u \in Users, LateRequest(r, u) PROVE PassInv'
  BY <1>9, QuietKeepsPass DEF LateRequest, page
<1>10. CASE PageStep
  <2>1. CASE CallStart \/ Start
    BY <2>1, ProcessKeepsPass DEF CallStart, Start, Listen
  <2>2. CASE CallRetry \/ (\E n \in Namespaces : Retry(n))
    BY <2>2, ProcessKeepsPass DEF CallRetry, Retry
  <2>3. CASE GoOffline
    BY <2>3, QuietKeepsPass DEF GoOffline
  <2>4. CASE GoOnline
    <3>1. UNCHANGED <<device, session, database, cut>>
      BY <2>4 DEF GoOnline
    <3>2. CASE BeginPass /\ pc = "idle"
      BY <3>1, <3>2, BeginKeepsPass
    <3>3. CASE UNCHANGED pass
      BY <3>1, <3>3, QuietKeepsPass
    <3> QED
      BY <2>4, <3>2, <3>3 DEF GoOnline
  <2>5. CASE Reload
    BY <2>5, EndKeepsPass DEF Reload
  <2>6. ASSUME NEW n \in Namespaces, BindUser(n) PROVE PassInv'
    <3>1. UNCHANGED <<device, pass>>
      BY <2>6 DEF BindUser
    <3>2. CASE Disturbed
      BY <3>1, <3>2, QuietKeepsPass
    <3>3. CASE n = session
      <4>1. UNCHANGED <<session, database, cut>>
        BY <2>6, <3>3 DEF BindUser, TypeOK
      <4> QED
        BY <3>1, <4>1, QuietKeepsPass
    <3> QED
      BY <2>6, <3>2, <3>3 DEF BindUser
  <2>7. ASSUME NEW n \in Namespaces, Opened(n) PROVE PassInv'
    <3>1. UNCHANGED <<device, pass, session>>
      BY <2>7 DEF Opened
    <3>2. CASE Disturbed
      BY <3>1, <3>2, QuietKeepsPass
    <3>3. CASE ~ (supported /\ n = session)
      <4>1. UNCHANGED <<session, database, cut>>
        BY <2>7, <3>3 DEF Opened, TypeOK
      <4> QED
        BY <3>1, <4>1, QuietKeepsPass
    <3> QED
      BY <2>7, <3>2, <3>3 DEF Opened
  <2>8. ASSUME NEW n \in Namespaces, OpenFails(n) PROVE PassInv'
    BY <2>8, QuietKeepsPass DEF OpenFails
  <2> QED
    BY <1>10, <2>1, <2>2, <2>3, <2>4, <2>5, <2>6, <2>7, <2>8 DEF PageStep
<1>11. CASE UNCHANGED vars
  BY <1>11, QuietKeepsPass DEF vars, page
<1> QED
  BY <1>1, <1>2, <1>3, <1>4, <1>5, <1>6, <1>7, <1>8, <1>9, <1>10, <1>11
     DEF Next, PassStep

LEMMA InitPass == Init => PassInv
PROOF
<1> SUFFICES ASSUME Init PROVE PassInv
  OBVIOUS
<1>1. \A n \in Namespaces, kind \in Kinds, r \in Records : At(n, kind, r) = None
  BY DEF Init, At
<1>2. current = None /\ todo = {} /\ pc = "idle"
  BY DEF Init
<1> QED
  BY <1>1, <1>2, StatusesDiffer, QueueAssumption
     DEF PassInv, OneCopy, Ahead, AtRecord, NoneLeft

(* Types, what is posted, and where the pass stands, in every reachable    *)
(* state.                                                                  *)
THEOREM QueueInvariant == Spec => [](TypeOK /\ PassInv)
PROOF
  BY InitType, StepType, InitPass, StepPass, PTL DEF Spec

(* A collection shown as Syncing is the one the pass is at, unless a pass  *)
(* was disturbed at it.                                                    *)
THEOREM SyncingIsSent == Spec => []SyncingIsBeingSent
PROOF
<1>1. PassInv => SyncingIsBeingSent
  BY NoneLeftSyncing DEF PassInv
<1> QED
  BY <1>1, QueueInvariant, PTL

(* A step overwrites a posted collection only if a pass was disturbed at   *)
(* it.                                                                     *)
LEMMA StepKeepsPosted ==
  ASSUME TypeOK, PassInv, [Next]_vars,
         NEW n \in Namespaces, NEW kind \in Kinds, NEW r \in Records,
         r \notin cut, At(n, kind, r) = "Posted"
  PROVE  At(n, kind, r)' = "Posted"
PROOF
<1>1. CASE UNCHANGED device
  BY <1>1, DeviceStays
<1>2. CASE Put
  <2>1. /\ pc = "put" /\ current \in Records /\ mark \in Statuses
        /\ Append(current, mark)
    BY <1>2, TypeParts DEF Put, PassType
  <2>2. Written(current, mark)
    BY <2>1, AppendWrites
  <2>3. ASSUME r = current, n = session, kind = Kind PROVE FALSE
    <3>1. Here(current) \in Selected \cup {"Syncing"}
      BY <2>1, <2>3 DEF PassInv, AtRecord
    <3> QED
      BY <2>3, <3>1 DEF Here, Selected
  <2> QED
    BY <2>2, <2>3 DEF Written
<1>3. ASSUME NEW q \in Records, Enqueue(q) PROVE At(n, kind, r)' = "Posted"
  <2>1. Written(q, "Queued")
    BY <1>3, AppendWrites DEF Enqueue, Statuses
  <2>2. At(n, kind, q) = None
    BY <1>3 DEF Enqueue, Holds, At, Kinds
  <2> QED
    BY <2>1, <2>2, StatusesDiffer DEF Written
<1> QED
  BY <1>1, <1>2, <1>3, DeviceChanges

(* A posted collection is not taken back into the queue by another pass.   *)
THEOREM PostedNotTakenBack == Spec => PostedStaysPosted
PROOF
<1>1. TypeOK /\ PassInv /\ [Next]_vars =>
        [\A n \in Namespaces, r \in Records :
           r \notin cut =>
             /\ indexed[n][r] = "Posted" => indexed'[n][r] = "Posted"
             /\ fallback[n][r] = "Posted" => fallback'[n][r] = "Posted"]_vars
  <2> SUFFICES ASSUME TypeOK, PassInv, [Next]_vars,
                      NEW n \in Namespaces, NEW r \in Records, r \notin cut
               PROVE  /\ indexed[n][r] = "Posted" => indexed'[n][r] = "Posted"
                      /\ fallback[n][r] = "Posted" => fallback'[n][r] = "Posted"
    OBVIOUS
  <2>1. "indexed" \in Kinds /\ "fallback" \in Kinds
    BY DEF Kinds
  <2>2. \A kind \in Kinds : At(n, kind, r) = "Posted" => At(n, kind, r)' = "Posted"
    BY StepKeepsPosted
  <2>3. At(n, "indexed", r) = "Posted" => At(n, "indexed", r)' = "Posted"
    BY <2>1, <2>2
  <2>4. At(n, "fallback", r) = "Posted" => At(n, "fallback", r)' = "Posted"
    BY <2>1, <2>2
  <2> QED
    BY <2>3, <2>4 DEF At
<1> QED
  BY <1>1, QueueInvariant, PTL DEF Spec, PostedStaysPosted
=============================================================================
