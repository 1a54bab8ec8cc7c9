---------------------------- MODULE OfflineQueue ----------------------------
(***************************************************************************)
(* The queue of a collector's device (offlineQueue.ts): collections are    *)
(* recorded in the storage of whoever is signed in, and passes over it     *)
(* send them to the server, which posts each at most once (LoanServicing   *)
(* models the posting itself).  The page may be reloaded, the user may     *)
(* change, the network may go and come back, requests and answers may be   *)
(* lost or late, storage may fail, all of it between any two awaits.       *)
(*                                                                         *)
(* A user has two storages: an IndexedDB database, and a localStorage key  *)
(* that stands in for it while no database is open, and for good in a      *)
(* browser that has no IndexedDB.  A step is what runs between two awaits. *)
(***************************************************************************)
EXTENDS Integers, FiniteSets

CONSTANTS
  Records,   \* what a collector may record on this device
  Users,     \* who may sign in
  Anonymous, \* the namespace of nobody
  None,      \* an absent value
  MaxEvents  \* bounds what comes from outside: changes of user, reloads,
             \* losses, failures and disconnections

Namespaces == Users \cup {Anonymous}
Statuses   == {"Queued", "Syncing", "Posted", "Needs review", "Rejected"}

ASSUME QueueAssumption ==
  /\ Anonymous \notin Users
  /\ None \notin Records /\ None \notin Namespaces /\ None \notin Statuses
  /\ MaxEvents \in Nat

VARIABLES
  \* on the device, across reloads
  supported, \* whether the browser has IndexedDB
  indexed,   \* the database of each namespace
  fallback,  \* its localStorage key
  \* on the server
  postedBy,  \* who posted each record
  late,      \* requests still under way that nobody waits for, and whose
  \* in the page
  session,   \* the namespace the queue is bound to
  database,  \* whether its database is open
  opens,     \* namespaces whose database is being opened
  startup,   \* "opening", the opening that start() awaits, "done" or "failed"
  retries,   \* namespaces whose opening a retry() awaits
  online,    \* navigator.onLine
  listening, \* whether the online event is listened to
  \* the pass of processQueued
  pc,        \* what it does next
  todo,      \* the rest of its snapshot
  current,   \* the record it is at
  mark,      \* the status it is about to store
  sender,    \* whose token its request carries
  \* history
  cut,       \* records at which a pass lost its storage or its page
  events     \* how many things have come from outside

device == <<supported, indexed, fallback>>
server == <<postedBy, late>>
page   == <<session, database, opens, startup, retries, online, listening>>
pass   == <<pc, todo, current, mark, sender>>
vars   == <<device, server, page, pass, cut, events>>

FromOutside == events < MaxEvents /\ events' = events + 1

-----------------------------------------------------------------------------
(* Storage. *)

View == IF database THEN indexed[session] ELSE fallback[session]

Holds(r) == \E n \in Namespaces : indexed[n][r] # None \/ fallback[n][r] # None

(* Both writers keep the other records.                                    *)
Append(r, status) ==
  /\ UNCHANGED supported
  /\ IF database
     THEN indexed' = [indexed EXCEPT ![session][r] = status] /\ UNCHANGED fallback
     ELSE fallback' = [fallback EXCEPT ![session][r] = status] /\ UNCHANGED indexed

(* The form records for the signed-in user, under new identifiers.         *)
Enqueue(r) ==
  /\ session \in Users /\ ~ Holds(r)
  /\ Append(r, "Queued")
  /\ UNCHANGED <<server, page, pass, cut, events>>

-----------------------------------------------------------------------------
(* Passes. *)

(* Seeded fault: all that is not rejected is sent.                         *)
AllButRejected == Statuses \ {"Rejected"}

Selected == {"Queued", "Needs review"}

BeginPass ==
  /\ pc' = "next"
  /\ todo' = {r \in Records : View[r] \in Selected}
  /\ UNCHANGED <<current, mark, sender>>

(* processQueued: nothing happens while a pass runs or the device is       *)
(* offline.                                                                *)
ProcessQueued == IF pc = "idle" /\ online THEN BeginPass ELSE UNCHANGED pass

(* Seeded fault: a pass that throws leaves its flag set.                   *)
EndAfterLoop ==
  /\ pc' = IF todo = {} /\ current = None THEN "idle" ELSE "thrown"
  /\ todo' = {} /\ current' = None /\ mark' = None /\ sender' = None

EndPass ==
  /\ pc' = "idle"
  /\ todo' = {} /\ current' = None /\ mark' = None /\ sender' = None

Finish ==
  /\ pc = "next" /\ todo = {}
  /\ EndPass
  /\ UNCHANGED <<device, server, page, cut, events>>

NextRecord(r) ==
  /\ pc = "next" /\ r \in todo
  /\ pc' = "look" /\ current' = r /\ mark' = "Syncing"
  /\ todo' = todo \ {r}
  /\ UNCHANGED <<sender, device, server, page, cut, events>>

(* What cannot be stored once the server has answered puts the record back *)
(* in the queue; before that, or when this fails as well, the pass ends.   *)
Throw ==
  IF mark \in {"Syncing", "Queued"}
  THEN EndPass
  ELSE pc' = "look" /\ mark' = "Queued" /\ UNCHANGED <<todo, current, sender>>

Disturbed == cut' = cut \cup ({current} \ {None})

(* updateStatus reads the record, and stores it changed one await later in *)
(* what is then the storage.                                               *)
Look ==
  /\ pc \in {"look", "answered"}
  /\ IF View[current] = None
     THEN Throw /\ Disturbed
     ELSE pc' = "put" /\ UNCHANGED <<todo, current, mark, sender, cut>>
  /\ UNCHANGED <<device, server, page, events>>

Put ==
  /\ pc = "put"
  /\ Append(current, mark)
  /\ pc' = "notify"
  /\ UNCHANGED <<todo, current, mark, sender, server, page, cut, events>>

(* The listeners are given all records, which are read once more.          *)
Notify ==
  /\ pc = "notify"
  /\ IF mark = "Syncing"
     THEN pc' = "call" /\ UNCHANGED <<current, mark, sender>>
     ELSE pc' = "next" /\ current' = None /\ mark' = None /\ sender' = None
  /\ UNCHANGED <<todo, device, server, page, cut, events>>

(* A write fails, or the reading after it.                                 *)
StorageFails ==
  /\ pc \in {"put", "notify"}
  /\ Throw /\ Disturbed
  /\ FromOutside
  /\ UNCHANGED <<device, server, page>>

(* Seeded fault: without a token the pass throws outside the try.          *)
CallOutsideTry ==
  /\ pc = "call"
  /\ IF session \in Users /\ online
     THEN pc' = "wait" /\ sender' = session /\ UNCHANGED <<todo, current, mark>>
     ELSE EndPass
  /\ UNCHANGED <<device, server, page, cut, events>>

(* Seeded fault: the request is sent without a token.                      *)
CallWithoutToken ==
  /\ pc = "call"
  /\ pc' = "wait" /\ sender' = session
  /\ UNCHANGED <<todo, current, mark, device, server, page, cut, events>>

(* The token is that of whoever is signed in by now.                       *)
Call ==
  /\ pc = "call"
  /\ IF session \in Users /\ online
     THEN pc' = "wait" /\ sender' = session /\ UNCHANGED mark
     ELSE pc' = "look" /\ mark' = "Queued" /\ UNCHANGED sender
  /\ UNCHANGED <<todo, current, device, server, page, cut, events>>

(* The idempotency key makes a second posting a replay for the collector   *)
(* who posted the record, and the field collection makes it a conflict for *)
(* anybody else.  Other refusals are those of LoanServicing.               *)
Answers(r, u) ==
  IF postedBy[r] = None THEN {"ok", "refused", "failed"}
  ELSE {IF postedBy[r] = u THEN "ok" ELSE "conflict", "failed"}

PostedAfter(r, u, answer) ==
  IF answer = "ok" THEN [postedBy EXCEPT ![r] = u] ELSE postedBy

(* Seeded fault: what is not refused counts as posted.                     *)
StatusOfAny(answer) == IF answer = "refused" THEN "Rejected" ELSE "Posted"

(* 401, 5xx and network failures are thrown and put the record back; other *)
(* answers settle it.                                                      *)
StatusOf(answer) ==
  CASE answer = "ok"       -> "Posted"
    [] answer = "conflict" -> "Needs review"
    [] answer = "refused"  -> "Rejected"
    [] answer = "failed"   -> "Queued"

Serve ==
  /\ pc = "wait"
  /\ \E answer \in Answers(current, sender) :
       /\ postedBy' = PostedAfter(current, sender, answer)
       /\ mark' = StatusOf(answer)
  /\ pc' = "answered"
  /\ UNCHANGED <<todo, current, sender, late, device, page, cut, events>>

(* The request of the pass is given up; it may reach the server all the    *)
(* same.                                                                   *)
Abandon ==
  \/ UNCHANGED late
  \/ pc = "wait" /\ late' = late \cup {<<current, sender>>}

Lose ==
  /\ pc \in {"wait", "answered"}
  /\ Abandon
  /\ pc' = "look" /\ mark' = StatusOf("failed")
  /\ FromOutside
  /\ UNCHANGED <<todo, current, sender, postedBy, device, page, cut>>

LateRequest(r, u) ==
  /\ <<r, u>> \in late
  /\ late' = late \ {<<r, u>>}
  /\ \E answer \in Answers(r, u) : postedBy' = PostedAfter(r, u, answer)
  /\ UNCHANGED <<device, page, pass, cut, events>>

-----------------------------------------------------------------------------
(* The page. *)

(* bindUser, whenever the page tells the queue who is signed in; nothing   *)
(* happens if the user's database is open.  Of the openings under way only *)
(* those that somebody awaits can still have an effect, and two of the     *)
(* same storage end together.                                              *)
BindUser(n) ==
  /\ ~ (n = session /\ database)
  /\ FromOutside
  /\ session' = n /\ database' = FALSE /\ listening' = FALSE
  /\ opens' = {n} \cup {m \in opens : m \in retries \/ m = startup \/ startup = "opening"}
  /\ IF n = session THEN UNCHANGED cut ELSE Disturbed
  /\ UNCHANGED <<startup, retries, online, device, server, pass>>

(* An opening that has been overtaken by another bindUser is dropped, and  *)
(* without IndexedDB an opening has nothing to do.                         *)
Opened(n) ==
  /\ n \in opens
  /\ opens' = opens \ {n}
  /\ database' = (database \/ (supported /\ n = session))
  /\ IF supported /\ n = session THEN Disturbed ELSE UNCHANGED cut
  /\ UNCHANGED <<session, startup, retries, online, listening, device, server, pass, events>>

OpenFails(n) ==
  /\ supported /\ n \in opens
  /\ opens' = opens \ {n}
  /\ retries' = retries \ {n}
  /\ startup' = IF startup = n \/ (startup = "opening" /\ n = Anonymous)
                THEN "failed" ELSE startup
  /\ FromOutside
  /\ UNCHANGED <<session, database, online, listening, device, server, pass, cut>>

HasFailed == supported /\ ~ database /\ session \notin opens

IsOpen == database \/ ~ (supported \/ session \in opens)

(* start(), once what it awaits is open.                                   *)
Listen ==
  /\ startup' = "done" /\ listening' = TRUE
  /\ ProcessQueued

(* The page awaits its first opening and calls start(), which awaits what  *)
(* is the opening by then.                                                 *)
CallStart ==
  /\ startup = "opening" /\ Anonymous \notin opens
  /\ IF IsOpen THEN Listen
     ELSE /\ startup' = IF HasFailed THEN "failed" ELSE session
          /\ UNCHANGED <<listening, pass>>
  /\ UNCHANGED <<session, database, opens, retries, online, device, server, cut, events>>

Start ==
  /\ startup \in Namespaces \ opens
  /\ Listen
  /\ UNCHANGED <<session, database, opens, retries, online, device, server, cut, events>>

(* The page retries after every sign-in, a collector whenever they like;   *)
(* one call at a time is let wait.                                         *)
CallRetry ==
  /\ session \in Users /\ ~ HasFailed
  /\ IF IsOpen THEN ProcessQueued /\ UNCHANGED retries
     ELSE retries = {} /\ retries' = {session} /\ UNCHANGED pass
  /\ UNCHANGED <<session, database, opens, startup, online, listening, device,
                 server, cut, events>>

Retry(n) ==
  /\ n \in retries \ opens
  /\ retries' = retries \ {n}
  /\ ProcessQueued
  /\ UNCHANGED <<session, database, opens, startup, online, listening, device,
                 server, cut, events>>

GoOffline ==
  /\ online
  /\ online' = FALSE
  /\ FromOutside
  /\ UNCHANGED <<session, database, opens, startup, retries, listening, device,
                 server, pass, cut>>

GoOnline ==
  /\ ~ online
  /\ online' = TRUE
  /\ IF listening /\ pc = "idle" THEN BeginPass ELSE UNCHANGED pass
  /\ UNCHANGED <<session, database, opens, startup, retries, listening, device,
                 server, cut, events>>

Reload ==
  /\ session' = Anonymous /\ database' = FALSE /\ opens' = {Anonymous}
  /\ startup' = "opening" /\ retries' = {} /\ listening' = FALSE
  /\ Abandon /\ Disturbed /\ EndPass
  /\ FromOutside
  /\ UNCHANGED <<online, postedBy, device>>

-----------------------------------------------------------------------------
Init ==
  /\ supported \in BOOLEAN
  /\ indexed = [n \in Namespaces |-> [r \in Records |-> None]]
  /\ fallback = indexed
  /\ postedBy = [r \in Records |-> None] /\ late = {}
  /\ session = Anonymous /\ database = FALSE /\ opens = {Anonymous}
  /\ startup = "opening" /\ retries = {}
  /\ online \in BOOLEAN /\ listening = FALSE
  /\ pc = "idle" /\ todo = {} /\ current = None /\ mark = None /\ sender = None
  /\ cut = {} /\ events = 0

PassStep ==
  \/ Finish \/ Look \/ Put \/ Notify \/ StorageFails \/ Call \/ Serve \/ Lose
  \/ \E r \in Records : NextRecord(r)

PageStep ==
  \/ CallStart \/ Start \/ CallRetry \/ GoOffline \/ GoOnline \/ Reload
  \/ \E n \in Namespaces : BindUser(n) \/ Opened(n) \/ OpenFails(n) \/ Retry(n)

Next ==
  \/ PassStep \/ PageStep
  \/ \E r \in Records : Enqueue(r) \/ \E u \in Users : LateRequest(r, u)

Spec == Init /\ [][Next]_vars

(* The callbacks of promises that have settled do run, and a request is    *)
(* answered or fails in the end.                                           *)
FairSpec == Spec /\ WF_vars(PassStep)

-----------------------------------------------------------------------------
(* What must hold. *)

(* Every variable has its type; a request carries a user's token, and the  *)
(* parts of a pass are there when it needs them.                           *)
TypeOK ==
  /\ supported \in BOOLEAN
  /\ indexed \in [Namespaces -> [Records -> Statuses \cup {None}]]
  /\ fallback \in [Namespaces -> [Records -> Statuses \cup {None}]]
  /\ postedBy \in [Records -> Users \cup {None}]
  /\ late \subseteq Records \X Users
  /\ session \in Namespaces /\ database \in BOOLEAN /\ opens \subseteq Namespaces
  /\ startup \in Namespaces \cup {"opening", "done", "failed"}
  /\ retries \subseteq Namespaces /\ online \in BOOLEAN /\ listening \in BOOLEAN
  /\ pc \in {"idle", "next", "look", "put", "notify", "call", "wait", "answered"}
  /\ todo \subseteq Records /\ current \in Records \cup {None}
  /\ mark \in Statuses \cup {None} /\ sender \in Users \cup {None}
  /\ cut \subseteq Records /\ events \in 0..MaxEvents
  /\ current = None <=> pc \in {"idle", "next"}
  /\ mark = None <=> pc \in {"idle", "next"}
  /\ pc = "call" => mark = "Syncing"
  /\ pc \in {"wait", "answered"} => sender # None

Copies(status) ==
  {r \in Records : \E n \in Namespaces :
     indexed[n][r] = status \/ fallback[n][r] = status}

(* A collection the device shows as posted, or as in conflict, is posted   *)
(* on the server, whatever was lost, repeated or reordered on the way.     *)
PostedIsPosted ==
  \A r \in Copies("Posted") \cup Copies("Needs review") : postedBy[r] # None

(* A posted collection is not taken back into the queue by another pass.   *)
(* Only a pass that lost its storage at that very record can do so.        *)
PostedStaysPosted ==
  [][\A n \in Namespaces, r \in Records :
       r \notin cut =>
         /\ indexed[n][r] = "Posted" => indexed'[n][r] = "Posted"
         /\ fallback[n][r] = "Posted" => fallback'[n][r] = "Posted"]_vars

(* A collection shown as Syncing, which no later pass would select, is the *)
(* one the pass is at.  Only a reload, a change of user or storage, or a   *)
(* failure at that record leaves it behind.                                *)
SyncingIsBeingSent ==
  \A r \in Copies("Syncing") : r = current \/ r \in cut

(* Every pass comes to its end, so that it does not keep later ones out.   *)
PassesEnd == (pc # "idle") ~> (pc = "idle")

(* CollectorRouteView.tsx tells the collector that the device "will        *)
(* auto-sync upon reconnection": when it comes back with something queued, *)
(* a pass runs.                                                            *)
SyncsOnReconnection ==
  [][~ online /\ online' /\ startup = "done" /\ (\E r \in Records : View[r] = "Queued")
       => pc' # "idle"]_vars
=============================================================================
