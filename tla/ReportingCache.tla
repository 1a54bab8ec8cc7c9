--------------------------- MODULE ReportingCache ---------------------------
(***************************************************************************)
(* The cache of finished dashboards (reporting-cache.ts) and the update of *)
(* the portfolio-at-risk windows that clears it (par-threshold-config.ts). *)
(* Requests of one server process interleave at their awaits: while a      *)
(* dashboard is computed others ask for the same one, press Refresh, or    *)
(* change the windows.                                                     *)
(*                                                                         *)
(* A dashboard is told apart by the windows it was computed with, an entry *)
(* of the cache by the time it has left to live.  A load is named after    *)
(* the caller that started it.                                             *)
(***************************************************************************)
EXTENDS Integers, FiniteSets

CONSTANTS
  Callers,    \* requests in progress
  Keys,       \* dashboards by report, branch and dates
  TTL,        \* how long an entry lives
  MaxEntries, \* how many the cache holds
  None,       \* an absent value
  MaxUpdates  \* bounds the updates of the windows

Entry == [windows : 0..MaxUpdates, left : 0..TTL]
Load  == [startedIn : 0..MaxUpdates, windows : 0..MaxUpdates \cup {None}]

ASSUME CacheAssumption ==
  /\ TTL \in Nat \ {0} /\ MaxEntries \in Nat \ {0}
  /\ MaxUpdates \in Nat
  /\ None \notin Callers \cup Keys \cup Nat \cup Entry

VARIABLES
  windows,    \* how often par_threshold_config has been updated
  unclear,    \* committed updates that have not cleared the cache yet
  entries,    \* the cached dashboard of each key and the time it has left
  older,      \* which key has been inserted before which
  inflight,   \* the load others may join
  generation, \* how often the cache has been cleared
  pc,         \* what each caller waits for
  request,    \* what it has asked for
  load,       \* its own load, or the one it has joined
  outrun      \* history: a refresh has started beside this load

cache == <<entries, older, inflight, generation>>
vars  == <<windows, unclear, cache, pc, request, load, outrun>>

Running(c) == pc[c] \in {"loading", "loaded"}

Cached == {k \in Keys : entries[k] # None}

Hit(k) == entries[k] # None /\ entries[k].left > 0

Joins(k, fresh) == ~ fresh /\ ~ Hit(k) /\ inflight[k] # None

Ask(c, k) ==
  /\ pc[c] = "idle"
  /\ request' = [request EXCEPT ![c] = k]
  /\ UNCHANGED <<windows, unclear, entries, older, generation>>

(* A hit is given out and changes nothing: the caller stays idle.          *)

Join(c, k, fresh) ==
  /\ Ask(c, k)
  /\ Joins(k, fresh)
  /\ pc' = [pc EXCEPT ![c] = "joined"]
  /\ load' = [load EXCEPT ![c] = inflight[k]]
  /\ UNCHANGED <<inflight, outrun>>

Start(c, k, fresh) ==
  /\ Ask(c, k)
  /\ ~ Joins(k, fresh) /\ (fresh \/ ~ Hit(k))
  /\ pc' = [pc EXCEPT ![c] = "loading"]
  /\ load' = [load EXCEPT ![c] = [startedIn |-> generation, windows |-> None]]
  /\ inflight' = [inflight EXCEPT ![k] = c]
  /\ outrun' = [d \in Callers |->
                  IF d = c THEN FALSE
                  ELSE outrun[d] \/ (fresh /\ Running(d) /\ request[d] = k)]

(* The loader reads the windows first and the figures after them.          *)
Read(c) ==
  /\ pc[c] = "loading"
  /\ pc' = [pc EXCEPT ![c] = "loaded"]
  /\ load' = [load EXCEPT ![c].windows = windows]
  /\ UNCHANGED <<windows, unclear, cache, request, outrun>>

(* Seeded fault: the cache is let grow one entry too far.                  *)
EvictLate ==
  LET live == {j \in Cached : entries[j].left > 0}
  IN  IF Cardinality(Cached) <= MaxEntries THEN Cached ELSE live

(* What is left when an entry is about to be set: a full cache drops what  *)
(* has expired, and else the key inserted first.  Setting a key anew does  *)
(* not make it younger, and evicts as well.  The cache never holds more    *)
(* than MaxEntries, so the loop runs once at most.                         *)
Kept ==
  LET live   == {j \in Cached : entries[j].left > 0}
      oldest == {j \in live : \A i \in live \ {j} : <<j, i>> \in older}
  IN  IF Cardinality(Cached) < MaxEntries THEN Cached
      ELSE IF Cardinality(live) < MaxEntries THEN live
      ELSE live \ oldest

(* Seeded fault: whatever has been loaded is stored.                       *)
StoresAlways(c) == TRUE

Stores(c) == load[c].startedIn = generation

SetEntry(c) ==
  LET k    == request[c]
      kept == Kept
  IN  /\ entries' = [j \in Keys |->
                       IF j = k
                       THEN [windows |-> load[c].windows, left |-> TTL]
                       ELSE IF j \in kept THEN entries[j] ELSE None]
      /\ older' = {p \in older : p[1] \in kept /\ p[2] \in kept}
                    \cup {<<j, k>> : j \in IF k \in kept THEN {} ELSE kept}

(* Seeded fault: a load that ends takes away whatever may be joined.       *)
LeaveAny(c) == [inflight EXCEPT ![request[c]] = None]

Leave(c) ==
  IF inflight[request[c]] = c
  THEN [inflight EXCEPT ![request[c]] = None]
  ELSE inflight

(* Seeded fault: only the caller that loads is answered.                   *)
WaitingAlone(c) == {c}

(* Everybody who is answered by the load of c.                             *)
Waiting(c) == {c} \cup {d \in Callers : pc[d] = "joined" /\ load[d] = c}

Settle(c) ==
  /\ inflight' = Leave(c)
  /\ pc' = [d \in Callers |-> IF d \in Waiting(c) THEN "idle" ELSE pc[d]]
  /\ load' = [d \in Callers |-> IF d \in Waiting(c) THEN None ELSE load[d]]
  /\ request' = [d \in Callers |-> IF d \in Waiting(c) THEN None ELSE request[d]]
  /\ outrun' = [outrun EXCEPT ![c] = FALSE]

Finish(c) ==
  /\ pc[c] = "loaded"
  /\ IF Stores(c) THEN SetEntry(c) ELSE UNCHANGED <<entries, older>>
  /\ Settle(c)
  /\ UNCHANGED <<windows, unclear, generation>>

(* A query throws: nothing is stored.                                      *)
Fail(c) ==
  /\ Running(c)
  /\ Settle(c)
  /\ UNCHANGED <<windows, unclear, entries, older, generation>>

-----------------------------------------------------------------------------
(* updateParThresholdConfig commits, and clears the cache after that.      *)

UpdateWindows ==
  /\ windows < MaxUpdates
  /\ windows' = windows + 1 /\ unclear' = unclear + 1
  /\ UNCHANGED <<cache, pc, request, load, outrun>>

Clear ==
  /\ unclear > 0
  /\ unclear' = unclear - 1
  /\ generation' = generation + 1
  /\ entries' = [k \in Keys |-> None] /\ older' = {}
  /\ inflight' = [k \in Keys |-> None]
  /\ UNCHANGED <<windows, pc, request, load, outrun>>

Tick ==
  /\ \E k \in Keys : Hit(k)
  /\ entries' = [k \in Keys |-> IF Hit(k) THEN [entries[k] EXCEPT !.left = @ - 1]
                                          ELSE entries[k]]
  /\ UNCHANGED <<windows, unclear, older, inflight, generation, pc, request, load, outrun>>

Init ==
  /\ windows = 0 /\ unclear = 0 /\ generation = 0
  /\ entries = [k \in Keys |-> None] /\ older = {}
  /\ inflight = [k \in Keys |-> None]
  /\ pc = [c \in Callers |-> "idle"]
  /\ request = [c \in Callers |-> None]
  /\ load = [c \in Callers |-> None]
  /\ outrun = [c \in Callers |-> FALSE]

Ends(c) == Finish(c) \/ Fail(c)

Next ==
  \/ UpdateWindows \/ Clear \/ Tick
  \/ \E c \in Callers :
       \/ Read(c) \/ Ends(c)
       \/ \E k \in Keys, fresh \in BOOLEAN : Join(c, k, fresh) \/ Start(c, k, fresh)

Spec == Init /\ [][Next]_vars

(* Queries are answered or fail.                                           *)
FairSpec == Spec /\ \A c \in Callers : WF_vars(Read(c)) /\ WF_vars(Ends(c))

-----------------------------------------------------------------------------
(* What must hold. *)

(* Every variable has its type, and the cache stays within its size.       *)
TypeOK ==
  /\ windows \in 0..MaxUpdates
  /\ unclear \in 0..MaxUpdates /\ generation \in 0..MaxUpdates
  /\ entries \in [Keys -> Entry \cup {None}]
  /\ Cardinality(Cached) <= MaxEntries
  /\ older \subseteq Cached \X Cached
  /\ inflight \in [Keys -> Callers \cup {None}]
  /\ pc \in [Callers -> {"idle", "loading", "loaded", "joined"}]
  /\ request \in [Callers -> Keys \cup {None}]
  /\ load \in [Callers -> Load \cup Callers \cup {None}]
  /\ outrun \in [Callers -> BOOLEAN]

(* Once every update of the windows has cleared the cache, no dashboard in *)
(* it was computed with earlier windows, however long a load has taken.    *)
WindowsCurrent ==
  unclear = 0 => \A k \in Cached : entries[k].windows = windows

(* Of the loads of one dashboard since the cache was cleared at most one   *)
(* has not been overtaken by a refresh: requests at the same time share    *)
(* one load.                                                               *)
LoadsShared ==
  \A c, d \in Callers :
    c # d /\ Running(c) /\ Running(d) /\ request[c] = request[d]
      /\ load[c].startedIn = load[d].startedIn
      => outrun[c] \/ outrun[d]

(* Every request is answered, those that joined a load of somebody else    *)
(* too, even when the cache has been cleared meanwhile.                    *)
RequestsAnswered ==
  \A c \in Callers : (pc[c] # "idle") ~> (pc[c] = "idle")
=============================================================================
