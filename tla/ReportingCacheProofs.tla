------------------------ MODULE ReportingCacheProofs ------------------------
(***************************************************************************)
(* That the cache stays within its size, serves no dashboard of earlier    *)
(* windows once they have cleared it, and lets requests at the same time   *)
(* share a load, for every number of requests, keys, entries and updates.  *)
(***************************************************************************)
EXTENDS ReportingCache, SummationProofs, FiniteSetTheorems

(* The order of insertion is a strict total order on what is cached. *)
Ordered ==
  /\ older \subseteq Cached \X Cached
  /\ \A j, k \in Cached :
       /\ <<j, k>> \in older => <<k, j>> \notin older
       /\ j # k => <<j, k>> \in older \/ <<k, j>> \in older
       /\ \A l \in Cached :
            <<j, k>> \in older /\ <<k, l>> \in older => <<j, l>> \in older

CacheOk ==
  /\ IsFiniteSet(Cached)
  /\ Cardinality(Cached) <= MaxEntries
  /\ Ordered

Typed ==
  /\ windows \in 0..MaxUpdates
  /\ unclear \in 0..MaxUpdates /\ generation \in 0..MaxUpdates
  /\ generation + unclear = windows
  /\ entries \in [Keys -> Entry \cup {None}]
  /\ inflight \in [Keys -> Callers \cup {None}]
  /\ pc \in [Callers -> {"idle", "loading", "loaded", "joined"}]
  /\ request \in [Callers -> Keys \cup {None}]
  /\ load \in [Callers -> Load \cup Callers \cup {None}]
  /\ outrun \in [Callers -> BOOLEAN]

(* A load of this generation that no refresh has overtaken is the one to   *)
(* join, and what it has read is current when no update is uncleared.      *)
LoadOk(c) ==
  /\ Running(c) =>
       /\ request[c] \in Keys /\ load[c] \in Load
       /\ load[c].startedIn <= generation
       /\ load[c].startedIn = generation /\ ~outrun[c] =>
            inflight[request[c]] = c
  /\ pc[c] = "loaded" =>
       /\ load[c].windows \in 0..MaxUpdates
       /\ unclear = 0 /\ load[c].startedIn = generation =>
            load[c].windows = windows

IInv ==
  /\ Typed
  /\ CacheOk
  /\ WindowsCurrent
  /\ \A c \in Callers : LoadOk(c)
  /\ LoadsShared

-----------------------------------------------------------------------------
(* The entry inserted first. *)

Least(S) == \E m \in S : \A i \in S \ {m} : <<m, i>> \in older

LEMMA FiniteHasLeast ==
  ASSUME Ordered, NEW S \in SUBSET Cached, IsFiniteSet(S), S # {}
  PROVE  Least(S)
PROOF
<1> DEFINE T == {n \in Nat : \A R \in SUBSET Cached :
                   IsFiniteSet(R) /\ Cardinality(R) = n /\ R # {} => Least(R)}
<1>1. 0 \in T
  BY FS_EmptySet
<1>2. ASSUME NEW n \in T
      PROVE  n + 1 \in T
  <2> SUFFICES ASSUME NEW R \in SUBSET Cached, IsFiniteSet(R),
                      Cardinality(R) = n + 1, R # {}
               PROVE  Least(R)
    OBVIOUS
  <2>1. PICK x \in R : TRUE
    OBVIOUS
  <2>2. PICK Q : Q = R \ {x}
    OBVIOUS
  <2>3. IsFiniteSet(Q) /\ Cardinality(Q) = n /\ Q \in SUBSET Cached
    <3>1. n \in Nat
      OBVIOUS
    <3>2. IsFiniteSet(Q) /\ Cardinality(Q) = Cardinality(R) - 1
      BY <2>1, <2>2, FS_RemoveElement
    <3> QED
      BY <2>2, <3>1, <3>2
  <2>4. CASE Q = {}
    BY <2>1, <2>2, <2>4 DEF Least
  <2>5. CASE Q # {}
    <3>1. PICK m \in Q : \A i \in Q \ {m} : <<m, i>> \in older
      BY <2>3, <2>5 DEF Least
    <3>2. x \in Cached /\ m \in Cached /\ x # m
      BY <2>1, <2>2, <3>1
    <3>3. CASE <<m, x>> \in older
      BY <2>2, <3>1, <3>3 DEF Least
    <3>4. CASE <<x, m>> \in older
      <4>1. ASSUME NEW i \in R \ {x} PROVE <<x, i>> \in older
        <5>1. i \in Cached /\ i \in Q
          BY <2>2
        <5>2. CASE i = m
          BY <3>4, <5>2
        <5>3. CASE i # m
          <6>1. <<m, i>> \in older
            BY <3>1, <5>1, <5>3
          <6> QED
            BY <3>2, <3>4, <5>1, <6>1 DEF Ordered
        <5> QED
          BY <5>2, <5>3
      <4> QED
        BY <2>1, <4>1 DEF Least
    <3> QED
      BY <3>2, <3>3, <3>4 DEF Ordered
  <2> QED
    BY <2>4, <2>5
<1>3. T \in SUBSET Nat
  OBVIOUS
<1>4. T = Nat
  <2> HIDE DEF T
  <2> QED
    BY <1>1, <1>2, <1>3, SetInduction
<1>5. Cardinality(S) \in Nat
  BY FS_CardinalityType
<1> QED
  BY <1>4, <1>5

(* Eviction leaves room for one entry. *)
LEMMA RoomIsMade ==
  ASSUME Typed, CacheOk
  PROVE  /\ Kept \subseteq Cached
         /\ IsFiniteSet(Kept)
         /\ Cardinality(Kept) < MaxEntries
PROOF
<1>1. PICK live : live = {j \in Cached : entries[j].left > 0}
  OBVIOUS
<1>2. PICK oldest :
        oldest = {j \in live : \A i \in live \ {j} : <<j, i>> \in older}
  OBVIOUS
<1>3. Kept = IF Cardinality(Cached) < MaxEntries THEN Cached
             ELSE IF Cardinality(live) < MaxEntries THEN live
             ELSE live \ oldest
  BY <1>1, <1>2 DEF Kept
<1>4. /\ IsFiniteSet(Cached) /\ Cardinality(Cached) <= MaxEntries
      /\ Cardinality(Cached) \in Nat /\ MaxEntries \in Nat \ {0}
  BY FS_CardinalityType, CacheAssumption DEF CacheOk
<1>5. /\ live \in SUBSET Cached /\ IsFiniteSet(live)
      /\ Cardinality(live) <= Cardinality(Cached)
      /\ Cardinality(live) \in Nat
  <2>1. live \in SUBSET Cached
    BY <1>1
  <2> QED
    BY <1>4, <2>1, FS_Subset, FS_CardinalityType
<1>6. CASE Cardinality(live) < MaxEntries
  BY <1>3, <1>4, <1>5, <1>6
<1>7. CASE ~ (Cardinality(live) < MaxEntries)
  <2>1. live # {}
    BY <1>4, <1>5, <1>7, FS_EmptySet
  <2>2. PICK m \in live : \A i \in live \ {m} : <<m, i>> \in older
    BY <1>5, <2>1, FiniteHasLeast DEF CacheOk, Least
  <2>3. m \in oldest
    BY <1>2, <2>2
  <2>4. /\ IsFiniteSet(live \ {m})
        /\ Cardinality(live \ {m}) = Cardinality(live) - 1
    BY <1>5, <2>2, FS_RemoveElement
  <2>5. live \ oldest \in SUBSET (live \ {m})
    BY <2>3
  <2>6. /\ IsFiniteSet(live \ oldest)
        /\ Cardinality(live \ oldest) <= Cardinality(live \ {m})
    BY <2>4, <2>5, FS_Subset
  <2>7. Cardinality(live \ oldest) \in Nat
    BY <2>6, FS_CardinalityType
  <2> QED
    BY <1>3, <1>4, <1>5, <2>4, <2>6, <2>7
<1> QED
  BY <1>6, <1>7

-----------------------------------------------------------------------------
(* What a finished load stores. *)

LEMMA EntrySet ==
  ASSUME IInv, NEW c \in Callers, pc[c] = "loaded", Stores(c), SetEntry(c),
         UNCHANGED <<windows, unclear>>
  PROVE  /\ entries' \in [Keys -> Entry \cup {None}]
         /\ CacheOk'
         /\ WindowsCurrent'
PROOF
<1>1. PICK k \in Keys : k = request[c]
  BY DEF IInv, LoadOk, Running
<1>2. PICK kept : kept = Kept
  OBVIOUS
<1>3. kept \subseteq Cached /\ IsFiniteSet(kept) /\ Cardinality(kept) < MaxEntries
  BY <1>2, RoomIsMade DEF IInv
<1>4. PICK e : e = [windows |-> load[c].windows, left |-> TTL]
  OBVIOUS
<1>5. e \in Entry /\ e # None /\ e.windows = load[c].windows
  BY <1>4, CacheAssumption DEF IInv, LoadOk, Entry
<1>6. /\ entries' = [j \in Keys |-> IF j = k THEN e
                                    ELSE IF j \in kept THEN entries[j] ELSE None]
      /\ older' = {p \in older : p[1] \in kept /\ p[2] \in kept}
                    \cup {<<j, k>> : j \in IF k \in kept THEN {} ELSE kept}
  BY <1>1, <1>2, <1>4 DEF SetEntry
<1>7. entries \in [Keys -> Entry \cup {None}]
  BY DEF IInv, Typed
<1>8. entries' \in [Keys -> Entry \cup {None}]
  BY <1>5, <1>6, <1>7
<1>9. Cached' = kept \cup {k}
  BY <1>3, <1>5, <1>6, <1>7 DEF Cached
<1>10. IsFiniteSet(Cached') /\ Cardinality(Cached') <= MaxEntries
  <2>1. Cardinality(kept) \in Nat /\ MaxEntries \in Nat
    BY <1>3, FS_CardinalityType, CacheAssumption
  <2>2. /\ IsFiniteSet(kept \cup {k})
        /\ Cardinality(kept \cup {k}) =
             IF k \in kept THEN Cardinality(kept) ELSE Cardinality(kept) + 1
    BY <1>3, FS_AddElement
  <2> QED
    BY <1>3, <1>9, <2>1, <2>2
<1>11. ASSUME NEW i \in kept \cup {k}, NEW j \in kept \cup {k}
       PROVE  <<i, j>> \in older' <=>
                \/ i \in kept /\ j \in kept /\ <<i, j>> \in older
                \/ i \in kept /\ j = k /\ k \notin kept
  BY <1>6
<1>12. Ordered'
  <2>1. Ordered
    BY DEF IInv, CacheOk
  <2>2. older' \subseteq (kept \cup {k}) \X (kept \cup {k})
    BY <1>6, <2>1 DEF Ordered
  <2>3. ASSUME NEW i \in kept \cup {k}, NEW j \in kept \cup {k}
        PROVE  /\ <<i, j>> \in older' => <<j, i>> \notin older'
               /\ i # j => <<i, j>> \in older' \/ <<j, i>> \in older'
    <3>1. i \in kept /\ j \in kept =>
            /\ <<i, j>> \in older => <<j, i>> \notin older
            /\ i # j => <<i, j>> \in older \/ <<j, i>> \in older
      BY <1>3, <2>1 DEF Ordered
    <3> QED
      BY <1>11, <3>1
  <2>4. ASSUME NEW i \in kept \cup {k}, NEW j \in kept \cup {k},
               NEW l \in kept \cup {k}, <<i, j>> \in older', <<j, l>> \in older'
        PROVE  <<i, l>> \in older'
    <3>1. i \in kept /\ j \in kept /\ l \in kept
            /\ <<i, j>> \in older /\ <<j, l>> \in older => <<i, l>> \in older
      BY <1>3, <2>1 DEF Ordered
    <3> QED
      BY <1>11, <2>4, <3>1
  <2>5. PICK S : S = Cached' /\ S = kept \cup {k}
    BY <1>9
  <2>6. older' \subseteq S \X S
    BY <2>2, <2>5
  <2>7. \A i, j \in S :
          /\ <<i, j>> \in older' => <<j, i>> \notin older'
          /\ i # j => <<i, j>> \in older' \/ <<j, i>> \in older'
          /\ \A l \in S : <<i, j>> \in older' /\ <<j, l>> \in older'
                          => <<i, l>> \in older'
    BY <2>3, <2>4, <2>5
  <2> QED
    BY <2>5, <2>6, <2>7 DEF Ordered
<1>13. WindowsCurrent'
  <2> SUFFICES ASSUME unclear' = 0, NEW j \in kept \cup {k}
               PROVE  entries'[j].windows = windows'
    BY <1>9 DEF WindowsCurrent
  <2>1. CASE j = k
    <3>1. load[c].windows = windows
      BY DEF IInv, LoadOk, Stores
    <3> QED
      BY <1>1, <1>5, <1>6, <2>1, <3>1
  <2>2. CASE j # k
    <3>1. j \in Cached /\ j \in Keys /\ j \in kept
      BY <1>3, <2>2 DEF Cached
    <3> QED
      BY <1>6, <2>2, <3>1 DEF IInv, WindowsCurrent
  <2> QED
    BY <2>1, <2>2
<1> QED
  BY <1>8, <1>10, <1>12, <1>13 DEF CacheOk

(* A load that has settled leaves the others alone. *)
LEMMA OthersRemain ==
  ASSUME IInv, NEW c \in Callers, Running(c), Settle(c),
         UNCHANGED <<windows, unclear, generation>>
  PROVE  /\ inflight' \in [Keys -> Callers \cup {None}]
         /\ pc' \in [Callers -> {"idle", "loading", "loaded", "joined"}]
         /\ request' \in [Callers -> Keys \cup {None}]
         /\ load' \in [Callers -> Load \cup Callers \cup {None}]
         /\ outrun' \in [Callers -> BOOLEAN]
         /\ \A d \in Callers : LoadOk(d)'
         /\ LoadsShared'
PROOF
<1>1. Typed
  BY DEF IInv
<1>2. PICK k \in Keys : k = request[c]
  BY DEF IInv, LoadOk
<1>3. /\ inflight' = IF inflight[k] = c THEN [inflight EXCEPT ![k] = None]
                     ELSE inflight
      /\ inflight' \in [Keys -> Callers \cup {None}]
  BY <1>1, <1>2 DEF Settle, Leave, Typed
<1>4. PICK W : W = Waiting(c)
  OBVIOUS
<1>5. /\ pc' = [d \in Callers |-> IF d \in W THEN "idle" ELSE pc[d]]
      /\ load' = [d \in Callers |-> IF d \in W THEN None ELSE load[d]]
      /\ request' = [d \in Callers |-> IF d \in W THEN None ELSE request[d]]
      /\ outrun' = [outrun EXCEPT ![c] = FALSE]
  BY <1>4 DEF Settle
<1>6. /\ pc' \in [Callers -> {"idle", "loading", "loaded", "joined"}]
      /\ request' \in [Callers -> Keys \cup {None}]
      /\ load' \in [Callers -> Load \cup Callers \cup {None}]
      /\ outrun' \in [Callers -> BOOLEAN]
  BY <1>1, <1>5 DEF Typed
<1>7. ASSUME NEW d \in Callers, Running(d)'
      PROVE  /\ d # c /\ Running(d)
             /\ pc'[d] = pc[d] /\ request'[d] = request[d]
             /\ load'[d] = load[d] /\ outrun'[d] = outrun[d]
  <2>1. c \in W
    BY <1>4 DEF Waiting
  <2>2. d \notin W
    BY <1>5, <1>7 DEF Running
  <2> QED
    BY <1>1, <1>5, <1>7, <2>1, <2>2 DEF Running, Typed
<1>8. ASSUME NEW d \in Callers PROVE LoadOk(d)'
  <2> SUFFICES ASSUME Running(d)' PROVE LoadOk(d)'
    BY DEF LoadOk, Running
  <2>1. LoadOk(d)
    BY DEF IInv
  <2>2. inflight[request[d]] = d => inflight'[request[d]] = d
    BY <1>1, <1>3, <1>7 DEF Typed
  <2> QED
    BY <1>7, <2>1, <2>2 DEF LoadOk
<1>9. LoadsShared'
  <2> SUFFICES ASSUME NEW d \in Callers, NEW e \in Callers, d # e,
                      Running(d)', Running(e)', request'[d] = request'[e],
                      load'[d].startedIn = load'[e].startedIn
               PROVE  outrun'[d] \/ outrun'[e]
    BY DEF LoadsShared
  <2> QED
    BY <1>7 DEF IInv, LoadsShared
<1> QED
  BY <1>3, <1>6, <1>8, <1>9

-----------------------------------------------------------------------------
(* Each step keeps the invariant. *)

LEMMA EndsKeeps ==
  ASSUME IInv, NEW c \in Callers, Ends(c)
  PROVE  IInv'
PROOF
<1>1. Running(c) /\ Settle(c) /\ UNCHANGED <<windows, unclear, generation>>
  BY DEF Ends, Finish, Fail, Running
<1>2. /\ entries' \in [Keys -> Entry \cup {None}]
      /\ CacheOk' /\ WindowsCurrent'
  <2>1. CASE UNCHANGED <<entries, older>>
    BY <1>1, <2>1 DEF IInv, Typed, CacheOk, Cached, Ordered, WindowsCurrent
  <2>2. CASE pc[c] = "loaded" /\ Stores(c) /\ SetEntry(c)
    BY <1>1, <2>2, EntrySet
  <2> QED
    BY <2>1, <2>2 DEF Ends, Finish, Fail
<1> QED
  BY <1>1, <1>2, OthersRemain DEF IInv, Typed

LEMMA UpdateKeeps ==
  ASSUME IInv, UpdateWindows
  PROVE  IInv'
PROOF
<1>1. /\ windows < MaxUpdates
      /\ windows' = windows + 1 /\ unclear' = unclear + 1
      /\ UNCHANGED <<entries, older, inflight, generation, pc, request, load,
                     outrun>>
  BY DEF UpdateWindows, cache
<1>2. Typed /\ MaxUpdates \in Nat
  BY CacheAssumption DEF IInv
<1>3. Typed'
  BY <1>1, <1>2 DEF Typed
<1>4. unclear' # 0
  BY <1>1, <1>2 DEF Typed
<1>5. CacheOk'
  BY <1>1 DEF IInv, CacheOk, Cached, Ordered
<1>6. \A c \in Callers : LoadOk(c)'
  BY <1>1, <1>4 DEF IInv, LoadOk, Running
<1>7. LoadsShared'
  BY <1>1 DEF IInv, LoadsShared, Running
<1> QED
  BY <1>3, <1>4, <1>5, <1>6, <1>7 DEF IInv, WindowsCurrent

LEMMA ClearKeeps ==
  ASSUME IInv, Clear
  PROVE  IInv'
PROOF
<1>1. /\ unclear > 0 /\ unclear' = unclear - 1 /\ generation' = generation + 1
      /\ entries' = [k \in Keys |-> None] /\ older' = {}
      /\ inflight' = [k \in Keys |-> None]
      /\ UNCHANGED <<windows, pc, request, load, outrun>>
  BY DEF Clear
<1>2. Typed /\ MaxUpdates \in Nat
  BY CacheAssumption DEF IInv
<1>3. Typed'
  BY <1>1, <1>2 DEF Typed
<1>4. Cached' = {}
  BY <1>1 DEF Cached
<1>5. CacheOk'
  BY <1>1, <1>4, FS_EmptySet, CacheAssumption DEF CacheOk, Ordered
<1>6. ASSUME NEW c \in Callers PROVE LoadOk(c)'
  <2>1. LoadOk(c)
    BY DEF IInv
  <2>2. Running(c) => load[c].startedIn \in Nat
    BY <1>2, <2>1 DEF LoadOk, Load
  <2>3. generation \in Nat
    BY <1>2 DEF Typed
  <2> QED
    BY <1>1, <2>1, <2>2, <2>3 DEF LoadOk, Running
<1>7. LoadsShared'
  BY <1>1 DEF IInv, LoadsShared, Running
<1> QED
  BY <1>3, <1>4, <1>5, <1>6, <1>7 DEF IInv, WindowsCurrent

LEMMA TickKeeps ==
  ASSUME IInv, Tick
  PROVE  IInv'
PROOF
<1>1. /\ entries' = [k \in Keys |->
                       IF Hit(k) THEN [entries[k] EXCEPT !.left = @ - 1]
                       ELSE entries[k]]
      /\ UNCHANGED <<windows, unclear, older, inflight, generation, pc,
                     request, load, outrun>>
  BY DEF Tick
<1>2. Typed
  BY DEF IInv
<1>3. ASSUME NEW k \in Keys
      PROVE  /\ entries'[k] \in Entry \cup {None}
             /\ entries'[k] # None <=> entries[k] # None
             /\ entries[k] # None => entries'[k].windows = entries[k].windows
  <2>1. entries[k] \in Entry \cup {None}
    BY <1>2 DEF Typed
  <2>2. CASE Hit(k)
    <3>1. PICK w \in 0..MaxUpdates, l \in 0..TTL :
            entries[k] = [windows |-> w, left |-> l]
      BY <2>1, <2>2 DEF Hit, Entry
    <3>2. l - 1 \in 0..TTL
      BY <2>2, <3>1, CacheAssumption DEF Hit
    <3>3. entries'[k] = [windows |-> w, left |-> l - 1]
      BY <1>1, <2>2, <3>1
    <3>4. entries'[k] \in Entry
      BY <3>2, <3>3 DEF Entry
    <3> QED
      BY <2>2, <3>1, <3>3, <3>4, CacheAssumption DEF Hit
  <2>3. CASE ~ Hit(k)
    BY <1>1, <2>1, <2>3
  <2> QED
    BY <2>2, <2>3
<1>4. Typed'
  <2>1. entries' \in [Keys -> Entry \cup {None}]
    BY <1>1, <1>3
  <2> QED
    BY <1>1, <1>2, <2>1 DEF Typed
<1>5. Cached' = Cached
  BY <1>3 DEF Cached
<1>6. CacheOk'
  <2>1. CacheOk /\ older' = older
    BY <1>1 DEF IInv
  <2>2. PICK S : S = Cached /\ S = Cached'
    BY <1>5
  <2>3. Ordered
    BY <2>1 DEF CacheOk
  <2>4. Ordered'
    BY <2>1, <2>2, <2>3 DEF Ordered
  <2> QED
    BY <1>5, <2>1, <2>4 DEF CacheOk
<1>7. WindowsCurrent'
  BY <1>1, <1>3, <1>5 DEF IInv, WindowsCurrent, Cached
<1>8. /\ \A c \in Callers : LoadOk(c)'
      /\ LoadsShared'
  BY <1>1 DEF IInv, LoadOk, LoadsShared, Running
<1> QED
  BY <1>4, <1>6, <1>7, <1>8 DEF IInv

LEMMA ReadKeeps ==
  ASSUME IInv, NEW c \in Callers, Read(c)
  PROVE  IInv'
PROOF
<1>1. /\ pc[c] = "loading"
      /\ pc' = [pc EXCEPT ![c] = "loaded"]
      /\ load' = [load EXCEPT ![c].windows = windows]
      /\ UNCHANGED <<windows, unclear, entries, older, inflight, generation,
                     request, outrun>>
  BY DEF Read, cache
<1>2. Typed /\ LoadOk(c) /\ Running(c)
  BY <1>1 DEF IInv, Running
<1>3. PICK s \in 0..MaxUpdates, w \in 0..MaxUpdates \cup {None} :
        load[c] = [startedIn |-> s, windows |-> w]
  BY <1>2 DEF LoadOk, Load
<1>4. PICK l : l = [startedIn |-> s, windows |-> windows]
  OBVIOUS
<1>5. l \in Load /\ l.startedIn = load[c].startedIn /\ l.windows = windows
  BY <1>2, <1>3, <1>4 DEF Load, Typed
<1>6. load' = [load EXCEPT ![c] = l]
  <2>1. l = [load[c] EXCEPT !.windows = windows]
    BY <1>3, <1>4
  <2> QED
    BY <1>1, <2>1
<1>7. Typed'
  BY <1>1, <1>2, <1>5, <1>6 DEF Typed
<1>8. CacheOk' /\ WindowsCurrent'
  BY <1>1 DEF IInv, CacheOk, Ordered, Cached, WindowsCurrent
<1>9. /\ load'[c] = l /\ pc'[c] = "loaded"
      /\ \A d \in Callers \ {c} : load'[d] = load[d] /\ pc'[d] = pc[d]
  BY <1>1, <1>2, <1>6 DEF Typed
<1>10. ASSUME NEW d \in Callers
       PROVE  /\ Running(d)' <=> Running(d)
              /\ Running(d) => load'[d].startedIn = load[d].startedIn
  BY <1>2, <1>5, <1>9 DEF Running
<1>11. ASSUME NEW d \in Callers PROVE LoadOk(d)'
  <2>1. LoadOk(d)
    BY DEF IInv
  <2>2. CASE d = c
    BY <1>1, <1>2, <1>5, <1>9, <2>1, <2>2 DEF LoadOk, Running, Typed
  <2>3. CASE d # c
    BY <1>1, <1>9, <2>1, <2>3 DEF LoadOk, Running
  <2> QED
    BY <2>2, <2>3
<1>12. LoadsShared'
  BY <1>1, <1>10 DEF IInv, LoadsShared
<1> QED
  BY <1>7, <1>8, <1>11, <1>12 DEF IInv

LEMMA JoinKeeps ==
  ASSUME IInv, NEW c \in Callers, NEW k \in Keys, NEW fresh \in BOOLEAN,
         Join(c, k, fresh)
  PROVE  IInv'
PROOF
<1>1. /\ pc[c] = "idle" /\ inflight[k] # None
      /\ request' = [request EXCEPT ![c] = k]
      /\ pc' = [pc EXCEPT ![c] = "joined"]
      /\ load' = [load EXCEPT ![c] = inflight[k]]
      /\ UNCHANGED <<windows, unclear, entries, older, generation, inflight,
                     outrun>>
  BY DEF Join, Ask, Joins
<1>2. Typed
  BY DEF IInv
<1>3. Typed'
  BY <1>1, <1>2 DEF Typed
<1>4. CacheOk' /\ WindowsCurrent'
  BY <1>1 DEF IInv, CacheOk, Ordered, Cached, WindowsCurrent
<1>5. ASSUME NEW d \in Callers, Running(d)'
      PROVE  /\ Running(d) /\ pc'[d] = pc[d] /\ load'[d] = load[d]
             /\ request'[d] = request[d]
  BY <1>1, <1>2, <1>5 DEF Running, Typed
<1>6. \A d \in Callers : LoadOk(d)'
  BY <1>1, <1>5 DEF IInv, LoadOk, Running
<1>7. LoadsShared'
  BY <1>1, <1>5 DEF IInv, LoadsShared
<1> QED
  BY <1>3, <1>4, <1>6, <1>7 DEF IInv

LEMMA StartKeeps ==
  ASSUME IInv, NEW c \in Callers, NEW k \in Keys, NEW fresh \in BOOLEAN,
         Start(c, k, fresh)
  PROVE  IInv'
PROOF
<1>1. PICK l : l = [startedIn |-> generation, windows |-> None]
  OBVIOUS
<1>2. /\ pc[c] = "idle"
      /\ fresh \/ inflight[k] = None
      /\ request' = [request EXCEPT ![c] = k]
      /\ pc' = [pc EXCEPT ![c] = "loading"]
      /\ load' = [load EXCEPT ![c] = l]
      /\ inflight' = [inflight EXCEPT ![k] = c]
      /\ outrun' = [d \in Callers |->
           IF d = c THEN FALSE
           ELSE outrun[d] \/ (fresh /\ Running(d) /\ request[d] = k)]
      /\ UNCHANGED <<windows, unclear, entries, older, generation>>
  BY <1>1 DEF Start, Ask, Joins
<1>3. Typed
  BY DEF IInv
<1>4. l \in Load /\ l.startedIn = generation
  BY <1>1, <1>3 DEF Load, Typed
<1>5. outrun' \in [Callers -> BOOLEAN]
  <2>1. ASSUME NEW d \in Callers
        PROVE  (IF d = c THEN FALSE
                ELSE outrun[d] \/ (fresh /\ Running(d) /\ request[d] = k))
                 \in BOOLEAN
    OBVIOUS
  <2> QED
    BY <1>2, <2>1
<1>6. Typed'
  BY <1>2, <1>3, <1>4, <1>5 DEF Typed
<1>7. CacheOk' /\ WindowsCurrent'
  BY <1>2 DEF IInv, CacheOk, Ordered, Cached, WindowsCurrent
<1>8. ASSUME NEW d \in Callers \ {c}
      PROVE  /\ pc'[d] = pc[d] /\ load'[d] = load[d] /\ request'[d] = request[d]
             /\ Running(d)' <=> Running(d)
             /\ outrun[d] => outrun'[d]
  BY <1>2, <1>3 DEF Running, Typed
<1>9. pc'[c] = "loading" /\ load'[c] = l /\ request'[c] = k /\ ~ outrun'[c]
      /\ inflight'[k] = c
  BY <1>2, <1>3 DEF Typed
<1>10. ASSUME NEW d \in Callers \ {c}, Running(d), request[d] = k,
              load[d].startedIn = generation
       PROVE  outrun'[d]
  <2>1. ~ outrun[d] => inflight[k] = d
    BY <1>10 DEF IInv, LoadOk
  <2>2. d # None
    BY CacheAssumption
  <2> QED
    BY <1>2, <1>10, <2>1, <2>2
<1>11. ASSUME NEW d \in Callers PROVE LoadOk(d)'
  <2>1. CASE d = c
    BY <1>2, <1>3, <1>4, <1>9, <2>1 DEF LoadOk, Running, Typed
  <2>2. CASE d # c
    <3>1. LoadOk(d)
      BY DEF IInv
    <3>2. Running(d) /\ request[d] # k => inflight'[request[d]] = inflight[request[d]]
      BY <1>2, <1>3, <3>1 DEF LoadOk, Typed
    <3>3. Running(d) /\ load[d].startedIn = generation /\ ~ outrun'[d] =>
            inflight'[request[d]] = d
      BY <1>8, <1>10, <2>2, <3>1, <3>2 DEF LoadOk
    <3> QED
      BY <1>2, <1>8, <2>2, <3>1, <3>3 DEF LoadOk, Running
  <2> QED
    BY <2>1, <2>2
<1>12. LoadsShared'
  <2> SUFFICES ASSUME NEW d \in Callers, NEW e \in Callers, d # e,
                      Running(d)', Running(e)', request'[d] = request'[e],
                      load'[d].startedIn = load'[e].startedIn
               PROVE  outrun'[d] \/ outrun'[e]
    BY DEF LoadsShared
  <2>1. CASE d = c
    BY <1>4, <1>8, <1>9, <1>10, <2>1
  <2>2. CASE e = c
    BY <1>4, <1>8, <1>9, <1>10, <2>2
  <2>3. CASE d # c /\ e # c
    BY <1>8, <2>3 DEF IInv, LoadsShared
  <2> QED
    BY <2>1, <2>2, <2>3
<1> QED
  BY <1>6, <1>7, <1>11, <1>12 DEF IInv

LEMMA InitIInv == Init => IInv
PROOF
<1> SUFFICES ASSUME Init PROVE IInv
  OBVIOUS
<1>1. Typed
  BY CacheAssumption DEF Init, Typed
<1>2. Cached = {}
  BY DEF Init, Cached
<1>3. CacheOk
  BY <1>2, FS_EmptySet, CacheAssumption DEF Init, CacheOk, Ordered
<1>4. WindowsCurrent
  BY <1>2 DEF WindowsCurrent
<1>5. (\A c \in Callers : LoadOk(c)) /\ LoadsShared
  BY DEF Init, LoadOk, LoadsShared, Running
<1> QED
  BY <1>1, <1>3, <1>4, <1>5 DEF IInv

LEMMA NextKeeps ==
  ASSUME IInv, [Next]_vars
  PROVE  IInv'
PROOF
<1>1. CASE UNCHANGED vars
  BY <1>1 DEF vars, cache, IInv, Typed, CacheOk, Ordered, Cached,
              WindowsCurrent, LoadOk, LoadsShared, Running
<1>2. CASE UpdateWindows \/ Clear \/ Tick
  BY <1>2, UpdateKeeps, ClearKeeps, TickKeeps
<1>3. ASSUME NEW c \in Callers, Read(c) \/ Ends(c)
      PROVE  IInv'
  BY <1>3, ReadKeeps, EndsKeeps
<1>4. ASSUME NEW c \in Callers, NEW k \in Keys, NEW fresh \in BOOLEAN,
             Join(c, k, fresh) \/ Start(c, k, fresh)
      PROVE  IInv'
  BY <1>4, JoinKeeps, StartKeeps
<1> QED
  BY <1>1, <1>2, <1>3, <1>4 DEF Next

(* The invariant, of every behaviour. *)
THEOREM CacheInvariant == Spec => []IInv
PROOF
<1>1. IInv /\ [Next]_vars => IInv'
  BY NextKeeps
<1> QED
  BY <1>1, InitIInv, PTL DEF Spec

(* Every variable has its type, and the cache never holds more than        *)
(* MaxEntries dashboards, whatever has expired and in whatever order they  *)
(* were stored.                                                            *)
THEOREM CacheTyped == Spec => []TypeOK
PROOF
<1>1. IInv => TypeOK
  BY DEF IInv, Typed, CacheOk, Ordered, TypeOK
<1> QED
  BY <1>1, CacheInvariant, PTL

(* No load that outlasts an update of the windows puts back what it has    *)
(* computed with the earlier ones.                                         *)
THEOREM CachedWindowsCurrent == Spec => []WindowsCurrent
PROOF
<1>1. IInv => WindowsCurrent
  BY DEF IInv
<1> QED
  BY <1>1, CacheInvariant, PTL

(* Requests for one dashboard at the same time share one load, however     *)
(* many there are.                                                         *)
THEOREM ConcurrentLoadsShared == Spec => []LoadsShared
PROOF
<1>1. IInv => LoadsShared
  BY DEF IInv
<1> QED
  BY <1>1, CacheInvariant, PTL
=============================================================================
