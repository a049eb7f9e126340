--------------------------- MODULE RoomCacheProofs ----------------------------
(***************************************************************************)
(* Proof that the cache is coherent but for the excused, for any number of *)
(* handlers and of versions.                                               *)
(***************************************************************************)
EXTENDS RoomCache, FiniteSetTheorems, TLAPS

\* The handlers that are going to write a version of d.
Updating(d) == {j \in Jobs : job[j].at = "update" /\ Of(job[j].key) = d}

\* A version is left for every handler that is going to write one.
VersionsLast ==
    \A d \in Things : version[d] + Cardinality(Updating(d)) <= MaxVersion

\* What a handler holds when it waits for something: whoever writes is going to
\* delete the key that the write makes stale, and no detail is set to a room that
\* is gone.
Holding(w) ==
    /\ w.at # "idle" => w.key \in Keys
    /\ w.at \in {"update", "delete", "invalidate"} => w.key # "list"
    /\ w.at = "delete" => w.key = "detail"
    /\ w.at = "set" /\ w.key = "detail" => w.val # 0

HandlersHold == \A j \in Jobs : Holding(job[j])

CacheInv == TypeOK /\ HandlersHold /\ VersionsLast /\ Coherent

Slots ==
    [at  : {"idle", "query", "set", "update", "delete", "invalidate"},
     key : Keys \cup {None},
     val : Versions \cup {None}]

-----------------------------------------------------------------------------
(* Keys, and handlers that are going to write.                             *)

\* The key that a writer deletes is the one its write makes stale, and the other
\* key that is deleted belongs to the other thing.
LEMMA KeysApart ==
    /\ \A d \in Things : KeyOf(d) \in Keys \ {"list"} /\ Of(KeyOf(d)) = d
    /\ \A k \in Keys : Of(k) \in Things
    /\ \A k \in Keys \ {"list"} : KeyOf(Of(k)) = k
  BY DEF Things, Keys, KeyOf, Of

LEMMA UpdatingCounts ==
    ASSUME NEW d PROVE IsFiniteSet(Updating(d)) /\ Cardinality(Updating(d)) \in Nat
<1>1. Updating(d) \in SUBSET Jobs
  BY DEF Updating
<1>2. IsFiniteSet(Updating(d))
  BY <1>1, CacheAssumption, FS_Subset, Zenon
<1> QED
  BY <1>2, FS_CardinalityType

\* A handler that is not about to write counts for nothing, so the versions last when
\* neither they nor the writers become more.
LEMMA NoMoreUpdating ==
    ASSUME VersionsLast, version \in [Things -> Versions], version' \in [Things -> Versions],
           \A d \in Things : version'[d] <= version[d] /\ Updating(d)' \subseteq Updating(d)
    PROVE  VersionsLast'
<1> SUFFICES ASSUME NEW d \in Things
             PROVE  version'[d] + Cardinality(Updating(d)') <= MaxVersion
  BY DEF VersionsLast
<1>1. Cardinality(Updating(d)') \in Nat /\ Cardinality(Updating(d)') <= Cardinality(Updating(d))
  BY UpdatingCounts, FS_Subset, FS_CardinalityType
<1>2. version[d] \in Nat /\ version'[d] \in Nat
  BY CacheAssumption DEF Versions
<1>3. version'[d] <= version[d] /\ version[d] + Cardinality(Updating(d)) <= MaxVersion
  BY DEF VersionsLast
<1> QED
  BY <1>1, <1>2, <1>3, UpdatingCounts, CacheAssumption

\* A handler that goes on, and is not about to write an update, keeps what is said of
\* the handlers alone.
LEMMA Moves ==
    ASSUME CacheInv, NEW j \in Jobs, NEW w \in Slots,
           job' = [job EXCEPT ![j] = w], w.at # "update", Holding(w)
    PROVE  /\ job' \in [Jobs -> Slots]
           /\ HandlersHold'
           /\ \A d \in Things : Updating(d)' \subseteq Updating(d)
<1>1. job \in [Jobs -> Slots]
  BY DEF CacheInv, TypeOK, Slots
<1>2. \A i \in Jobs : job'[i] = IF i = j THEN w ELSE job[i]
  BY <1>1
<1>3. \A d \in Things : Updating(d)' \subseteq Updating(d)
  BY <1>2 DEF Updating
<1> QED
  BY <1>1, <1>2, <1>3 DEF CacheInv, HandlersHold

LEMMA IdleHolds == Idle \in Slots /\ Idle.at = "idle" /\ Holding(Idle)
  BY DEF Idle, Slots, Holding

\* The handler that waits for the del is there as long as it has not gone on.
LEMMA StillCoherent ==
    ASSUME CacheInv, NEW j \in Jobs, NEW w,
           job' = [job EXCEPT ![j] = w], job[j].at # "invalidate",
           UNCHANGED version,
           \A k \in Keys \ {"list"} : entry'[k] = entry[k] /\ (k \in excused => k \in excused')
    PROVE  Coherent'
<1> SUFFICES ASSUME NEW k \in Keys \ {"list"}, Stale(k)', k \notin excused'
             PROVE  \E i \in Jobs : job'[i].at = "invalidate" /\ job'[i].key = k
  BY DEF Coherent
<1>1. Stale(k) /\ k \notin excused
  BY DEF Stale
<1>2. PICK i \in Jobs : job[i].at = "invalidate" /\ job[i].key = k
  BY <1>1 DEF CacheInv, Coherent
<1> QED
  BY <1>2 DEF CacheInv, TypeOK

-----------------------------------------------------------------------------
(* One lemma per action.                                                   *)

LEMMA InitHolds == Init => CacheInv
<1> SUFFICES ASSUME Init PROVE CacheInv
  OBVIOUS
<1> USE DEF Init
<1>1. TypeOK
  BY CacheAssumption DEF TypeOK, Versions, Idle, Things, Keys
<1>2. HandlersHold
  BY DEF HandlersHold, Holding, Idle
<1>3. VersionsLast
  <2>1. \A d \in Things : Updating(d) = {}
    BY DEF Updating, Idle
  <2> QED
    BY <2>1, FS_EmptySet, CacheAssumption DEF VersionsLast
<1>4. Coherent
  BY DEF Coherent, Stale
<1> QED
  BY <1>1, <1>2, <1>3, <1>4 DEF CacheInv

\* A reader begins.
LEMMA GetKeeps ==
    ASSUME CacheInv, NEW j \in Jobs, NEW k \in Keys, Get(j, k) PROVE CacheInv'
<1> DEFINE w == [at |-> "query", key |-> k, val |-> None]
<1>1. job' = [job EXCEPT ![j] = w] /\ job[j].at # "invalidate"
  BY DEF Get, Start, Idle
<1>2. w \in Slots /\ w.at = "query" /\ Holding(w)
  BY DEF Slots, Holding
<1>3. /\ job' \in [Jobs -> Slots]
      /\ HandlersHold'
      /\ \A d \in Things : Updating(d)' \subseteq Updating(d)
  <2> HIDE DEF w
  <2> QED
    BY <1>1, <1>2, Moves
<1>4. TypeOK'
  BY <1>3 DEF Get, CacheInv, TypeOK, Slots
<1>5. VersionsLast'
  BY <1>3, NoMoreUpdating DEF Get, CacheInv, TypeOK, Versions
<1>6. Coherent'
  BY <1>1, StillCoherent DEF Get
<1> QED
  BY <1>3, <1>4, <1>5, <1>6 DEF CacheInv

LEMMA QueryKeeps ==
    ASSUME CacheInv, NEW j \in Jobs, Query(j) PROVE CacheInv'
<1> USE DEF CacheInv, Query
<1>0. job[j] \in Slots /\ job[j].at = "query" /\ job[j].key \in Keys
  BY DEF TypeOK, Slots, HandlersHold, Holding
<1>1. PICK w \in Slots : /\ job' = [job EXCEPT ![j] = w]
                         /\ w.at \in {"idle", "set"} /\ Holding(w)
  <2>1. CASE job[j].key = "detail" /\ version[Of(job[j].key)] = 0
    <3>1. Idle \in Slots /\ Holding(Idle) /\ Idle.at = "idle"
      BY DEF Idle, Slots, Holding
    <3> QED
      BY <2>1, <3>1 DEF Done
  <2>2. CASE ~(job[j].key = "detail" /\ version[Of(job[j].key)] = 0)
    <3>1. version[Of(job[j].key)] \in Versions
      BY <1>0, KeysApart DEF TypeOK
    <3> DEFINE v == version[Of(job[j].key)]
               w == [job[j] EXCEPT !.at = "set", !.val = v]
    <3>2. w \in Slots /\ w.at = "set" /\ w.val = v /\ w.key = job[j].key
      BY <1>0, <3>1 DEF Slots
    <3>3. Holding(w)
      BY <1>0, <2>2, <3>2 DEF Holding
    <3>4. job' = [job EXCEPT ![j] = w]
      BY <2>2
    <3> QED
      BY <3>2, <3>3, <3>4
  <2> QED
    BY <2>1, <2>2
<1>2. /\ job' \in [Jobs -> Slots]
      /\ HandlersHold'
      /\ \A d \in Things : Updating(d)' \subseteq Updating(d)
  BY <1>1, Moves
<1>3. TypeOK'
  BY <1>2 DEF TypeOK, Slots
<1>4. VersionsLast'
  BY <1>2, NoMoreUpdating DEF TypeOK, Versions
<1>5. Coherent'
  BY <1>0, <1>1, StillCoherent
<1> QED
  BY <1>2, <1>3, <1>4, <1>5

\* What is set is excused when it is stale.
LEMMA SetKeeps ==
    ASSUME CacheInv, NEW j \in Jobs, Set(j) PROVE CacheInv'
<1> USE DEF CacheInv, Set, Done
<1>1. job[j] \in Slots /\ job[j].at = "set" /\ job[j].key \in Keys
  BY DEF TypeOK, Slots, HandlersHold, Holding
<1>2. /\ job' \in [Jobs -> Slots]
      /\ HandlersHold'
      /\ \A d \in Things : Updating(d)' \subseteq Updating(d)
  BY IdleHolds, Moves
<1>3. TypeOK'
  <2>1. entry' \in [Keys -> Versions \cup {None}]
    BY <1>1 DEF TypeOK, Slots
  <2>2. entry'["detail"] # 0
    BY <1>1 DEF TypeOK, HandlersHold, Holding, Keys
  <2>3. excused' \subseteq Keys
    BY <1>1 DEF TypeOK
  <2> QED
    BY <1>2, <2>1, <2>2, <2>3 DEF TypeOK, Slots
<1>4. VersionsLast'
  BY <1>2, NoMoreUpdating DEF TypeOK, Versions
<1>5. Coherent'
  <2> SUFFICES ASSUME NEW k \in Keys \ {"list"}, Stale(k)', k \notin excused'
               PROVE  \E i \in Jobs : job'[i].at = "invalidate" /\ job'[i].key = k
    BY DEF Coherent
  <2>1. k # job[j].key
    BY <1>1 DEF Stale, TypeOK
  <2>2. Stale(k) /\ k \notin excused
    BY <1>1, <2>1 DEF Stale, TypeOK
  <2>3. PICK i \in Jobs : job[i].at = "invalidate" /\ job[i].key = k
    BY <2>2 DEF Coherent
  <2> QED
    BY <1>1, <2>3 DEF TypeOK
<1> QED
  BY <1>2, <1>3, <1>4, <1>5

\* The bound has a version left for one more writer.
LEMMA UpdateFindKeeps ==
    ASSUME CacheInv, NEW j \in Jobs, NEW d \in Things, UpdateFind(j, d) PROVE CacheInv'
<1> DEFINE w == [at |-> "update", key |-> KeyOf(d), val |-> None]
<1>1. job' = [job EXCEPT ![j] = w] /\ job[j].at = "idle"
  BY DEF UpdateFind, Start, Idle
<1>2. w \in Slots /\ w.at = "update" /\ w.key = KeyOf(d) /\ Holding(w)
  BY KeysApart DEF Slots, Holding
<1> HIDE DEF w
<1>3. /\ job' \in [Jobs -> Slots]
      /\ \A i \in Jobs : job'[i] = IF i = j THEN w ELSE job[i]
  BY <1>1, <1>2 DEF CacheInv, TypeOK, Slots
<1>4. HandlersHold'
  BY <1>2, <1>3 DEF CacheInv, HandlersHold
<1>5. TypeOK'
  BY <1>3 DEF UpdateFind, CacheInv, TypeOK, Slots
<1>6. VersionsLast'
  <2> SUFFICES ASSUME NEW e \in Things
               PROVE  version[e] + Cardinality(Updating(e)') <= MaxVersion
    BY DEF VersionsLast, UpdateFind
  <2>1. CASE e = d
    <3>1. Updating(d)' = Updating(d) \cup {j}
      BY <1>2, <1>3, KeysApart DEF Updating
    <3>2. Cardinality(Updating(d)') \in {Cardinality(Updating(d)), Cardinality(Updating(d)) + 1}
      <4>1. IsFiniteSet(Updating(d)) /\ Cardinality(Updating(d)) \in Nat
        BY UpdatingCounts
      <4> QED
        BY <3>1, <4>1, FS_AddElement
    <3>3. version[d] + Cardinality(Updating(d)) < MaxVersion
      BY DEF UpdateFind, VersionLeft, Updating
    <3>4. version[d] \in Nat /\ Cardinality(Updating(d)) \in Nat
      BY UpdatingCounts, CacheAssumption DEF CacheInv, TypeOK, Versions
    <3> QED
      BY <2>1, <3>2, <3>3, <3>4, CacheAssumption
  <2>2. CASE e # d
    <3>1. Updating(e)' = Updating(e)
      BY <1>1, <1>2, <1>3, <2>2, KeysApart DEF Updating
    <3> QED
      BY <3>1 DEF CacheInv, VersionsLast
  <2> QED
    BY <2>1, <2>2
<1>7. Coherent'
  BY <1>1, StillCoherent DEF UpdateFind
<1> QED
  BY <1>4, <1>5, <1>6, <1>7 DEF CacheInv

LEMMA DeleteFindKeeps ==
    ASSUME CacheInv, NEW j \in Jobs, DeleteFind(j) PROVE CacheInv'
<1> DEFINE w == [at |-> "delete", key |-> "detail", val |-> None]
<1>1. job' = [job EXCEPT ![j] = w] /\ job[j].at # "invalidate"
  BY DEF DeleteFind, Start, Idle
<1>2. w \in Slots /\ w.at = "delete" /\ Holding(w)
  BY DEF Slots, Holding, Keys
<1>3. /\ job' \in [Jobs -> Slots]
      /\ HandlersHold'
      /\ \A d \in Things : Updating(d)' \subseteq Updating(d)
  <2> HIDE DEF w
  <2> QED
    BY <1>1, <1>2, Moves
<1>4. TypeOK'
  BY <1>3 DEF DeleteFind, CacheInv, TypeOK, Slots
<1>5. VersionsLast'
  BY <1>3, NoMoreUpdating DEF DeleteFind, CacheInv, TypeOK, Versions
<1>6. Coherent'
  BY <1>1, StillCoherent DEF DeleteFind
<1> QED
  BY <1>3, <1>4, <1>5, <1>6 DEF CacheInv

\* The row is gone: the handler throws.
LEMMA WriteThrows ==
    ASSUME CacheInv, NEW j \in Jobs, job[j].at \in {"update", "delete"},
           Done(j), UNCHANGED <<version, entry, excused>>
    PROVE  CacheInv'
<1>1. /\ job' \in [Jobs -> Slots]
      /\ HandlersHold'
      /\ \A d \in Things : Updating(d)' \subseteq Updating(d)
  BY IdleHolds, Moves DEF Done
<1>2. TypeOK'
  BY <1>1 DEF CacheInv, TypeOK, Slots
<1>3. VersionsLast'
  BY <1>1, NoMoreUpdating DEF CacheInv, TypeOK, Versions
<1>4. Coherent'
  BY StillCoherent DEF Done
<1> QED
  BY <1>1, <1>2, <1>3, <1>4 DEF CacheInv

\* The row is written: what is stale by it is the key that the handler now deletes.
LEMMA RowWritten ==
    ASSUME CacheInv, NEW j \in Jobs, job[j].at \in {"update", "delete"}, NEW v \in Versions,
           version' = [version EXCEPT ![Of(job[j].key)] = v],
           Of(job[j].key) = "banners" => v # 0,
           Await(j, "invalidate"), UNCHANGED <<entry, excused>>
    PROVE  /\ TypeOK' /\ HandlersHold' /\ Coherent'
           /\ \A d \in Things : Updating(d)' = Updating(d) \ {j}
<1> USE DEF CacheInv
<1>1. job[j] \in Slots /\ job[j].key \in Keys \ {"list"}
  BY DEF TypeOK, Slots, HandlersHold, Holding
<1> DEFINE w == [job[j] EXCEPT !.at = "invalidate"]
<1>2. w \in Slots /\ w.at = "invalidate" /\ w.key = job[j].key /\ Holding(w)
  BY <1>1 DEF Slots, Holding
<1>3. job' = [job EXCEPT ![j] = w]
  BY DEF Await
<1> HIDE DEF w
<1>4. job' \in [Jobs -> Slots] /\ HandlersHold'
  BY <1>2, <1>3, Moves
<1>5. \A i \in Jobs : job'[i] = IF i = j THEN w ELSE job[i]
  BY <1>3 DEF TypeOK
<1>6. \A d \in Things : Updating(d)' = Updating(d) \ {j}
  BY <1>2, <1>5 DEF Updating
<1>7. TypeOK'
  <2>1. version' \in [Things -> Versions] /\ version'["banners"] # 0
    BY DEF TypeOK, Things
  <2> QED
    BY <1>4, <2>1 DEF TypeOK, Slots
<1>8. Coherent'
  <2> SUFFICES ASSUME NEW k \in Keys \ {"list"}, Stale(k)', k \notin excused'
               PROVE  \E i \in Jobs : job'[i].at = "invalidate" /\ job'[i].key = k
    BY DEF Coherent
  <2>1. CASE k = job[j].key
    BY <1>2, <1>5, <2>1
  <2>2. CASE k # job[j].key
    <3>1. Of(k) # Of(job[j].key) /\ Of(k) \in Things
      BY <1>1, <2>2, KeysApart
    <3>2. Stale(k) /\ k \notin excused
      BY <3>1 DEF Stale, TypeOK
    <3>3. PICK i \in Jobs : job[i].at = "invalidate" /\ job[i].key = k
      BY <3>2 DEF Coherent
    <3> QED
      BY <1>5, <3>3
  <2> QED
    BY <2>1, <2>2
<1> QED
  BY <1>4, <1>6, <1>7, <1>8

LEMMA UpdateWriteKeeps ==
    ASSUME CacheInv, NEW j \in Jobs, UpdateWrite(j) PROVE CacheInv'
<1> DEFINE e == Of(job[j].key)
<1>1. CASE version[e] = 0
  BY <1>1, WriteThrows DEF UpdateWrite, Write
<1>2. CASE version[e] # 0
  <2>1. e \in Things /\ job[j].at = "update" /\ j \in Updating(e)
    BY KeysApart DEF UpdateWrite, CacheInv, TypeOK, HandlersHold, Holding, Updating
  <2>2. version[e] \in Nat /\ \A d \in Things : version[d] \in Nat
    BY <2>1, CacheAssumption DEF CacheInv, TypeOK, Versions
  <2>3. IsFiniteSet(Updating(e)) /\ Cardinality(Updating(e)) \in Nat
    BY UpdatingCounts
  <2>4. Cardinality(Updating(e) \ {j}) = Cardinality(Updating(e)) - 1
    BY <2>1, <2>3, FS_RemoveElement
  <2>5. Cardinality(Updating(e) \ {j}) \in Nat
    BY <2>3, FS_RemoveElement, FS_CardinalityType
  <2>6. version[e] + Cardinality(Updating(e)) <= MaxVersion
    BY <2>1 DEF CacheInv, VersionsLast
  <2>7. version[e] + 1 \in Versions /\ version[e] + 1 # 0
    BY <2>2, <2>3, <2>4, <2>5, <2>6, CacheAssumption DEF Versions
  <2>8. version' = [version EXCEPT ![e] = version[e] + 1] /\ Await(j, "invalidate")
    BY <1>2 DEF UpdateWrite, Write
  <2>9. /\ TypeOK' /\ HandlersHold' /\ Coherent'
        /\ \A d \in Things : Updating(d)' = Updating(d) \ {j}
    BY <2>1, <2>7, <2>8, RowWritten DEF UpdateWrite, Write
  <2>10. VersionsLast'
    <3> SUFFICES ASSUME NEW d \in Things
                 PROVE  version'[d] + Cardinality(Updating(d)') <= MaxVersion
      BY DEF VersionsLast
    <3>1. CASE d = e
      <4>1. version'[d] = version[e] + 1 /\ Updating(d)' = Updating(e) \ {j}
        BY <2>8, <2>9, <3>1 DEF CacheInv, TypeOK
      <4> QED
        BY <2>2, <2>3, <2>4, <2>6, <4>1, CacheAssumption
    <3>2. CASE d # e
      <4>1. version'[d] = version[d] /\ Updating(d)' = Updating(d)
        BY <2>1, <2>8, <2>9, <3>2 DEF CacheInv, TypeOK, Updating
      <4> QED
        BY <4>1 DEF CacheInv, VersionsLast
    <3> QED
      BY <3>1, <3>2
  <2> QED
    BY <2>9, <2>10 DEF CacheInv
<1> QED
  BY <1>1, <1>2

LEMMA DeleteWriteKeeps ==
    ASSUME CacheInv, NEW j \in Jobs, DeleteWrite(j) PROVE CacheInv'
<1> DEFINE e == Of(job[j].key)
<1>1. CASE version[e] = 0
  BY <1>1, WriteThrows DEF DeleteWrite, Write
<1>2. CASE version[e] # 0
  <2>1. job[j].at = "delete" /\ e = "room" /\ e \in Things
    BY DEF DeleteWrite, CacheInv, HandlersHold, Holding, Of, Things
  <2>2. version' = [version EXCEPT ![e] = 0] /\ Await(j, "invalidate")
    BY <1>2 DEF DeleteWrite, Write
  <2>3. 0 \in Versions
    BY CacheAssumption DEF Versions
  <2>4. /\ TypeOK' /\ HandlersHold' /\ Coherent'
        /\ \A d \in Things : Updating(d)' = Updating(d) \ {j}
    BY <2>1, <2>2, <2>3, RowWritten DEF DeleteWrite, Write
  <2>5. \A d \in Things : version'[d] <= version[d]
    BY <2>1, <2>2, CacheAssumption DEF CacheInv, TypeOK, Versions
  <2>6. VersionsLast'
    BY <2>4, <2>5, NoMoreUpdating DEF CacheInv, TypeOK
  <2> QED
    BY <2>4, <2>6 DEF CacheInv
<1> QED
  BY <1>1, <1>2

\* After the del, answered or not, nothing waits for it any more: the entry is gone,
\* or is excused.
LEMMA InvalidateKeeps ==
    ASSUME CacheInv, NEW j \in Jobs, Invalidate(j) \/ InvalidateFails(j) PROVE CacheInv'
<1> USE DEF CacheInv, Invalidate, InvalidateFails, Done
<1>1. job[j] \in Slots /\ job[j].key \in Keys /\ job[j].at = "invalidate"
  BY DEF TypeOK, Slots, HandlersHold, Holding
<1>2. /\ job' \in [Jobs -> Slots]
      /\ HandlersHold'
      /\ \A d \in Things : Updating(d)' \subseteq Updating(d)
  BY IdleHolds, Moves
<1>3. TypeOK'
  <2>1. entry' \in [Keys -> Versions \cup {None}] /\ entry'["detail"] # 0
    BY <1>1, CacheAssumption DEF TypeOK, Keys
  <2>2. excused' \subseteq Keys
    BY <1>1 DEF TypeOK
  <2> QED
    BY <1>2, <2>1, <2>2 DEF TypeOK, Slots
<1>4. VersionsLast'
  BY <1>2, NoMoreUpdating DEF TypeOK, Versions
<1>5. Coherent'
  <2> SUFFICES ASSUME NEW k \in Keys \ {"list"}, Stale(k)', k \notin excused'
               PROVE  \E i \in Jobs : job'[i].at = "invalidate" /\ job'[i].key = k
    BY DEF Coherent
  <2>1. k # job[j].key
    BY <1>1 DEF Stale, TypeOK
  <2>2. Stale(k) /\ k \notin excused
    BY <1>1, <2>1 DEF Stale, TypeOK
  <2>3. PICK i \in Jobs : job[i].at = "invalidate" /\ job[i].key = k
    BY <2>2 DEF Coherent
  <2> QED
    BY <2>1, <2>3 DEF TypeOK
<1> QED
  BY <1>2, <1>3, <1>4, <1>5

\* A writer that does not tell the cache excuses the key it makes stale.
LEMMA SilentKeeps ==
    ASSUME CacheInv, (\E d \in Things : SilentUpdate(d)) \/ AdminDeleteRoom PROVE CacheInv'
<1>0. PICK d \in Things :
         \E v : /\ SilentWrite(d, v)
                /\ \/ v = version[d] + 1 /\ VersionLeft(d)
                   \/ v = 0 /\ d = "room"
  BY DEF SilentUpdate, AdminDeleteRoom, Things
<1>1. PICK v : /\ SilentWrite(d, v)
               /\ \/ v = version[d] + 1 /\ VersionLeft(d)
                  \/ v = 0 /\ d = "room"
  BY <1>0
<1>2. version[d] \in Nat
  BY CacheAssumption DEF CacheInv, TypeOK, Versions
<1>3. IsFiniteSet(Updating(d)) /\ Cardinality(Updating(d)) \in Nat
  BY UpdatingCounts
<1>4. VersionLeft(d) => version[d] + Cardinality(Updating(d)) < MaxVersion
  BY DEF VersionLeft, Updating
<1>5. v \in Versions /\ v + Cardinality(Updating(d)) <= MaxVersion /\ (d = "banners" => v # 0)
  <2>1. CASE VersionLeft(d) /\ v = version[d] + 1
    BY <1>2, <1>3, <1>4, <2>1, CacheAssumption DEF Versions
  <2>2. CASE v = 0 /\ d = "room"
    <3>1. version[d] + Cardinality(Updating(d)) <= MaxVersion
      BY DEF CacheInv, VersionsLast
    <3> QED
      BY <1>2, <1>3, <2>2, <3>1, CacheAssumption DEF Versions
  <2> QED
    BY <1>1, <2>1, <2>2
<1>6. version' = [version EXCEPT ![d] = v] /\ excused' = excused \cup {KeyOf(d)}
  BY <1>1 DEF SilentWrite
<1>7. UNCHANGED <<entry, job>>
  BY <1>1 DEF SilentWrite
<1>8. TypeOK'
  <2>1. version' \in [Things -> Versions] /\ version'["banners"] # 0
    BY <1>5, <1>6 DEF CacheInv, TypeOK, Things
  <2> QED
    BY <1>6, <1>7, <2>1, KeysApart DEF CacheInv, TypeOK
<1>9. VersionsLast'
  <2> SUFFICES ASSUME NEW e \in Things
               PROVE  version'[e] + Cardinality(Updating(e)) <= MaxVersion
    BY <1>7 DEF VersionsLast, Updating
  <2> QED
    BY <1>5, <1>6 DEF CacheInv, TypeOK, VersionsLast
<1>10. Coherent'
  <2> SUFFICES ASSUME NEW k \in Keys \ {"list"}, Stale(k)', k \notin excused'
               PROVE  \E i \in Jobs : job'[i].at = "invalidate" /\ job'[i].key = k
    BY DEF Coherent
  <2>1. Of(k) \in Things /\ Of(k) # d
    BY <1>6, KeysApart
  <2>2. Stale(k) /\ k \notin excused
    BY <1>6, <1>7, <2>1 DEF Stale, CacheInv, TypeOK
  <2> QED
    BY <1>7, <2>2 DEF CacheInv, Coherent
<1> QED
  BY <1>7, <1>8, <1>9, <1>10 DEF CacheInv, HandlersHold

LEMMA ExpireKeeps ==
    ASSUME CacheInv, NEW k \in Keys, Expire(k) PROVE CacheInv'
<1> USE DEF CacheInv, Expire
<1>1. TypeOK'
  BY CacheAssumption DEF TypeOK, Keys
<1>2. HandlersHold' /\ VersionsLast'
  BY DEF HandlersHold, VersionsLast, Updating
<1>3. Coherent'
  BY DEF Coherent, Stale, TypeOK
<1> QED
  BY <1>1, <1>2, <1>3

LEMMA StepKeeps ==
    ASSUME CacheInv, [Next]_vars PROVE CacheInv'
<1>1. CASE UNCHANGED vars
  BY <1>1 DEF vars, CacheInv, TypeOK, HandlersHold, VersionsLast, Updating, Coherent, Stale
<1>2. ASSUME NEW j \in Jobs, Ask(j) PROVE CacheInv'
  BY <1>2, GetKeeps, UpdateFindKeeps, DeleteFindKeeps DEF Ask
<1>3. ASSUME NEW j \in Jobs, Proceed(j) PROVE CacheInv'
  BY <1>3, QueryKeeps, SetKeeps, UpdateWriteKeeps, DeleteWriteKeeps, InvalidateKeeps DEF Proceed
<1> QED
  BY <1>1, <1>2, <1>3, SilentKeeps, ExpireKeeps DEF Next

-----------------------------------------------------------------------------
\* Everything that is said of the cache and its handlers holds in every state.
THEOREM InvHolds == Spec => []CacheInv
  BY InitHolds, StepKeeps, PTL DEF Spec

\* However readers, writers and expiry interleave, versions, entries and handlers have
\* their types: the detail of a room that is gone is never cached.
THEOREM TypeCorrect == Spec => []TypeOK
<1>1. CacheInv => TypeOK
  BY DEF CacheInv
<1> QED
  BY <1>1, InvHolds, PTL

\* However readers, writers and expiry interleave, a stale detail or banner list is about to
\* be deleted by the writer that made it stale; unless a query was overtaken, a writer does
\* not tell the cache, or a del failed.
THEOREM CacheCoherent == Spec => []Coherent
<1>1. CacheInv => Coherent
  BY DEF CacheInv
<1> QED
  BY <1>1, InvHolds, PTL

=============================================================================
