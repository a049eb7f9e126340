----------------------------- MODULE RoomCache ------------------------------
(***************************************************************************)
(* The Redis cache in front of the room queries and the banner list.       *)
(*                                                                         *)
(* RoomsService.findOneGroupRoom, findAllGroupRooms and                    *)
(* BannerService.findAll look a key up, query the database on a miss and   *)
(* set the key to what the query returned: three awaited calls.  The       *)
(* updates and deletes of RoomsService and BannerService write the         *)
(* database and then delete the key; no other writer touches the cache,    *)
(* and an entry lives until its TTL.  A handler is a job in a slot of      *)
(* Jobs, one action per await.                                             *)
(***************************************************************************)
EXTENDS Naturals, FiniteSets

CONSTANTS
    Jobs,        \* slots for handlers running at the same time
    MaxVersion,  \* bound: versions of a room, or of the banners
    None

ASSUME CacheAssumption ==
    /\ IsFiniteSet(Jobs)
    /\ MaxVersion \in Nat \ {0}
    /\ None \notin 0..MaxVersion

\* Two things are cached: one GROUP room, with its OWNER, and the banners.  The
\* room is in its detail entry and in those of the lists.
Things == {"room", "banners"}
Keys   == {"detail", "list", "banner:all"}

Of(k) == IF k = "banner:all" THEN "banners" ELSE "room"

\* The key that update and delete invalidate; lists are left to their TTL.
KeyOf(d) == IF d = "banners" THEN "banner:all" ELSE "detail"

VARIABLES
    version,  \* version[d]: what the database has; 0 once the row is deleted
    entry,    \* entry[k]: the version in the cache, None when there is none
    job,      \* job[j]: the handler in slot j
    excused   \* history: keys whose entry was stale when set, or of which a
              \* writer that tells the cache nothing wrote since

vars == <<version, entry, job, excused>>

Idle == [at |-> "idle", key |-> None, val |-> None]

Versions == 0..MaxVersion

Init ==
    /\ version = [d \in Things |-> 1]
    /\ entry = [k \in Keys |-> None]
    /\ job = [j \in Jobs |-> Idle]
    /\ excused = {}

Start(j, at, k) ==
    /\ job[j] = Idle
    /\ job' = [job EXCEPT ![j] = [at |-> at, key |-> k, val |-> None]]

Await(j, at) == job' = [job EXCEPT ![j].at = at]

Done(j) == job' = [job EXCEPT ![j] = Idle]

\* Bound: one more write of d stays within MaxVersion.
VersionLeft(d) ==
    version[d] + Cardinality({j \in Jobs : job[j].at = "update" /\ Of(job[j].key) = d})
        < MaxVersion

-----------------------------------------------------------------------------
(* The readers.                                                            *)

\* cache.get misses; a hit is answered and changes nothing.
Get(j, k) ==
    /\ entry[k] = None
    /\ Start(j, "query", k)
    /\ UNCHANGED <<version, entry, excused>>

\* A plausible bug: a room that is gone is cached as such, ahead of the check.
Query_CachesMissing(j) ==
    /\ job[j].at = "query"
    /\ job' = [job EXCEPT ![j].at = "set", ![j].val = version[Of(job[j].key)]]
    /\ UNCHANGED <<version, entry, excused>>

\* A room that is gone is not found; a list without it is a list.
Query(j) ==
    /\ job[j].at = "query"
    /\ LET k == job[j].key IN
         IF k = "detail" /\ version[Of(k)] = 0
         THEN Done(j)
         ELSE job' = [job EXCEPT ![j].at = "set", ![j].val = version[Of(k)]]
    /\ UNCHANGED <<version, entry, excused>>

\* Whatever happened since the query.
Set(j) ==
    /\ job[j].at = "set"
    /\ LET k == job[j].key IN
         /\ entry' = [entry EXCEPT ![k] = job[j].val]
         /\ excused' = IF job[j].val = version[Of(k)] THEN excused \ {k} ELSE excused \cup {k}
    /\ Done(j)
    /\ UNCHANGED version

-----------------------------------------------------------------------------
(* The writers that invalidate.                                            *)

\* updateGroupRoom and BannerService.update have found what they write.
UpdateFind(j, d) ==
    /\ version[d] # 0
    /\ VersionLeft(d)
    /\ Start(j, "update", KeyOf(d))
    /\ UNCHANGED <<version, entry, excused>>

\* deleteGroupRoom has found the room, and deleted its images.
DeleteFind(j) ==
    /\ version["room"] # 0
    /\ Start(j, "delete", "detail")
    /\ UNCHANGED <<version, entry, excused>>

\* A plausible bug: the write is not followed by the del, as in AdminService.
Write_NoInvalidate(j, v) ==
    /\ version' = IF version[Of(job[j].key)] = 0 THEN version
                  ELSE [version EXCEPT ![Of(job[j].key)] = v]
    /\ Done(j)
    /\ UNCHANGED <<entry, excused>>

\* The write of the row; a row that is gone makes it throw.
Write(j, v) ==
    /\ IF version[Of(job[j].key)] = 0
       THEN Done(j) /\ UNCHANGED version
       ELSE Await(j, "invalidate") /\ version' = [version EXCEPT ![Of(job[j].key)] = v]
    /\ UNCHANGED <<entry, excused>>

UpdateWrite(j) ==
    /\ job[j].at = "update"
    /\ Write(j, version[Of(job[j].key)] + 1)

DeleteWrite(j) ==
    /\ job[j].at = "delete"
    /\ Write(j, 0)

Invalidate(j) ==
    /\ job[j].at = "invalidate"
    /\ entry' = [entry EXCEPT ![job[j].key] = None]
    /\ excused' = excused \ {job[j].key}
    /\ Done(j)
    /\ UNCHANGED version

\* Redis does not answer the del: the handler throws, the row stays written.
InvalidateFails(j) ==
    /\ job[j].at = "invalidate"
    /\ excused' = excused \cup {job[j].key}
    /\ Done(j)
    /\ UNCHANGED <<version, entry>>

-----------------------------------------------------------------------------
(* The writers that do not: uploadRoomCover, uploadRoomProfile,            *)
(* transferOwner, AdminService.deleteUser and deleteRoom; uploadBanner and *)
(* updateBannerImage.  deleteDirectRoom is another AdminDeleteRoom when it *)
(* is given a GROUP room.  Only their commit matters here.                 *)

SilentWrite(d, v) ==
    /\ version[d] # 0
    /\ version' = [version EXCEPT ![d] = v]
    /\ excused' = excused \cup {KeyOf(d)}
    /\ UNCHANGED <<entry, job>>

SilentUpdate(d) == VersionLeft(d) /\ SilentWrite(d, version[d] + 1)

AdminDeleteRoom == SilentWrite("room", 0)

-----------------------------------------------------------------------------
\* A plausible bug: the set of a list leaves its TTL out.
Expire_NotLists(k) ==
    /\ entry[k] # None /\ k # "list"
    /\ entry' = [entry EXCEPT ![k] = None]
    /\ excused' = excused \ {k}
    /\ UNCHANGED <<version, job>>

\* The TTL of the entry has passed.
Expire(k) ==
    /\ entry[k] # None
    /\ entry' = [entry EXCEPT ![k] = None]
    /\ excused' = excused \ {k}
    /\ UNCHANGED <<version, job>>

Ask(j) ==
    \/ \E k \in Keys : Get(j, k)
    \/ \E d \in Things : UpdateFind(j, d)
    \/ DeleteFind(j)

Proceed(j) ==
    \/ Query(j)
    \/ Set(j)
    \/ UpdateWrite(j)
    \/ DeleteWrite(j)
    \/ Invalidate(j)
    \/ InvalidateFails(j)

Next ==
    \/ \E j \in Jobs : Ask(j) \/ Proceed(j)
    \/ \E d \in Things : SilentUpdate(d)
    \/ AdminDeleteRoom
    \/ \E k \in Keys : Expire(k)

Spec == Init /\ [][Next]_vars

\* The event loop runs every handler on and every call is answered or fails;
\* Redis drops an entry some time after its TTL.  Nobody has to ask.
Fairness ==
    /\ \A j \in Jobs : WF_vars(Proceed(j))
    /\ \A k \in Keys : WF_vars(Expire(k))

FairSpec == Spec /\ Fairness

-----------------------------------------------------------------------------
\* Versions, entries and handlers have their types; a deleted room's absence is
\* cached in lists only.
TypeOK ==
    /\ version \in [Things -> Versions]
    /\ version["banners"] # 0
    /\ entry \in [Keys -> Versions \cup {None}]
    /\ entry["detail"] # 0
    /\ job \in [Jobs -> [at  : {"idle", "query", "set", "update", "delete", "invalidate"},
                        key : Keys \cup {None},
                        val : Versions \cup {None}]]
    /\ excused \subseteq Keys

Stale(k) == entry[k] \notin {None, version[Of(k)]}

\* An entry that update and delete invalidate is stale only until the writer's
\* del; unless it was stale when set, a query having been overtaken by a write
\* and its del, or a writer that tells the cache nothing wrote, or a del failed.
Coherent ==
    \A k \in Keys \ {"list"} :
        Stale(k) => \/ k \in excused
                    \/ \E j \in Jobs : job[j].at = "invalidate" /\ job[j].key = k

\* Whatever raced, once the writes have stopped no stale entry is left for good.
EventuallyFresh == <>[](\A k \in Keys : ~Stale(k))

=============================================================================
