-------------------------- MODULE DirectRoomsProofs ---------------------------
(***************************************************************************)
(* Proofs about DirectRooms, for any users, rooms and number of handlers:  *)
(* where a second room of a pair comes from, and that who has left a       *)
(* DIRECT room stays cut off.                                              *)
(***************************************************************************)
EXTENDS DirectRooms, FiniteSetTheorems, TLAPS

-----------------------------------------------------------------------------
(* The inductive invariant.                                                *)

Slots ==
    [at     : {"idle", "findFirst", "create", "delete", "leave"},
     by     : Users \cup {None},
     target : Users \cup {None},
     room   : Rooms \cup {None}]

\* What a handler holds when it waits for something.
Holding(w) ==
    /\ w.at \in Creating => w.by \in Users /\ w.target \in Users /\ w.by # w.target
    /\ w.at \in {"delete", "leave"} => w.by \in Users /\ w.room \in Rooms

HandlersHold == \A j \in Jobs : Holding(job[j])

Creates(j, p) == job[j].at \in Creating /\ Pair(j) = p

\* Of a pair whose creates never ran at the same time there is one create at most, and,
\* once it has found no room, no room.
OneRoom(p) ==
    /\ \A i, j \in Jobs : Creates(i, p) /\ Creates(j, p) => i = j
    /\ \A j \in Jobs : Creates(j, p) /\ job[j].at = "create" => RoomsOf(p) = {}
    /\ \A r, s \in RoomsOf(p) : r = s

\* As long as no room has lost a row, every room is a pair's.
RoomsOfPairs == \A r \in rooms : Rows(r) \in Pairs

DirectInv ==
    /\ TypeOK
    /\ HandlersHold
    /\ ~orphaned => RoomsOfPairs /\ \A p \in Pairs \ raced : OneRoom(p)

-----------------------------------------------------------------------------
(* Pairs and rows.                                                         *)

LEMMA TwoMakeAPair ==
    ASSUME NEW u \in Users, NEW t \in Users, u # t PROVE {u, t} \in Pairs
<1>1. IsFiniteSet({u}) /\ Cardinality({u}) = 1 /\ {u, t} = {u} \cup {t}
  BY FS_Singleton
<1>2. Cardinality({u, t}) = 2
  BY <1>1, FS_AddElement
<1> QED
  BY <1>2 DEF Pairs

\* A pair within a pair is that pair.
LEMMA PairsWithin ==
    ASSUME NEW p \in Pairs, NEW q \in Pairs, q \subseteq p PROVE q = p
<1>1. IsFiniteSet(p) /\ Cardinality(p) = 2 /\ Cardinality(q) = 2
  BY DirectAssumption, FS_Subset DEF Pairs
<1> QED
  BY <1>1, FS_Subset

\* At most one room is one room.
LEMMA OneRoomCounts ==
    ASSUME TypeOK, NEW p \in Pairs, \A r, s \in RoomsOf(p) : r = s
    PROVE  ~(Cardinality(RoomsOf(p)) > 1)
<1>1. CASE RoomsOf(p) = {}
  BY <1>1, FS_EmptySet
<1>2. CASE RoomsOf(p) # {}
  <2>1. PICK r : RoomsOf(p) = {r}
    BY <1>2
  <2>2. Cardinality({r}) = 1
    BY FS_Singleton
  <2> QED
    BY <2>1, <2>2
<1> QED
  BY <1>1, <1>2

LEMMA InvExplains == DirectInv => DuplicatesExplained
  BY OneRoomCounts DEF DirectInv, DuplicatesExplained, OneRoom

LEMMA TypeShape ==
    TypeOK <=> /\ users \subseteq Users
               /\ rooms \subseteq issued /\ issued \subseteq Rooms
               /\ member \in [Rooms -> [Users -> {"none", "active", "left"}]]
               /\ \A r \in Rooms : Rows(r) # {} => r \in rooms /\ Rows(r) \subseteq users
               /\ job \in [Jobs -> Slots]
               /\ raced \subseteq Pairs
               /\ orphaned \in BOOLEAN
  BY DEF TypeOK, Slots

LEMMA IdleHolds == Idle \in Slots /\ Idle.at = "idle" /\ Holding(Idle)
  BY DEF Idle, Slots, Holding, Creating

-----------------------------------------------------------------------------
(* Steps.                                                                  *)

LEMMA InitHolds == Init => DirectInv
<1> SUFFICES ASSUME Init PROVE DirectInv
  OBVIOUS
<1>1. \A j \in Jobs : job[j] = Idle
  BY DEF Init
<1>2. \A r \in Rooms : Rows(r) = {}
  BY DEF Init, Rows
<1>3. TypeOK
  BY <1>2, IdleHolds, TypeShape DEF Init
<1>4. HandlersHold
  BY <1>1, IdleHolds DEF HandlersHold
<1>5. RoomsOfPairs /\ \A p \in Pairs : RoomsOf(p) = {}
  BY DEF Init, RoomsOfPairs, RoomsOf
<1> QED
  BY <1>1, <1>3, <1>4, <1>5, IdleHolds DEF DirectInv, OneRoom, Creates, Creating

\* A handler goes on to w and writes no table.
LEMMA JobMoves ==
    ASSUME DirectInv, NEW j \in Jobs, NEW w \in Slots, Holding(w),
           job' = [job EXCEPT ![j] = w], UNCHANGED <<tables, issued, orphaned>>,
           raced \subseteq raced', raced' \subseteq Pairs,
           \A p \in Pairs \ raced' :
              ~orphaned /\ w.at \in Creating /\ {w.by, w.target} = p =>
                 /\ \A i \in Jobs \ {j} : ~Creates(i, p)
                 /\ w.at = "create" => RoomsOf(p) = {}
    PROVE  DirectInv'
<1> USE DEF DirectInv, tables
<1>1. job \in [Jobs -> Slots]
  BY TypeShape
<1>2. job' \in [Jobs -> Slots] /\ \A i \in Jobs : job'[i] = IF i = j THEN w ELSE job[i]
  BY <1>1
<1>3. TypeOK'
  BY <1>2, TypeShape DEF TypeOK, Slots, Rows
<1>4. HandlersHold'
  BY <1>2 DEF HandlersHold
<1>5. ASSUME ~orphaned PROVE RoomsOfPairs'
  BY <1>5 DEF RoomsOfPairs, Rows
<1>6. \A p : RoomsOf(p)' = RoomsOf(p)
  BY DEF RoomsOf, Rows
<1>7. ASSUME ~orphaned, NEW p \in Pairs \ raced' PROVE OneRoom(p)'
  <2>1. OneRoom(p)
    BY <1>7
  <2>2. \A i \in Jobs \ {j} : Creates(i, p)' <=> Creates(i, p)
    BY <1>2 DEF Creates, Pair
  <2>3. Creates(j, p)' <=> w.at \in Creating /\ {w.by, w.target} = p
    BY <1>2 DEF Creates, Pair
  <2> QED
    BY <1>2, <1>6, <1>7, <2>1, <2>2, <2>3 DEF OneRoom
<1> QED
  BY <1>3, <1>4, <1>5, <1>7

LEMMA CreateFindTargetKeeps ==
    ASSUME DirectInv, NEW j \in Jobs, NEW u \in Users, NEW t \in Users, CreateFindTarget(j, u, t)
    PROVE  DirectInv'
<1> DEFINE w == [at |-> "findFirst", by |-> u, target |-> t, room |-> None]
<1>1. /\ job' = [job EXCEPT ![j] = w]
      /\ UNCHANGED <<tables, issued, orphaned>>
      /\ u # t
  BY DEF CreateFindTarget, Start
<1>2. w \in Slots /\ Holding(w) /\ w.at = "findFirst" /\ w.by = u /\ w.target = t
  BY <1>1 DEF Slots, Holding
<1>3. raced' = raced \cup {p \in {{u, t}} : \E i \in Jobs : Creates(i, p)}
  BY DEF CreateFindTarget, Creates
<1>4. raced \subseteq raced' /\ raced' \subseteq Pairs
  BY <1>1, <1>3, TwoMakeAPair DEF DirectInv, TypeOK
<1>5. \A p \in Pairs \ raced' : {u, t} = p => \A i \in Jobs : ~Creates(i, p)
  BY <1>3
<1> HIDE DEF w
<1> QED
  BY <1>1, <1>2, <1>4, <1>5, JobMoves

\* As long as no room has lost a row, what is found of the pair is its room.
LEMMA CreateFindFirstKeeps ==
    ASSUME DirectInv, NEW j \in Jobs, CreateFindFirst(j)
    PROVE  DirectInv'
<1>1. job[j].at = "findFirst" /\ UNCHANGED <<tables, issued, raced, orphaned>>
  BY DEF CreateFindFirst
<1>2. job[j] \in Slots /\ Holding(job[j]) /\ raced \subseteq Pairs
  BY TypeShape DEF DirectInv, HandlersHold
<1>3. CASE Done(j)
  BY <1>1, <1>2, <1>3, IdleHolds, JobMoves DEF Done, Creating
<1>4. CASE Await(j, "create") /\ (orphaned \/ Candidates(Pair(j)) = {})
  <2> DEFINE w == [job[j] EXCEPT !.at = "create"]
  <2>1. /\ w \in Slots /\ Holding(w) /\ w.at = "create"
        /\ w.by = job[j].by /\ w.target = job[j].target
    BY <1>1, <1>2 DEF Slots, Holding, Creating
  <2>2. job' = [job EXCEPT ![j] = w]
    BY <1>4 DEF Await
  <2> HIDE DEF w
  <2>3. Creates(j, Pair(j)) /\ Pair(j) = {w.by, w.target}
    BY <1>1, <2>1 DEF Creates, Creating, Pair
  <2>4. ASSUME NEW p \in Pairs \ raced, {w.by, w.target} = p, ~orphaned
        PROVE  (\A i \in Jobs \ {j} : ~Creates(i, p)) /\ RoomsOf(p) = {}
    <3>1. OneRoom(p)
      BY <2>4 DEF DirectInv
    <3>2. RoomsOf(p) = {}
      BY <1>4, <2>3, <2>4 DEF RoomsOf, Candidates
    <3> QED
      BY <2>3, <2>4, <3>1, <3>2 DEF OneRoom
  <2> QED
    BY <1>1, <1>2, <2>1, <2>2, <2>4, JobMoves
<1>5. ASSUME ~orphaned, NEW r \in Candidates(Pair(j)) PROVE Cardinality(Rows(r)) = 2
  BY <1>5 DEF DirectInv, RoomsOfPairs, Candidates, Pairs
<1> QED
  BY <1>3, <1>4, <1>5 DEF CreateFindFirst

LEMMA CreateRoomKeeps ==
    ASSUME DirectInv, NEW j \in Jobs, NEW r \in Rooms, CreateRoom(j, r)
    PROVE  DirectInv'
<1> USE DEF DirectInv
<1>1. job[j].at = "create" /\ r \notin issued /\ Done(j) /\ UNCHANGED <<users, raced, orphaned>>
  BY DEF CreateRoom
<1>2. job[j] \in Slots /\ Holding(job[j]) /\ raced \subseteq Pairs
  BY TypeShape DEF HandlersHold
<1>3. CASE ~(Pair(j) \subseteq users)
  <2>1. UNCHANGED <<tables, issued>>
    BY <1>3 DEF CreateRoom, tables
  <2> QED
    BY <1>1, <1>2, <2>1, IdleHolds, JobMoves DEF Done, Creating
<1>4. CASE Pair(j) \subseteq users
  <2>1. Pair(j) \in Pairs /\ Pair(j) \subseteq Users
    BY <1>1, <1>2, TwoMakeAPair DEF Pair, Holding, Creating
  <2>2. /\ rooms' = rooms \cup {r} /\ issued' = issued \cup {r}
        /\ member' = [member EXCEPT ![r] =
                        [u \in Users |-> IF u \in Pair(j) THEN "active" ELSE "none"]]
    BY <1>4 DEF CreateRoom
  <2>3. job' \in [Jobs -> Slots] /\ \A i \in Jobs : job'[i] = IF i = j THEN Idle ELSE job[i]
    BY <1>1, IdleHolds, TypeShape DEF Done
  <2>4. Rows(r)' = Pair(j)
    BY <2>1, <2>2, TypeShape DEF Rows
  <2>5. \A s \in Rooms \ {r} : Rows(s)' = Rows(s)
    BY <2>2, TypeShape DEF Rows
  <2>6. TypeOK'
    <3>1. member' \in [Rooms -> [Users -> {"none", "active", "left"}]]
      BY <2>2, TypeShape
    <3>2. rooms' \subseteq issued' /\ issued' \subseteq Rooms
      BY <2>2, TypeShape
    <3>3. \A s \in Rooms : Rows(s)' # {} => s \in rooms' /\ Rows(s)' \subseteq users'
      BY <1>1, <1>4, <2>2, <2>4, <2>5, TypeShape
    <3> QED
      BY <1>1, <2>3, <3>1, <3>2, <3>3 DEF TypeOK, Slots
  <2>7. HandlersHold'
    BY <2>3, IdleHolds DEF HandlersHold
  <2>8. ASSUME ~orphaned PROVE RoomsOfPairs'
    BY <2>1, <2>2, <2>4, <2>5, <2>8 DEF RoomsOfPairs, TypeOK
  <2>9. ASSUME ~orphaned, NEW p \in Pairs \ raced PROVE OneRoom(p)'
    <3>1. OneRoom(p) /\ r \notin rooms
      BY <1>1, <2>9 DEF TypeOK
    <3>2. \A i \in Jobs : Creates(i, p)' => Creates(i, p) /\ i # j
      BY <2>3, IdleHolds DEF Creates, Pair, Creating
    <3>3. CASE p = Pair(j)
      <4>1. RoomsOf(p) = {} /\ \A i \in Jobs : ~Creates(i, p)'
        BY <1>1, <3>1, <3>2, <3>3 DEF OneRoom, Creates, Creating
      <4>2. RoomsOf(p)' = {r}
        BY <2>2, <2>4, <2>5, <3>3, <4>1 DEF RoomsOf, TypeOK
      <4> QED
        BY <4>1, <4>2 DEF OneRoom
    <3>4. CASE p # Pair(j)
      <4>1. RoomsOf(p)' = RoomsOf(p)
        BY <2>2, <2>4, <2>5, <3>1, <3>4 DEF RoomsOf, TypeOK
      <4>2. \A i \in Jobs : job'[i].at = "create" => job[i].at = "create"
        BY <2>3, IdleHolds
      <4> QED
        BY <3>1, <3>2, <4>1, <4>2 DEF OneRoom
    <3> QED
      BY <3>3, <3>4
  <2> QED
    BY <1>1, <2>6, <2>7, <2>8, <2>9
<1> QED
  BY <1>3, <1>4

\* Steps after which the rooms of each pair, and who has a row in them, are no more than
\* before, whatever becomes of the row.
LEMMA RowsShrink ==
    ASSUME DirectInv, TypeOK', HandlersHold', UNCHANGED <<issued, raced>>,
           orphaned => orphaned', rooms' \subseteq rooms,
           ~orphaned' => \A r \in rooms' : Rows(r)' = Rows(r),
           \A i \in Jobs : job'[i] = job[i] \/ job'[i].at \notin Creating
    PROVE  DirectInv'
<1> SUFFICES ASSUME ~orphaned' PROVE RoomsOfPairs' /\ \A p \in Pairs \ raced' : OneRoom(p)'
  BY DEF DirectInv
<1>1. ~orphaned /\ RoomsOfPairs /\ \A p \in Pairs \ raced : OneRoom(p)
  BY DEF DirectInv
<1>2. RoomsOfPairs'
  BY <1>1 DEF RoomsOfPairs
<1>3. \A p : RoomsOf(p)' \subseteq RoomsOf(p)
  BY DEF RoomsOf
<1>4. \A p : \A i \in Jobs : Creates(i, p)' => Creates(i, p) /\ job'[i] = job[i]
  BY DEF Creates, Pair, Creating
<1> QED
  BY <1>1, <1>2, <1>3, <1>4 DEF OneRoom

LEMMA StartOtherKeeps ==
    ASSUME DirectInv, NEW j \in Jobs, NEW u \in Users, NEW r \in Rooms,
           DeleteFindMember(j, u, r) \/ LeaveFindMember(j, u, r)
    PROVE  DirectInv'
<1>1. PICK at \in {"delete", "leave"} : Start(j, at, u, None, r)
  BY DEF DeleteFindMember, LeaveFindMember
<1> DEFINE w == [at |-> at, by |-> u, target |-> None, room |-> r]
<1>2. w \in Slots /\ Holding(w) /\ w.at \notin Creating
  BY DEF Slots, Holding, Creating
<1>3. job' = [job EXCEPT ![j] = w] /\ UNCHANGED <<tables, issued, raced, orphaned>>
  BY <1>1 DEF DeleteFindMember, LeaveFindMember, Start
<1>4. raced \subseteq Pairs
  BY DEF DirectInv, TypeOK
<1> HIDE DEF w
<1> QED
  BY <1>2, <1>3, <1>4, JobMoves

LEMMA DeleteRoomKeeps ==
    ASSUME DirectInv, NEW j \in Jobs, DeleteRoom(j)
    PROVE  DirectInv'
<1> USE DEF DirectInv
<1>0. PICK r \in Rooms : r = job[j].room
  BY DEF HandlersHold, Holding, DeleteRoom
<1>1. UNCHANGED <<users, issued, raced, orphaned>>
  BY DEF DeleteRoom
<1>2. rooms' = rooms \ {r} /\ member' = [member EXCEPT ![r] = [u \in Users |-> "none"]]
  BY <1>0 DEF DeleteRoom
<1>3. job' \in [Jobs -> Slots] /\ \A i \in Jobs : job'[i] = IF i = j THEN Idle ELSE job[i]
  BY IdleHolds, TypeShape DEF DeleteRoom, Done
<1>4. HandlersHold'
  BY <1>3, IdleHolds DEF HandlersHold
<1>5. Rows(r)' = {} /\ \A s \in Rooms \ {r} : Rows(s)' = Rows(s)
  BY <1>1, <1>2, TypeShape DEF Rows
<1>6. TypeOK'
  <2>1. member' \in [Rooms -> [Users -> {"none", "active", "left"}]]
    BY <1>1, <1>2, TypeShape
  <2>2. \A s \in Rooms : Rows(s)' # {} => s \in rooms' /\ Rows(s)' \subseteq users'
    BY <1>1, <1>2, <1>5, TypeShape
  <2>3. rooms' \subseteq issued' /\ issued' \subseteq Rooms
    BY <1>1, <1>2, TypeShape
  <2> QED
    BY <1>1, <1>3, <2>1, <2>2, <2>3 DEF TypeOK, Slots
<1>7. \A s \in rooms' : Rows(s)' = Rows(s)
  BY <1>2, <1>5 DEF TypeOK
<1>8. \A i \in Jobs : job'[i] = job[i] \/ job'[i].at \notin Creating
  BY <1>3, IdleHolds DEF Creating
<1> QED
  BY <1>1, <1>2, <1>4, <1>6, <1>7, <1>8, RowsShrink

\* Who leaves keeps the row.
LEMMA LeaveEffect ==
    ASSUME DirectInv, NEW j \in Jobs, Leave(j)
    PROVE  /\ member' \in [Rooms -> [Users -> {"none", "active", "left"}]]
           /\ \A r \in Rooms : Rows(r)' = Rows(r)
           /\ \A r \in Rooms, u \in Users : member[r][u] = "left" => member'[r][u] = "left"
<1>1. PICK q, v : /\ q = job[j].room /\ v = job[j].by
                  /\ member' = [member EXCEPT ![q][v] = IF @ = "none" THEN @ ELSE "left"]
  BY DEF Leave
<1>2. q \in Rooms /\ v \in Users
  BY <1>1 DEF Leave, DirectInv, HandlersHold, Holding
<1>3. member \in [Rooms -> [Users -> {"none", "active", "left"}]]
  BY DEF DirectInv, TypeOK
<1>4. \A r \in Rooms, u \in Users :
         member'[r][u] = IF r = q /\ u = v /\ member[r][u] # "none" THEN "left" ELSE member[r][u]
  BY <1>1, <1>2, <1>3
<1>5. member' \in [Rooms -> [Users -> {"none", "active", "left"}]]
  BY <1>1, <1>2, <1>3
<1> QED
  BY <1>4, <1>5 DEF Rows

LEMMA LeaveKeeps ==
    ASSUME DirectInv, NEW j \in Jobs, Leave(j)
    PROVE  DirectInv'
<1> USE DEF DirectInv
<1>1. UNCHANGED <<users, rooms, issued, raced, orphaned>>
  BY DEF Leave
<1>2. /\ member' \in [Rooms -> [Users -> {"none", "active", "left"}]]
      /\ \A r \in Rooms : Rows(r)' = Rows(r)
  BY LeaveEffect
<1>3. job' \in [Jobs -> Slots] /\ \A i \in Jobs : job'[i] = IF i = j THEN Idle ELSE job[i]
  BY IdleHolds, TypeShape DEF Leave, Done
<1>4. HandlersHold'
  BY <1>3, IdleHolds DEF HandlersHold
<1>5. TypeOK'
  <2>1. \A s \in Rooms : Rows(s)' # {} => s \in rooms' /\ Rows(s)' \subseteq users'
    BY <1>1, <1>2, TypeShape
  <2> QED
    BY <1>1, <1>2, <1>3, <2>1, TypeShape DEF TypeOK, Slots
<1>6. \A i \in Jobs : job'[i] = job[i] \/ job'[i].at \notin Creating
  BY <1>3, IdleHolds DEF Creating
<1>7. \A r \in rooms' : Rows(r)' = Rows(r)
  BY <1>1, <1>2 DEF TypeOK
<1> QED
  BY <1>1, <1>4, <1>5, <1>6, <1>7, RowsShrink

\* A room that loses a row is from then on the excuse of whatever is doubled.
LEMMA AdminDeleteUserKeeps ==
    ASSUME DirectInv, NEW u \in Users, AdminDeleteUser(u)
    PROVE  DirectInv'
<1> USE DEF DirectInv
<1>1. users' = users \ {u} /\ UNCHANGED <<rooms, job, issued, raced>>
  BY DEF AdminDeleteUser
<1>2. member' = [r \in Rooms |-> [member[r] EXCEPT ![u] = "none"]]
  BY DEF AdminDeleteUser
<1>3. orphaned' = (orphaned \/ \E r \in rooms : member[r][u] # "none")
  BY DEF AdminDeleteUser
<1>4. member' \in [Rooms -> [Users -> {"none", "active", "left"}]]
  BY <1>2, TypeShape
<1>5. \A r \in Rooms : Rows(r)' = Rows(r) \ {u}
  BY <1>2, TypeShape DEF Rows
<1>6. TypeOK'
  <2>1. \A s \in Rooms : Rows(s)' # {} => s \in rooms' /\ Rows(s)' \subseteq users'
    BY <1>1, <1>5, TypeShape
  <2> QED
    BY <1>1, <1>3, <1>4, <2>1, TypeShape DEF TypeOK, Slots
<1>7. HandlersHold'
  BY <1>1 DEF HandlersHold
<1>8. ~orphaned' => \A r \in rooms : Rows(r)' = Rows(r)
  <2>1. ~orphaned' => \A r \in rooms : u \notin Rows(r)
    BY <1>3 DEF Rows
  <2>2. rooms \subseteq Rooms
    BY TypeShape
  <2> QED
    BY <1>5, <2>1, <2>2
<1> QED
  BY <1>1, <1>3, <1>6, <1>7, <1>8, RowsShrink

LEMMA StepKeeps ==
    ASSUME DirectInv, [Next]_vars PROVE DirectInv'
<1>1. CASE UNCHANGED vars
  BY <1>1 DEF vars, tables, DirectInv, TypeOK, Rows, HandlersHold, RoomsOfPairs, OneRoom, RoomsOf,
      Creates, Pair
<1>2. CASE Next
  BY <1>2, CreateFindTargetKeeps, StartOtherKeeps, CreateFindFirstKeeps, CreateRoomKeeps,
     DeleteRoomKeeps, LeaveKeeps, AdminDeleteUserKeeps DEF Next
<1> QED
  BY <1>1, <1>2

-----------------------------------------------------------------------------
\* Everything that is said of the rooms and the handlers holds in every state.
THEOREM InvHolds == Spec => []DirectInv
  BY InitHolds, StepKeeps, PTL DEF Spec

\* Tables and handlers have their types, and no row is left of a room or a user that is
\* gone, whatever was under way when they went.
THEOREM TypeCorrect == Spec => []TypeOK
<1>1. DirectInv => TypeOK
  BY DEF DirectInv
<1> QED
  BY <1>1, InvHolds, PTL

\* Without a key that ties a room to its pair, a pair still gets a second room only when
\* two creates for it overlap, or an account was deleted under some room.
THEOREM DuplicatesHaveCauses == Spec => []DuplicatesExplained
  BY InvHolds, InvExplains, PTL

-----------------------------------------------------------------------------
(* Who has left stays cut off.                                             *)

\* What a step must leave alone for a severed pair to stay severed.
LEMMA SeveredKept ==
    ASSUME NEW p \in Pairs, Severed(p), users' = users, Candidates(p)' = Candidates(p),
           \A r \in RoomsOf(p) :
              /\ r \in rooms' /\ Rows(r)' = Rows(r)
              /\ \A u \in p : member[r][u] = "left" => member'[r][u] = "left",
           \A j \in Jobs : job'[j].at = "create" /\ Pair(j)' = p =>
              job[j].at = "create" /\ Pair(j) = p
    PROVE  Severed(p)'
<1>1. \E r \in RoomsOf(p)', u \in p : member'[r][u] = "left"
  BY DEF Severed, RoomsOf
<1> QED
  BY <1>1 DEF Severed

\* Whatever is found for a severed pair is its own room.
LEMMA SeveredFinds ==
    ASSUME NEW p \in Pairs, Severed(p), DirectInv, NEW r \in Candidates(p)
    PROVE  Rows(r) = p
<1>1. PICK s \in RoomsOf(p) : TRUE
  BY DEF Severed
<1>2. s \in Candidates(p)
  BY DEF RoomsOf, Candidates
<1>3. IsFiniteSet(Candidates(p))
  BY DirectAssumption, FS_Subset DEF DirectInv, TypeOK, Candidates
<1>4. PICK c : Candidates(p) = {c}
  BY <1>3, FS_Singleton DEF Severed
<1> QED
  BY <1>2, <1>4 DEF RoomsOf

LEMMA SeveredStep ==
    ASSUME NEW p \in Pairs, DirectInv, Severed(p), Next, rooms \subseteq rooms', users' = users
    PROVE  Severed(p)'
<1>1. job \in [Jobs -> Slots] /\ member \in [Rooms -> [Users -> {"none", "active", "left"}]]
  BY TypeShape DEF DirectInv
<1>2. rooms \subseteq issued /\ issued \subseteq Rooms /\ Cardinality(p) = 2 /\ p \subseteq Users
  BY DEF DirectInv, TypeOK, Pairs
<1>3. ASSUME NEW j \in Jobs, NEW w, job' = [job EXCEPT ![j] = w], UNCHANGED tables,
             w.at = "create" => {w.by, w.target} # p
      PROVE  Severed(p)'
  <2>1. \A i \in Jobs : job'[i] = IF i = j THEN w ELSE job[i]
    BY <1>1, <1>3
  <2>2. \A i \in Jobs : job'[i].at = "create" /\ Pair(i)' = p => job[i].at = "create" /\ Pair(i) = p
    BY <1>3, <2>1 DEF Pair
  <2>3. Candidates(p)' = Candidates(p) /\ \A r : Rows(r)' = Rows(r)
    BY <1>3 DEF Candidates, Rows, tables
  <2> QED
    BY <1>3, <2>2, <2>3, SeveredKept DEF tables, RoomsOf
<1>4. ASSUME NEW j \in Jobs, NEW u \in Users, NEW t \in Users, CreateFindTarget(j, u, t)
      PROVE  Severed(p)'
  BY <1>3, <1>4 DEF CreateFindTarget, Start
<1>5. ASSUME NEW j \in Jobs, NEW u \in Users, NEW r \in Rooms,
             DeleteFindMember(j, u, r) \/ LeaveFindMember(j, u, r)
      PROVE  Severed(p)'
  BY <1>3, <1>5 DEF DeleteFindMember, LeaveFindMember, Start
<1>6. ASSUME NEW j \in Jobs, CreateFindFirst(j) PROVE Severed(p)'
  <2>1. UNCHANGED tables
    BY <1>6 DEF CreateFindFirst
  <2>2. CASE Done(j)
    BY <1>3, <2>1, <2>2, IdleHolds DEF Done
  <2>3. CASE Await(j, "create") /\ Pair(j) # p
    <3> DEFINE w == [job[j] EXCEPT !.at = "create"]
    <3>1. w.by = job[j].by /\ w.target = job[j].target
      BY <1>1 DEF Slots
    <3>2. job' = [job EXCEPT ![j] = w]
      BY <2>3 DEF Await
    <3> HIDE DEF w
    <3> QED
      BY <1>3, <2>1, <2>3, <3>1, <3>2 DEF Pair
  <2>4. CASE Pair(j) = p
    <3>1. \A r \in Candidates(p) : Cardinality(Rows(r)) = 2
      BY <1>2, SeveredFinds
    <3>2. Candidates(p) # {}
      BY DEF Severed, RoomsOf, Candidates
    <3>3. Done(j)
      BY <1>6, <2>4, <3>1, <3>2 DEF CreateFindFirst
    <3> QED
      BY <2>2, <3>3
  <2> QED
    BY <1>6, <2>2, <2>3, <2>4 DEF CreateFindFirst
<1>7. ASSUME NEW j \in Jobs, NEW r \in Rooms, CreateRoom(j, r) PROVE Severed(p)'
  <2>1. job[j].at = "create" /\ r \notin rooms
    BY <1>2, <1>7 DEF CreateRoom
  <2>2. job' = [job EXCEPT ![j] = Idle]
    BY <1>7 DEF CreateRoom, Done
  <2>3. CASE UNCHANGED tables
    BY <1>3, <2>2, <2>3, IdleHolds
  <2>4. CASE ~UNCHANGED tables
    <3>1. /\ rooms' = rooms \cup {r}
          /\ member' = [member EXCEPT ![r] =
                          [u \in Users |-> IF u \in Pair(j) THEN "active" ELSE "none"]]
      BY <1>7, <2>4 DEF CreateRoom, tables
    <3>2. Pair(j) \in Pairs /\ Pair(j) # p
      <4>1. Holding(job[j]) /\ job[j].at \in Creating
        BY <2>1 DEF DirectInv, HandlersHold, Creating
      <4> QED
        BY <2>1, <4>1, TwoMakeAPair DEF Holding, Pair, Severed
    <3>3. Rows(r)' = Pair(j)
      BY <1>1, <3>1, <3>2 DEF Rows, Pairs
    <3>4. \A s \in Rooms \ {r} : Rows(s)' = Rows(s) /\ member'[s] = member[s]
      BY <1>1, <3>1 DEF Rows
    <3>5. ~(Rows(r)' \subseteq p)
      BY <3>2, <3>3, PairsWithin
    <3>6. Candidates(p)' = Candidates(p)
      BY <1>2, <2>1, <3>1, <3>4, <3>5 DEF Candidates
    <3>7. \A i \in Jobs : job'[i].at = "create" /\ Pair(i)' = p =>
                          job[i].at = "create" /\ Pair(i) = p
      BY <1>1, <2>2, IdleHolds DEF Pair
    <3>8. \A s \in RoomsOf(p) : s \in Rooms \ {r} /\ s \in rooms'
      BY <1>2, <2>1, <3>1 DEF RoomsOf
    <3> QED
      BY <3>4, <3>6, <3>7, <3>8, SeveredKept
  <2> QED
    BY <2>3, <2>4
<1>8. ASSUME NEW j \in Jobs, DeleteRoom(j) PROVE Severed(p)'
  <2>1. PICK r \in Rooms : r = job[j].room
    BY <1>8 DEF DirectInv, HandlersHold, Holding, DeleteRoom
  <2>2. /\ job' = [job EXCEPT ![j] = Idle] /\ rooms' = rooms /\ r \notin rooms
        /\ member' = [member EXCEPT ![r] = [u \in Users |-> "none"]]
    BY <1>8, <2>1 DEF DeleteRoom, Done
  <2>3. \A s \in rooms : Rows(s)' = Rows(s) /\ member'[s] = member[s]
    BY <1>1, <1>2, <2>2 DEF Rows
  <2>4. Candidates(p)' = Candidates(p)
    BY <2>2, <2>3 DEF Candidates
  <2>5. \A i \in Jobs : job'[i].at = "create" /\ Pair(i)' = p =>
                        job[i].at = "create" /\ Pair(i) = p
    BY <1>1, <2>2, IdleHolds DEF Pair
  <2> QED
    BY <2>2, <2>3, <2>4, <2>5, SeveredKept DEF RoomsOf
<1>9. ASSUME NEW j \in Jobs, Leave(j) PROVE Severed(p)'
  <2>1. job' = [job EXCEPT ![j] = Idle] /\ rooms' = rooms
    BY <1>9 DEF Leave, Done
  <2>2. /\ \A r \in Rooms : Rows(r)' = Rows(r)
        /\ \A r \in Rooms, u \in Users : member[r][u] = "left" => member'[r][u] = "left"
    BY <1>9, LeaveEffect
  <2>3. Candidates(p)' = Candidates(p)
    BY <1>2, <2>1, <2>2 DEF Candidates
  <2>4. \A i \in Jobs : job'[i].at = "create" /\ Pair(i)' = p =>
                        job[i].at = "create" /\ Pair(i) = p
    BY <1>1, <2>1, IdleHolds DEF Pair
  <2> QED
    BY <1>2, <2>1, <2>2, <2>3, <2>4, SeveredKept DEF RoomsOf
<1>10. ASSUME NEW u \in Users, AdminDeleteUser(u) PROVE Severed(p)'
  BY <1>10 DEF AdminDeleteUser
<1> QED
  BY <1>4, <1>5, <1>6, <1>7, <1>8, <1>9, <1>10 DEF Next

\* Who has left a DIRECT room stays cut off from the other for as long as the room and
\* both accounts are there, whatever the two ask for: no room is made, and no row is
\* made active again.
THEOREM LeaversStayCutOff == Spec => SeveredForGood
<1>1. ASSUME DirectInv, [Next]_vars
      PROVE  [\A p \in Pairs : Severed(p) =>
                 Severed(p)' \/ ~(rooms \subseteq rooms') \/ users' # users]_vars
  BY <1>1, SeveredStep
<1> QED
  BY <1>1, InvHolds, PTL DEF Spec, SeveredForGood

=============================================================================
