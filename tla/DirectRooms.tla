---------------------------- MODULE DirectRooms -----------------------------
(***************************************************************************)
(* The DIRECT rooms, one for each two users who talk: createDirectRoom and *)
(* deleteDirectRoom of RoomsService, removeMember as a participant uses it *)
(* to leave, and AdminService.deleteUser.  No key of the database ties a   *)
(* room to its pair: that there is but one is up to createDirectRoom.      *)
(*                                                                         *)
(* A handler is a job in a slot of Jobs, one action per await.             *)
(***************************************************************************)
EXTENDS Naturals, FiniteSets

CONSTANTS
    Users,   \* ids of User rows; an id is never issued twice
    Rooms,   \* ids of DIRECT Room rows; likewise, and so a bound on them
    Jobs,    \* slots for handlers running at the same time
    None

ASSUME DirectAssumption ==
    /\ IsFiniteSet(Users) /\ IsFiniteSet(Rooms) /\ IsFiniteSet(Jobs)
    /\ None \notin Users \cup Rooms

VARIABLES
    users,    \* ids of the User rows
    rooms,    \* ids of the Room rows
    member,   \* member[r][u]: the RoomMember row: "none", "active" or "left"
    job,      \* job[j]: the handler in slot j
    issued,   \* history: every room id ever given out
    raced,    \* history: pairs two creates for which ran at the same time
    orphaned  \* history: a room lost a row when an account was deleted

tables == <<users, rooms, member>>
vars   == <<users, rooms, member, job, issued, raced, orphaned>>

Idle == [at |-> "idle", by |-> None, target |-> None, room |-> None]

Rows(r) == {u \in Users : member[r][u] # "none"}

\* The rooms of a pair: those in which both have a row, be it that they left.
RoomsOf(p) == {r \in rooms : Rows(r) = p}

Pair(j) == {job[j].by, job[j].target}

Init ==
    /\ users = Users
    /\ rooms = {}
    /\ member = [r \in Rooms |-> [u \in Users |-> "none"]]
    /\ job = [j \in Jobs |-> Idle]
    /\ issued = {}
    /\ raced = {}
    /\ orphaned = FALSE

Start(j, at, u, t, r) ==
    /\ job[j] = Idle
    /\ job' = [job EXCEPT ![j] = [at |-> at, by |-> u, target |-> t, room |-> r]]

Await(j, at) == job' = [job EXCEPT ![j].at = at]

Done(j) == job' = [job EXCEPT ![j] = Idle]

Creating == {"findFirst", "create"}

\* Bound: an id is left for every create under way.
IdLeft ==
    Cardinality(issued) + Cardinality({j \in Jobs : job[j].at \in Creating}) < Cardinality(Rooms)

-----------------------------------------------------------------------------
(* createDirectRoom                                                        *)

\* The target's account exists.  With oneself the insert would repeat a key.
CreateFindTarget(j, u, t) ==
    /\ t \in users
    /\ u # t
    /\ IdLeft
    /\ Start(j, "findFirst", u, t, None)
    /\ raced' = raced \cup {p \in {{u, t}} :
                  \E i \in Jobs : job[i].at \in Creating /\ Pair(i) = p}
    /\ UNCHANGED <<tables, issued, orphaned>>

\* A plausible bug: the query asks for active members, as the others do.
Candidates_ActiveOnly(p) == 
    {r \in rooms : Rows(r) \subseteq p /\ \A u \in Rows(r) : member[r][u] = "active"}

\* members: { every: userId in p } holds of rooms that lost a row too.
Candidates(p) == {r \in rooms : Rows(r) \subseteq p}

\* findFirst has no orderBy.  A room of two makes the handler throw 409, to which
\* the frontend looks for the room among those the user is active in; any other
\* room, and none at all, let it go on.
CreateFindFirst(j) ==
    /\ job[j].at = "findFirst"
    /\ \/ \E r \in Candidates(Pair(j)) :
             IF Cardinality(Rows(r)) = 2 THEN Done(j) ELSE Await(j, "create")
       \/ Candidates(Pair(j)) = {} /\ Await(j, "create")
    /\ UNCHANGED <<tables, issued, raced, orphaned>>

\* A plausible bug: rows without their foreign keys.
CreateRoom_NoForeignKeys(j, r) ==
    /\ job[j].at = "create"
    /\ Done(j)
    /\ r \notin issued
    /\ rooms' = rooms \cup {r}
    /\ issued' = issued \cup {r}
    /\ member' = [member EXCEPT ![r] =
                    [u \in Users |-> IF u \in Pair(j) THEN "active" ELSE "none"]]
    /\ UNCHANGED <<users, raced, orphaned>>

\* One insert for the room and both rows, if both accounts are still there.
CreateRoom(j, r) ==
    /\ job[j].at = "create"
    /\ Done(j)
    /\ r \notin issued
    /\ IF Pair(j) \subseteq users
       THEN /\ rooms' = rooms \cup {r}
            /\ issued' = issued \cup {r}
            /\ member' = [member EXCEPT ![r] =
                            [u \in Users |-> IF u \in Pair(j) THEN "active" ELSE "none"]]
       ELSE UNCHANGED <<rooms, issued, member>>
    /\ UNCHANGED <<users, raced, orphaned>>
-----------------------------------------------------------------------------
(* deleteDirectRoom, removeMember, deleteUser                              *)

\* Whoever has a row may delete the room, having left it too.
DeleteFindMember(j, u, r) ==
    /\ member[r][u] # "none"
    /\ Start(j, "delete", u, None, r)
    /\ UNCHANGED <<tables, issued, raced, orphaned>>

DeleteRoom(j) ==
    /\ job[j].at = "delete"
    /\ Done(j)
    /\ rooms' = rooms \ {job[j].room}
    /\ member' = [member EXCEPT ![job[j].room] = [u \in Users |-> "none"]]
    /\ UNCHANGED <<users, issued, raced, orphaned>>

\* The two reads of removeMember are of one row when a participant leaves; no
\* row of a DIRECT room is an OWNER's, so nobody is put out and nobody invited.
LeaveFindMember(j, u, r) ==
    /\ member[r][u] = "active"
    /\ Start(j, "leave", u, None, r)
    /\ UNCHANGED <<tables, issued, raced, orphaned>>

Leave(j) ==
    /\ job[j].at = "leave"
    /\ Done(j)
    /\ LET r == job[j].room
           u == job[j].by
       IN member' = [member EXCEPT ![r][u] = IF @ = "none" THEN @ ELSE "left"]
    /\ UNCHANGED <<users, rooms, issued, raced, orphaned>>

\* The rows go with the account, the rooms stay.
AdminDeleteUser(u) ==
    /\ u \in users
    /\ users' = users \ {u}
    /\ member' = [r \in Rooms |-> [member[r] EXCEPT ![u] = "none"]]
    /\ orphaned' = (orphaned \/ \E r \in rooms : member[r][u] # "none")
    /\ UNCHANGED <<rooms, job, issued, raced>>

-----------------------------------------------------------------------------
Next ==
    \/ \E j \in Jobs, u \in Users :
        \/ \E t \in Users : CreateFindTarget(j, u, t)
        \/ \E r \in Rooms : DeleteFindMember(j, u, r) \/ LeaveFindMember(j, u, r)
    \/ \E j \in Jobs :
        \/ CreateFindFirst(j)
        \/ \E r \in Rooms : CreateRoom(j, r)
        \/ DeleteRoom(j)
        \/ Leave(j)
    \/ \E u \in Users : AdminDeleteUser(u)

Spec == Init /\ [][Next]_vars

-----------------------------------------------------------------------------
Pairs == {p \in SUBSET Users : Cardinality(p) = 2}

\* Tables and handlers have their types, and no row outlives its room or user.
TypeOK ==
    /\ users \subseteq Users
    /\ rooms \subseteq issued /\ issued \subseteq Rooms
    /\ member \in [Rooms -> [Users -> {"none", "active", "left"}]]
    /\ \A r \in Rooms : Rows(r) # {} => r \in rooms /\ Rows(r) \subseteq users
    /\ job \in [Jobs -> [at     : {"idle", "findFirst", "create", "delete", "leave"},
                        by     : Users \cup {None},
                        target : Users \cup {None},
                        room   : Rooms \cup {None}]]
    /\ raced \subseteq Pairs
    /\ orphaned \in BOOLEAN

\* A pair has two rooms only if two creates for it ran at the same time, or an
\* account was deleted under some room: what that leaves behind is found instead
\* of the pair's own room.
DuplicatesExplained ==
    \A p \in Pairs : Cardinality(RoomsOf(p)) > 1 => p \in raced \/ orphaned

\* One of the pair has left their only room, and nothing else is found for them.
Severed(p) ==
    /\ p \subseteq users
    /\ Cardinality(Candidates(p)) = 1
    /\ \E r \in RoomsOf(p), u \in p : member[r][u] = "left"
    /\ \A j \in Jobs : Pair(j) = p => job[j].at # "create"

\* Who has left a DIRECT room cannot talk to the other again, whatever the two
\* ask for: the room is found, so none is made, and nobody is let back into it.
\* Only the deletion of the room, or of an account, ends that.
SeveredForGood ==
    [][\A p \in Pairs : Severed(p) =>
          Severed(p)' \/ ~(rooms \subseteq rooms') \/ users' # users]_vars

\* The comment on createDirectRoom: a pair that has a room is given that room, so
\* no second one is made while it is there.
ExistingIsReturned ==
    [][\A p \in Pairs : RoomsOf(p) # {} => Cardinality(RoomsOf(p)') <= Cardinality(RoomsOf(p))]_vars

=============================================================================
