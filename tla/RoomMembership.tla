--------------------------- MODULE RoomMembership ---------------------------
(***************************************************************************)
(* The members of GROUP rooms: who is in a room, who owns it, how many may *)
(* be in it.  RoomMembersService (invite, remove, transfer), the create,   *)
(* update and delete of RoomsService and the deletes of AdminService share *)
(* three tables: User, Room and RoomMember.                                *)
(*                                                                         *)
(* A handler is a chain of awaited database calls.  Each call is a         *)
(* transaction of its own, and between two of them Node runs any other     *)
(* handler.  So a handler is one action per awaited call; what it carries  *)
(* from one call to the next is the record req[q] of the slot q it runs    *)
(* in.  A handler that throws leaves the tables as they are and frees its  *)
(* slot.  Its first call and its arrival are one action, taken only when   *)
(* the call lets the handler go on: a request refused at once changes      *)
(* nothing.                                                                *)
(***************************************************************************)
EXTENDS Naturals, FiniteSets

CONSTANTS
    Users,    \* ids of User rows; an id is never issued twice
    Rooms,    \* ids of Room rows; likewise
    Reqs,     \* slots for the requests the server handles at the same time
    Limits,   \* the values memberLimit takes when it is set
    None      \* null: no limit, no room, no user

\* @Min(2) of CreateGroupRoomDto bounds the limits.
ASSUME MembershipAssumption ==
    /\ IsFiniteSet(Users)
    /\ IsFiniteSet(Reqs)
    /\ Limits \subseteq Nat \ {0, 1}
    /\ None \notin Users \cup Rooms \cup Limits

VARIABLES
    users,        \* ids of the User rows
    rooms,        \* ids of the GROUP Room rows
    memberLimit,  \* Room.memberLimit, None when null
    members,      \* members[r][u]: the RoomMember row with unique key (r, u)
    req,          \* req[q]: the handler in slot q and what it has read
    issued,       \* history: every room id ever given out
    peakLimit,    \* history: the highest limit r ever had, None once unlimited
    bereaved      \* history: rooms that lost an OWNER's User row

tables  == <<users, rooms, memberLimit, members>>
history == <<issued, peakLimit, bereaved>>
vars    == <<users, rooms, memberLimit, members, req, issued, peakLimit, bereaved>>

-----------------------------------------------------------------------------
\* A RoomMember row: leftAt null ("active") or set ("left"), or no row at all.
Row == [state : {"none", "active", "left"}, role : {"OWNER", "MEMBER"}]

NoRow        == [state |-> "none",   role |-> "MEMBER"]
ActiveOwner  == [state |-> "active", role |-> "OWNER"]
ActiveMember == [state |-> "active", role |-> "MEMBER"]

\* The update of a row: of none, when there is none.
WithState(row, s) == IF row.state = "none" THEN row ELSE [row EXCEPT !.state = s]
WithRole(row, s)  == IF row.state = "none" THEN row ELSE [row EXCEPT !.role = s]

Exists(r, u)  == members[r][u].state # "none"
Present(r, u) == members[r][u].state = "active"
IsOwner(r, u) == members[r][u].role = "OWNER"
Active(r)     == {u \in Users : Present(r, u)}

\* What a handler carries: the await it makes next, who asked, about which room
\* and whom, and whether removeMember found the requester to be OWNER.
Request(at, by, r, t, own) ==
    [at |-> at, by |-> by, room |-> r, target |-> t, byOwner |-> own]

Idle == Request("idle", None, None, None, FALSE)

\* The awaits of the handlers that only name a room, and of those that name a member.
RoomAwaits   == {"updateRoom", "deleteRoom"}
MemberAwaits == {"findUser", "checkLimit", "findExisting", "rejoin", "create",
                 "findMember", "remove", "findHeir", "transfer"}

Requests ==
    {Idle}
    \cup [at : RoomAwaits, by : Users, room : Rooms, target : {None}, byOwner : {FALSE}]
    \cup [at : MemberAwaits, by : Users, room : Rooms, target : Users, byOwner : BOOLEAN]

Start(q, at, by, r, t, own) ==
    /\ req[q] = Idle
    /\ req' = [req EXCEPT ![q] = Request(at, by, r, t, own)]

Await(q, at) == req' = [req EXCEPT ![q].at = at]

Done(q) == req' = [req EXCEPT ![q] = Idle]

\* The handler goes on to the next await, or throws.
AwaitIf(cond, q, at) == IF cond THEN Await(q, at) ELSE Done(q)

Init ==
    /\ users = Users
    /\ rooms = {}
    /\ memberLimit = [r \in Rooms |-> None]
    /\ members = [r \in Rooms |-> [u \in Users |-> NoRow]]
    /\ req = [q \in Reqs |-> Idle]
    /\ issued = {}
    /\ peakLimit = [r \in Rooms |-> None]
    /\ bereaved = {}

-----------------------------------------------------------------------------
(* createGroupRoom, updateGroupRoom and deleteGroupRoom of RoomsService.   *)

\* One insert writes the room and its creator's OWNER row; a token outlives
\* its user, so the creator's foreign key can fail.
CreateGroupRoom(q, u, r, l) ==
    /\ req[q] = Idle
    /\ u \in users
    /\ r \notin issued
    /\ rooms' = rooms \cup {r}
    /\ memberLimit' = [memberLimit EXCEPT ![r] = l]
    /\ members' = [members EXCEPT ![r][u] = ActiveOwner]
    /\ issued' = issued \cup {r}
    /\ peakLimit' = [peakLimit EXCEPT ![r] = l]
    /\ UNCHANGED <<users, req, bereaved>>

\* The row's role decides; leftAt is not looked at.
UpdateFindMember(q, by, r) ==
    /\ IsOwner(r, by)
    /\ Start(q, "updateRoom", by, r, None, FALSE)
    /\ UNCHANGED <<tables, history>>

Raise(peak, l) == IF peak = None \/ l = None THEN None
                  ELSE IF l > peak THEN l ELSE peak

\* A plausible bug: a limit the DTO has not checked.
UpdateRoom_UncheckedLimit(q, l) ==
    /\ req[q].at = "updateRoom"
    /\ Done(q)
    /\ memberLimit' = [memberLimit EXCEPT ![req[q].room] = 1]
    /\ UNCHANGED <<users, rooms, members, history>>

UpdateRoom(q, l) ==
    /\ req[q].at = "updateRoom"
    /\ Done(q)
    /\ LET r == req[q].room IN
         IF r \in rooms
         THEN /\ memberLimit' = [memberLimit EXCEPT ![r] = l]
              /\ peakLimit' = [peakLimit EXCEPT ![r] = Raise(@, l)]
         ELSE UNCHANGED <<memberLimit, peakLimit>>
    /\ UNCHANGED <<users, rooms, members, issued, bereaved>>

DeleteFindMember(q, by, r) ==
    /\ IsOwner(r, by)
    /\ Start(q, "deleteRoom", by, r, None, FALSE)
    /\ UNCHANGED <<tables, history>>

\* room.delete: RoomMember rows go by ON DELETE CASCADE.
DropRoom(r) ==
    /\ rooms' = rooms \ {r}
    /\ memberLimit' = [memberLimit EXCEPT ![r] = None]
    /\ members' = [members EXCEPT ![r] = [u \in Users |-> NoRow]]

DeleteRoom(q) ==
    /\ req[q].at = "deleteRoom"
    /\ Done(q)
    /\ IF req[q].room \in rooms
       THEN DropRoom(req[q].room)
       ELSE UNCHANGED <<rooms, memberLimit, members>>
    /\ UNCHANGED <<users, history>>

-----------------------------------------------------------------------------
(* inviteMember                                                            *)

\* A plausible bug: leftAt is not looked at.
AssertOwner_IgnoresLeftAt(by, r) == IsOwner(r, by)

AssertOwner(by, r) == Present(r, by) /\ IsOwner(r, by)

InviteAssertOwner(q, by, r, t) ==
    /\ AssertOwner(by, r)
    /\ Start(q, "findUser", by, r, t, FALSE)
    /\ UNCHANGED <<tables, history>>

InviteFindUser(q) ==
    /\ req[q].at = "findUser"
    /\ AwaitIf(req[q].target \in users, q, "checkLimit")
    /\ UNCHANGED <<tables, history>>

\* A plausible bug: > for >=.
HasSeat_OffByOne(r) ==
    /\ r \in rooms
    /\ memberLimit[r] # None => Cardinality(Active(r)) <= memberLimit[r]

\* One query reads memberLimit and counts the rows with leftAt null; on a room
\* that is gone the handler throws.
HasSeat(r) ==
    /\ r \in rooms
    /\ memberLimit[r] # None => Cardinality(Active(r)) < memberLimit[r]

InviteCheckLimit(q) ==
    /\ req[q].at = "checkLimit"
    /\ AwaitIf(HasSeat(req[q].room), q, "findExisting")
    /\ UNCHANGED <<tables, history>>

InviteFindExisting(q) ==
    /\ req[q].at = "findExisting"
    /\ LET row == members[req[q].room][req[q].target] IN
         \/ row.state = "active" /\ Done(q)
         \/ row.state = "left"   /\ Await(q, "rejoin")
         \/ row.state = "none"   /\ Await(q, "create")
    /\ UNCHANGED <<tables, history>>

\* leftAt is set to null, the role stays; an update of a missing row throws.
InviteRejoin(q) ==
    /\ req[q].at = "rejoin"
    /\ Done(q)
    /\ LET r == req[q].room
           t == req[q].target
       IN IF Exists(r, t)
          THEN members' = [members EXCEPT ![r][t] = WithState(@, "active")]
          ELSE UNCHANGED members
    /\ UNCHANGED <<users, rooms, memberLimit, history>>

\* A plausible bug: a RoomMember table without its foreign keys.
CanInsert_NoForeignKeys(r, u) == ~Exists(r, u)

\* The foreign keys and the unique key of RoomMember.
CanInsert(r, u) == r \in rooms /\ u \in users /\ ~Exists(r, u)

InviteCreate(q) ==
    /\ req[q].at = "create"
    /\ Done(q)
    /\ LET r == req[q].room
           t == req[q].target
       IN IF CanInsert(r, t)
          THEN members' = [members EXCEPT ![r][t] = ActiveMember]
          ELSE UNCHANGED members
    /\ UNCHANGED <<users, rooms, memberLimit, history>>

-----------------------------------------------------------------------------
(* removeMember                                                            *)

RemoveFindRequester(q, by, r, t) ==
    /\ Present(r, by)
    /\ Start(q, "findMember", by, r, t, IsOwner(r, by))
    /\ UNCHANGED <<tables, history>>

\* A plausible bug: the check of an OWNER removing himself is dropped.
MayRemove_OwnerToo(byOwner, isSelf) == byOwner \/ isSelf

\* An OWNER may not remove himself, a MEMBER nobody but himself.
MayRemove(byOwner, isSelf) == ~(byOwner /\ isSelf) /\ (byOwner \/ isSelf)

RemoveFindTarget(q) ==
    /\ req[q].at = "findMember"
    /\ LET w == req[q] IN
         AwaitIf(/\ Present(w.room, w.target)
                 /\ MayRemove(w.byOwner, w.by = w.target), q, "remove")
    /\ UNCHANGED <<tables, history>>

RemoveMember(q) ==
    /\ req[q].at = "remove"
    /\ Done(q)
    /\ LET r == req[q].room
           t == req[q].target
       IN IF Exists(r, t)
          THEN members' = [members EXCEPT ![r][t] = WithState(@, "left")]
          ELSE UNCHANGED members
    /\ UNCHANGED <<users, rooms, memberLimit, history>>

-----------------------------------------------------------------------------
(* transferOwner                                                           *)

TransferAssertOwner(q, by, r, t) ==
    /\ AssertOwner(by, r)
    /\ by # t
    /\ Start(q, "findHeir", by, r, t, FALSE)
    /\ UNCHANGED <<tables, history>>

TransferFindTarget(q) ==
    /\ req[q].at = "findHeir"
    /\ AwaitIf(Present(req[q].room, req[q].target), q, "transfer")
    /\ UNCHANGED <<tables, history>>

\* A plausible bug: the two updates outside of a transaction.
TransferCommits_NotAtomic(r, by, t) == Exists(r, by)

\* Both updates of the $transaction find their row, or both are rolled back.
TransferCommits(r, by, t) == Exists(r, by) /\ Exists(r, t)

\* A plausible bug: the promotion without the demotion.
HandOver_NoDemotion(rows, b, t) ==
    [u \in Users |-> IF u = t THEN WithRole(rows[u], "OWNER") ELSE rows[u]]

HandOver(rows, b, t) ==
    [u \in Users |-> CASE u = t -> WithRole(rows[u], "OWNER")
                       [] u = b /\ u # t -> WithRole(rows[u], "MEMBER")
                       [] OTHER -> rows[u]]

TransferOwner(q) ==
    /\ req[q].at = "transfer"
    /\ Done(q)
    /\ LET r == req[q].room
           b == req[q].by
           t == req[q].target
       IN IF TransferCommits(r, b, t)
          THEN members' = [members EXCEPT ![r] = HandOver(@, b, t)]
          ELSE UNCHANGED members
    /\ UNCHANGED <<users, rooms, memberLimit, history>>

-----------------------------------------------------------------------------
(* AdminService.deleteUser and deleteRoom.  Each reads a row to answer 404 *)
(* or find images, then deletes it; the read changes nothing and the       *)
(* delete of a row that is gone throws, so one action stands for both; and *)
(* for deleteDirectRoom, which takes a GROUP room of any member, present   *)
(* or not.                                                                 *)

AdminDeleteUser(q, u) ==
    /\ req[q] = Idle
    /\ u \in users
    /\ users' = users \ {u}
    /\ members' = [r \in Rooms |-> [members[r] EXCEPT ![u] = NoRow]]
    /\ bereaved' = bereaved \cup {r \in Rooms : IsOwner(r, u)}
    /\ UNCHANGED <<rooms, memberLimit, req, issued, peakLimit>>

AdminDeleteRoom(q, r) ==
    /\ req[q] = Idle
    /\ r \in rooms
    /\ DropRoom(r)
    /\ UNCHANGED <<users, req, history>>

-----------------------------------------------------------------------------
Arrive(q) ==
    \E r \in Rooms, by \in Users :
        \/ \E l \in Limits \cup {None} : CreateGroupRoom(q, by, r, l)
        \/ UpdateFindMember(q, by, r)
        \/ DeleteFindMember(q, by, r)
        \/ \E t \in Users :
              \/ InviteAssertOwner(q, by, r, t)
              \/ RemoveFindRequester(q, by, r, t)
              \/ TransferAssertOwner(q, by, r, t)

Proceed(q) ==
    \/ \E l \in Limits \cup {None} : UpdateRoom(q, l)
    \/ DeleteRoom(q)
    \/ InviteFindUser(q)
    \/ InviteCheckLimit(q)
    \/ InviteFindExisting(q)
    \/ InviteRejoin(q)
    \/ InviteCreate(q)
    \/ RemoveFindTarget(q)
    \/ RemoveMember(q)
    \/ TransferFindTarget(q)
    \/ TransferOwner(q)

Admin(q) ==
    \/ \E u \in Users : AdminDeleteUser(q, u)
    \/ \E r \in Rooms : AdminDeleteRoom(q, r)

Next == \E q \in Reqs : Arrive(q) \/ Proceed(q) \/ Admin(q)

Spec == Init /\ [][Next]_vars

-----------------------------------------------------------------------------
\* Every table and every request in flight has its type.
TypeOK ==
    /\ users \subseteq Users
    /\ rooms \subseteq issued
    /\ issued \subseteq Rooms
    /\ memberLimit \in [Rooms -> Limits \cup {None}]
    /\ members \in [Rooms -> [Users -> Row]]
    /\ req \in [Reqs -> Requests]
    /\ peakLimit \in [Rooms -> Limits \cup {None}]
    /\ bereaved \subseteq Rooms

\* No invite, however late it lands, leaves a member of a room or a user that
\* is gone: the keys and cascades of RoomMember hold under every interleaving.
NoDanglingMember ==
    \A r \in Rooms, u \in Users : Exists(r, u) => r \in rooms /\ u \in users

\* A room keeps an OWNER row, whatever invites, removals and transfers overlap:
\* transferOwner never demotes without promoting.  Only the deletion of an
\* owner's account takes the last one away.
OwnerKept ==
    \A r \in rooms \ bereaved : \E u \in Users : Exists(r, u) /\ IsOwner(r, u)

\* Invites for r that have passed the check of the limit and not yet written.
PastCheck(r) ==
    {q \in Reqs : req[q].room = r /\ req[q].at \in {"findExisting", "rejoin", "create"}}

\* How far inviteMember can exceed the limit: members and invites about to write
\* never outnumber the highest limit the room has had by more than the number of
\* requests handled at the same time less one.  With one at a time the limit holds.
OvershootBounded ==
    \A r \in rooms : peakLimit[r] # None =>
        Cardinality(Active(r)) + Cardinality(PastCheck(r)) + 1
            <= peakLimit[r] + Cardinality(Reqs)

\* Nobody in the room can act as OWNER, and no invite or transfer that was
\* allowed before is still on its way.
Ownerless(r) ==
    /\ r \in rooms
    /\ \A u \in Users : ~(Present(r, u) /\ IsOwner(r, u))
    /\ \A q \in Reqs : req[q].room = r =>
          req[q].at \in {"updateRoom", "deleteRoom", "findMember", "remove"}

\* A room that lost its present OWNER stays so for the rest of its life: no
\* sequence of invites, transfers and removals gives it one again.
OwnerlessForGood ==
    [][\A r \in Rooms : Ownerless(r) => Ownerless(r)' \/ r \notin rooms']_vars

\* The comment on removeMember: an OWNER cannot be put out of the room.
OwnerNeverLeft ==
    \A r \in rooms, u \in Users : IsOwner(r, u) => Present(r, u)

\* One request at a time, a room has at most one OWNER row: transfers, rejoins and
\* promotions never add up to two.  Two transfers at once do.
SoleOwner ==
    \A r \in Rooms : Cardinality({u \in Users : IsOwner(r, u)}) <= 1

\* The comment on inviteMember: active members never exceed the limit.
LimitNeverExceeded ==
    \A r \in rooms : peakLimit[r] # None => Cardinality(Active(r)) <= peakLimit[r]

-----------------------------------------------------------------------------
(* Requests one at a time, and the rooms as RoomPolicy describes them.     *)

OneAtATime == \A p, q \in Reqs : p = q

\* The one who acts as OWNER among the rows of a room.
OwnerAmong(rows) ==
    IF \E u \in Users : rows[u] = ActiveOwner
    THEN CHOOSE u \in Users : rows[u] = ActiveOwner
    ELSE None

Policy == INSTANCE RoomPolicy WITH
              used   <- issued,
              limit  <- memberLimit,
              active <- [r \in Rooms |-> Active(r)],
              owner  <- [r \in Rooms |-> OwnerAmong(members[r])]

\* One request at a time, the handlers keep the promises of RoomPolicy: one
\* owner, present, handed over in one step, and no invite beyond the limit.
ImplementsPolicy == Policy!Spec

=============================================================================
