------------------------ MODULE RoomMembershipProofs ------------------------
(***************************************************************************)
(* Proofs about RoomMembership, for every number of users, rooms, limits   *)
(* and requests handled at the same time.                                  *)
(***************************************************************************)
EXTENDS RoomMembership, FiniteSetTheorems, TLAPS

-----------------------------------------------------------------------------
(* Requests and slots.                                                     *)

\* The slots sort by the await they are at.
LEMMA SlotKinds ==
    ASSUME NEW w \in Requests
    PROVE  /\ w.at \in MemberAwaits =>
                w \in [at : MemberAwaits, by : Users, room : Rooms, target : Users,
                       byOwner : BOOLEAN]
           /\ w.at \in RoomAwaits =>
                w \in [at : RoomAwaits, by : Users, room : Rooms, target : {None},
                       byOwner : {FALSE}]
           /\ w = Idle => w.at = "idle" /\ w.room = None
<1>1. CASE w = Idle
  <2>1. w.at = "idle" /\ w.room = None
    BY <1>1 DEF Idle, Request
  <2> QED
    BY <2>1 DEF MemberAwaits, RoomAwaits
<1>2. CASE w \in [at : RoomAwaits, by : Users, room : Rooms, target : {None}, byOwner : {FALSE}]
  <2>1. w.at \in RoomAwaits
    BY <1>2
  <2>2. w.at \notin MemberAwaits /\ w # Idle
    BY <2>1 DEF MemberAwaits, RoomAwaits, Idle, Request
  <2> QED
    BY <1>2, <2>2
<1>3. CASE w \in [at : MemberAwaits, by : Users, room : Rooms, target : Users, byOwner : BOOLEAN]
  <2>1. w.at \in MemberAwaits
    BY <1>3
  <2>2. w.at \notin RoomAwaits /\ w # Idle
    BY <2>1 DEF MemberAwaits, RoomAwaits, Idle, Request
  <2> QED
    BY <1>3, <2>2
<1> QED
  BY <1>1, <1>2, <1>3 DEF Requests

LEMMA AwaitTyped ==
    ASSUME req \in [Reqs -> Requests], NEW q \in Reqs, req[q].at \in MemberAwaits,
           NEW at \in MemberAwaits, Await(q, at)
    PROVE  req' \in [Reqs -> Requests]
<1> DEFINE M == [at : MemberAwaits, by : Users, room : Rooms, target : Users,
                 byOwner : BOOLEAN]
<1>1. req[q] \in M
  BY SlotKinds
<1>2. [req[q] EXCEPT !.at = at] \in M
  BY <1>1
<1>3. M \subseteq Requests
  BY DEF Requests
<1>4. req' = [req EXCEPT ![q] = [req[q] EXCEPT !.at = at]]
  BY DEF Await
<1> HIDE DEF M
<1> QED
  BY <1>2, <1>3, <1>4

LEMMA DoneTyped ==
    ASSUME req \in [Reqs -> Requests], NEW q \in Reqs, Done(q)
    PROVE  req' \in [Reqs -> Requests]
BY DEF Done, Requests

LEMMA StartTyped ==
    ASSUME req \in [Reqs -> Requests], NEW q \in Reqs, NEW at, NEW by \in Users,
           NEW r \in Rooms, NEW t, NEW own,
           \/ at \in RoomAwaits /\ t = None /\ own = FALSE
           \/ at \in MemberAwaits /\ t \in Users /\ own \in BOOLEAN,
           Start(q, at, by, r, t, own)
    PROVE  req' \in [Reqs -> Requests]
<1>1. Request(at, by, r, t, own) \in Requests
  BY DEF Request, Requests
<1> QED
  BY <1>1 DEF Start

LEMMA AwaitIfTyped ==
    ASSUME req \in [Reqs -> Requests], NEW q \in Reqs, req[q].at \in MemberAwaits,
           NEW at \in MemberAwaits, NEW cond, AwaitIf(cond, q, at)
    PROVE  req' \in [Reqs -> Requests]
BY AwaitTyped, DoneTyped DEF AwaitIf

-----------------------------------------------------------------------------
(* Type correctness.                                                       *)

LEMMA RowsTyped ==
    /\ NoRow \in Row /\ ActiveOwner \in Row /\ ActiveMember \in Row
    /\ \A row \in Row : /\ WithState(row, "active") \in Row
                        /\ WithState(row, "left") \in Row
                        /\ WithRole(row, "OWNER") \in Row
                        /\ WithRole(row, "MEMBER") \in Row
BY DEF NoRow, ActiveOwner, ActiveMember, WithState, WithRole, Row

LEMMA WriteTyped ==
    ASSUME members \in [Rooms -> [Users -> Row]], NEW r \in Rooms, NEW u \in Users,
           NEW row \in Row, members' = [members EXCEPT ![r][u] = row]
    PROVE  members' \in [Rooms -> [Users -> Row]]
OBVIOUS

LEMMA InitTyped == Init => TypeOK
BY DEF Init, TypeOK, NoRow, Row, Requests

\* The reads: a request arrives or goes on, no table is written.
LEMMA ReadTyped ==
    ASSUME TypeOK, UNCHANGED <<tables, history>>, req' \in [Reqs -> Requests]
    PROVE  TypeOK'
BY DEF TypeOK, tables, history

LEMMA ArriveTyped ==
    ASSUME TypeOK, NEW q \in Reqs, Arrive(q)
    PROVE  TypeOK'
<1> USE DEF TypeOK
<1>1. PICK r \in Rooms, by \in Users :
        \/ \E l \in Limits \cup {None} : CreateGroupRoom(q, by, r, l)
        \/ UpdateFindMember(q, by, r)
        \/ DeleteFindMember(q, by, r)
        \/ \E t \in Users :
              \/ InviteAssertOwner(q, by, r, t)
              \/ RemoveFindRequester(q, by, r, t)
              \/ TransferAssertOwner(q, by, r, t)
  BY DEF Arrive
<1>2. ASSUME NEW l \in Limits \cup {None}, CreateGroupRoom(q, by, r, l)
      PROVE  TypeOK'
  <2>1. members' \in [Rooms -> [Users -> Row]]
    BY <1>2, RowsTyped DEF CreateGroupRoom
  <2> QED
    BY <1>2, <2>1 DEF CreateGroupRoom
<1>3. CASE UpdateFindMember(q, by, r)
  <2>1. req' \in [Reqs -> Requests]
    BY <1>3, StartTyped DEF UpdateFindMember, RoomAwaits
  <2> QED
    BY <1>3, <2>1, ReadTyped DEF UpdateFindMember
<1>4. CASE DeleteFindMember(q, by, r)
  <2>1. req' \in [Reqs -> Requests]
    BY <1>4, StartTyped DEF DeleteFindMember, RoomAwaits
  <2> QED
    BY <1>4, <2>1, ReadTyped DEF DeleteFindMember
<1>5. ASSUME NEW t \in Users, InviteAssertOwner(q, by, r, t)
      PROVE  TypeOK'
  <2>1. req' \in [Reqs -> Requests]
    BY <1>5, StartTyped DEF InviteAssertOwner, MemberAwaits
  <2> QED
    BY <1>5, <2>1, ReadTyped DEF InviteAssertOwner
<1>6. ASSUME NEW t \in Users, RemoveFindRequester(q, by, r, t)
      PROVE  TypeOK'
  <2>1. req' \in [Reqs -> Requests]
    BY <1>6, StartTyped DEF RemoveFindRequester, MemberAwaits, IsOwner
  <2> QED
    BY <1>6, <2>1, ReadTyped DEF RemoveFindRequester
<1>7. ASSUME NEW t \in Users, TransferAssertOwner(q, by, r, t)
      PROVE  TypeOK'
  <2>1. req' \in [Reqs -> Requests]
    BY <1>7, StartTyped DEF TransferAssertOwner, MemberAwaits
  <2> QED
    BY <1>7, <2>1, ReadTyped DEF TransferAssertOwner
<1> QED
  BY <1>1, <1>2, <1>3, <1>4, <1>5, <1>6, <1>7

LEMMA DropRoomTyped ==
    ASSUME TypeOK, NEW r \in Rooms, DropRoom(r)
    PROVE  /\ rooms' \subseteq rooms
           /\ memberLimit' \in [Rooms -> Limits \cup {None}]
           /\ members' \in [Rooms -> [Users -> Row]]
BY DEF TypeOK, DropRoom, NoRow, Row

LEMMA AdminTyped ==
    ASSUME TypeOK, NEW q \in Reqs, Admin(q)
    PROVE  TypeOK'
<1> USE DEF TypeOK
<1>1. ASSUME NEW u \in Users, AdminDeleteUser(q, u)
      PROVE  TypeOK'
  BY <1>1 DEF AdminDeleteUser, NoRow, Row
<1>2. ASSUME NEW r \in Rooms, AdminDeleteRoom(q, r)
      PROVE  TypeOK'
  BY <1>2, DropRoomTyped DEF AdminDeleteRoom, history
<1> QED
  BY <1>1, <1>2 DEF Admin

LEMMA ProceedTyped ==
    ASSUME TypeOK, NEW q \in Reqs, Proceed(q)
    PROVE  TypeOK'
<1> USE DEF TypeOK
<1> DEFINE w == req[q]
<1>w. w \in Requests
  OBVIOUS
<1>r. /\ w.at \in RoomAwaits => w.room \in Rooms
      /\ w.at \in MemberAwaits => w.room \in Rooms /\ w.by \in Users /\ w.target \in Users
  <2>1. w.at \in RoomAwaits => w.room \in Rooms
    BY <1>w, SlotKinds
  <2>2. w.at \in MemberAwaits => w.room \in Rooms /\ w.by \in Users /\ w.target \in Users
    BY <1>w, SlotKinds
  <2> QED
    BY <2>1, <2>2
<1>1. ASSUME NEW l \in Limits \cup {None}, UpdateRoom(q, l)
      PROVE  TypeOK'
  <2>1. w.room \in Rooms
    BY <1>r, <1>1 DEF UpdateRoom, RoomAwaits
  <2>2. req' \in [Reqs -> Requests]
    BY <1>1, DoneTyped DEF UpdateRoom
  <2>3. ASSUME NEW p \in Limits \cup {None}
        PROVE  Raise(p, l) \in Limits \cup {None}
    BY <1>1 DEF Raise
  <2> QED
    BY <1>1, <2>1, <2>2, <2>3 DEF UpdateRoom
<1>2. CASE DeleteRoom(q)
  <2>1. w.room \in Rooms
    BY <1>r, <1>2 DEF DeleteRoom, RoomAwaits
  <2>2. req' \in [Reqs -> Requests]
    BY <1>2, DoneTyped DEF DeleteRoom
  <2> QED
    BY <1>2, <2>1, <2>2, DropRoomTyped DEF DeleteRoom, history
<1>3. CASE InviteFindUser(q)
  <2>1. req' \in [Reqs -> Requests]
    BY <1>3, AwaitIfTyped DEF InviteFindUser, MemberAwaits
  <2> QED
    BY <1>3, <2>1, ReadTyped DEF InviteFindUser
<1>4. CASE InviteCheckLimit(q)
  <2>1. req' \in [Reqs -> Requests]
    BY <1>4, AwaitIfTyped DEF InviteCheckLimit, MemberAwaits
  <2> QED
    BY <1>4, <2>1, ReadTyped DEF InviteCheckLimit
<1>5. CASE InviteFindExisting(q)
  <2>1. req[q].at \in MemberAwaits
    BY <1>5 DEF InviteFindExisting, MemberAwaits
  <2>2. Done(q) \/ Await(q, "rejoin") \/ Await(q, "create")
    BY <1>5 DEF InviteFindExisting
  <2>3. req' \in [Reqs -> Requests]
    BY <2>1, <2>2, AwaitTyped, DoneTyped DEF MemberAwaits
  <2> QED
    BY <1>5, <2>3, ReadTyped DEF InviteFindExisting
<1>6. CASE InviteRejoin(q)
  <2>1. w.room \in Rooms /\ w.target \in Users
    BY <1>r, <1>6 DEF InviteRejoin, MemberAwaits
  <2>2. req' \in [Reqs -> Requests]
    BY <1>6, DoneTyped DEF InviteRejoin
  <2>3. members' \in [Rooms -> [Users -> Row]]
    <3> DEFINE row == WithState(members[w.room][w.target], "active")
    <3>1. row \in Row
      BY <2>1, RowsTyped
    <3>2. UNCHANGED members \/ members' = [members EXCEPT ![w.room][w.target] = row]
      BY <1>6 DEF InviteRejoin
    <3> HIDE DEF row
    <3> QED
      BY <2>1, <3>1, <3>2, WriteTyped
  <2> QED
    BY <1>6, <2>2, <2>3 DEF InviteRejoin, history
<1>7. CASE InviteCreate(q)
  <2>1. w.room \in Rooms /\ w.target \in Users
    BY <1>r, <1>7 DEF InviteCreate, MemberAwaits
  <2>2. req' \in [Reqs -> Requests]
    BY <1>7, DoneTyped DEF InviteCreate
  <2>3. members' \in [Rooms -> [Users -> Row]]
    BY <1>7, <2>1, RowsTyped DEF InviteCreate
  <2> QED
    BY <1>7, <2>2, <2>3 DEF InviteCreate, history
<1>8. CASE RemoveFindTarget(q)
  <2>1. req' \in [Reqs -> Requests]
    BY <1>8, AwaitIfTyped DEF RemoveFindTarget, MemberAwaits
  <2> QED
    BY <1>8, <2>1, ReadTyped DEF RemoveFindTarget
<1>9. CASE RemoveMember(q)
  <2>1. w.room \in Rooms /\ w.target \in Users
    BY <1>r, <1>9 DEF RemoveMember, MemberAwaits
  <2>2. req' \in [Reqs -> Requests]
    BY <1>9, DoneTyped DEF RemoveMember
  <2>3. members' \in [Rooms -> [Users -> Row]]
    <3> DEFINE row == WithState(members[w.room][w.target], "left")
    <3>1. row \in Row
      BY <2>1, RowsTyped
    <3>2. UNCHANGED members \/ members' = [members EXCEPT ![w.room][w.target] = row]
      BY <1>9 DEF RemoveMember
    <3> HIDE DEF row
    <3> QED
      BY <2>1, <3>1, <3>2, WriteTyped
  <2> QED
    BY <1>9, <2>2, <2>3 DEF RemoveMember, history
<1>10. CASE TransferFindTarget(q)
  <2>1. req' \in [Reqs -> Requests]
    BY <1>10, AwaitIfTyped DEF TransferFindTarget, MemberAwaits
  <2> QED
    BY <1>10, <2>1, ReadTyped DEF TransferFindTarget
<1>11. CASE TransferOwner(q)
  <2>1. w.room \in Rooms /\ w.by \in Users /\ w.target \in Users
    BY <1>r, <1>11 DEF TransferOwner, MemberAwaits
  <2>2. req' \in [Reqs -> Requests]
    BY <1>11, DoneTyped DEF TransferOwner
  <2>3. members' \in [Rooms -> [Users -> Row]]
    <3>1. HandOver(members[w.room], w.by, w.target) \in [Users -> Row]
      BY <2>1, RowsTyped DEF HandOver
    <3> QED
      BY <1>11, <2>1, <3>1 DEF TransferOwner
  <2> QED
    BY <1>11, <2>2, <2>3 DEF TransferOwner, history
<1> QED
  BY <1>1, <1>2, <1>3, <1>4, <1>5, <1>6, <1>7, <1>8, <1>9, <1>10, <1>11 DEF Proceed

LEMMA NextTyped == TypeOK /\ [Next]_vars => TypeOK'
<1> SUFFICES ASSUME TypeOK, [Next]_vars PROVE TypeOK'
  OBVIOUS
<1>1. CASE Next
  BY <1>1, ArriveTyped, ProceedTyped, AdminTyped DEF Next
<1>2. CASE UNCHANGED vars
  BY <1>2 DEF TypeOK, vars
<1> QED
  BY <1>1, <1>2

\* The tables and the requests in flight always have their type.
THEOREM TypeCorrect == Spec => []TypeOK
BY InitTyped, NextTyped, PTL DEF Spec

-----------------------------------------------------------------------------
(* What a step does to the tables.                                         *)

Reads == UNCHANGED <<tables, history>>

\* The kinds of steps: a read, or one of the writes.
Kinds(q) ==
    \/ Reads
    \/ \E r \in Rooms, u \in Users, l \in Limits \cup {None} : CreateGroupRoom(q, u, r, l)
    \/ \E l \in Limits \cup {None} : UpdateRoom(q, l)
    \/ DeleteRoom(q)
    \/ InviteRejoin(q)
    \/ InviteCreate(q)
    \/ RemoveMember(q)
    \/ TransferOwner(q)
    \/ \E u \in Users : AdminDeleteUser(q, u)
    \/ \E r \in Rooms : AdminDeleteRoom(q, r)

LEMMA StepKinds ==
    ASSUME Next
    PROVE  \E q \in Reqs : Kinds(q)
<1>1. PICK q \in Reqs : Arrive(q) \/ Proceed(q) \/ Admin(q)
  BY DEF Next
<1>2. CASE Arrive(q)
  <2>1. ASSUME NEW r \in Rooms, NEW by \in Users, NEW t \in Users,
               \/ UpdateFindMember(q, by, r)
               \/ DeleteFindMember(q, by, r)
               \/ InviteAssertOwner(q, by, r, t)
               \/ RemoveFindRequester(q, by, r, t)
               \/ TransferAssertOwner(q, by, r, t)
        PROVE  Reads
    BY <2>1 DEF Reads, UpdateFindMember, DeleteFindMember, InviteAssertOwner,
       RemoveFindRequester, TransferAssertOwner
  <2>2. \/ Reads
        \/ \E r \in Rooms, u \in Users, l \in Limits \cup {None} : CreateGroupRoom(q, u, r, l)
    BY <1>2, <2>1 DEF Arrive
  <2> QED
    BY <2>2 DEF Kinds
<1>3. CASE Proceed(q)
  BY <1>3 DEF Kinds, Proceed, Reads, InviteFindUser, InviteCheckLimit, InviteFindExisting,
     RemoveFindTarget, TransferFindTarget
<1>4. CASE Admin(q)
  BY <1>4 DEF Kinds, Admin
<1> QED
  BY <1>1, <1>2, <1>3, <1>4

\* The slots whose next call writes a table know a room, and a member if they need one.
LEMMA WriterKnows ==
    ASSUME TypeOK, NEW q \in Reqs
    PROVE  /\ req[q].at \in {"updateRoom", "deleteRoom"} => req[q].room \in Rooms
           /\ req[q].at \in {"rejoin", "create", "remove", "transfer"} =>
                 /\ req[q].room \in Rooms
                 /\ req[q].by \in Users
                 /\ req[q].target \in Users
<1>1. req[q] \in Requests
  BY DEF TypeOK
<1>2. {"updateRoom", "deleteRoom"} \subseteq RoomAwaits
  BY DEF RoomAwaits
<1>3. {"rejoin", "create", "remove", "transfer"} \subseteq MemberAwaits
  BY DEF MemberAwaits
<1>4. req[q].at \in RoomAwaits => req[q].room \in Rooms
  BY <1>1, SlotKinds
<1>5. req[q].at \in MemberAwaits =>
         req[q].room \in Rooms /\ req[q].by \in Users /\ req[q].target \in Users
  BY <1>1, SlotKinds
<1> QED
  BY <1>2, <1>3, <1>4, <1>5

\* Rejoining or leaving sets the state of one existing row and nothing else.
StateWritten(r, t, s) ==
    \A p \in Rooms, u \in Users :
        /\ members'[p][u].role = members[p][u].role
        /\ members'[p][u].state = IF p = r /\ u = t /\ Exists(r, t)
                                  THEN s ELSE members[p][u].state

LEMMA RejoinWrites ==
    ASSUME TypeOK, NEW q \in Reqs, InviteRejoin(q)
    PROVE  /\ req[q].room \in Rooms
           /\ req[q].target \in Users
           /\ StateWritten(req[q].room, req[q].target, "active")
           /\ UNCHANGED <<users, rooms, memberLimit, issued, peakLimit, bereaved>>
<1> DEFINE r == req[q].room
           t == req[q].target
           row == WithState(members[r][t], "active")
<1>1. r \in Rooms /\ t \in Users
  BY WriterKnows DEF InviteRejoin
<1>2. members \in [Rooms -> [Users -> Row]]
  BY DEF TypeOK
<1>3. /\ Exists(r, t) => members' = [members EXCEPT ![r][t] = row]
      /\ ~Exists(r, t) => members' = members
  BY DEF InviteRejoin
<1>4. Exists(r, t) => row.state = "active" /\ row.role = members[r][t].role
  BY <1>1, <1>2 DEF WithState, Exists, Row
<1> HIDE DEF r, t, row
<1>5. StateWritten(r, t, "active")
  BY <1>1, <1>2, <1>3, <1>4 DEF StateWritten
<1> QED
  BY <1>1, <1>5 DEF r, t, InviteRejoin, history

LEMMA RemoveWrites ==
    ASSUME TypeOK, NEW q \in Reqs, RemoveMember(q)
    PROVE  /\ req[q].room \in Rooms
           /\ req[q].target \in Users
           /\ StateWritten(req[q].room, req[q].target, "left")
           /\ UNCHANGED <<users, rooms, memberLimit, issued, peakLimit, bereaved>>
<1> DEFINE r == req[q].room
           t == req[q].target
           row == WithState(members[r][t], "left")
<1>1. r \in Rooms /\ t \in Users
  BY WriterKnows DEF RemoveMember
<1>2. members \in [Rooms -> [Users -> Row]]
  BY DEF TypeOK
<1>3. /\ Exists(r, t) => members' = [members EXCEPT ![r][t] = row]
      /\ ~Exists(r, t) => members' = members
  BY DEF RemoveMember
<1>4. Exists(r, t) => row.state = "left" /\ row.role = members[r][t].role
  BY <1>1, <1>2 DEF WithState, Exists, Row
<1> HIDE DEF r, t, row
<1>5. StateWritten(r, t, "left")
  BY <1>1, <1>2, <1>3, <1>4 DEF StateWritten
<1> QED
  BY <1>1, <1>5 DEF r, t, RemoveMember, history

\* An invited newcomer gets an active MEMBER row, where there was none.
LEMMA CreateWrites ==
    ASSUME TypeOK, NEW q \in Reqs, InviteCreate(q)
    PROVE  /\ UNCHANGED <<users, rooms, memberLimit, issued, peakLimit, bereaved>>
           /\ \/ UNCHANGED members
              \/ /\ req[q].room \in rooms
                 /\ req[q].target \in users
                 /\ ~Exists(req[q].room, req[q].target)
                 /\ \A p \in Rooms, u \in Users :
                       members'[p][u] = IF p = req[q].room /\ u = req[q].target
                                        THEN ActiveMember ELSE members[p][u]
<1> DEFINE r == req[q].room
           t == req[q].target
<1>1. r \in Rooms /\ t \in Users
  BY WriterKnows DEF InviteCreate
<1>2. members \in [Rooms -> [Users -> Row]]
  BY DEF TypeOK
<1>3. /\ CanInsert(r, t) => members' = [members EXCEPT ![r][t] = ActiveMember]
      /\ ~CanInsert(r, t) => members' = members
  BY DEF InviteCreate
<1>4. UNCHANGED <<users, rooms, memberLimit, issued, peakLimit, bereaved>>
  BY DEF InviteCreate, history
<1>5. CanInsert(r, t) => r \in rooms /\ t \in users /\ ~Exists(r, t)
  BY DEF CanInsert
<1> HIDE DEF r, t
<1>6. CanInsert(r, t) => \A p \in Rooms, u \in Users :
         members'[p][u] = IF p = r /\ u = t THEN ActiveMember ELSE members[p][u]
  BY <1>1, <1>2, <1>3
<1> QED
  BY <1>3, <1>4, <1>5, <1>6 DEF r, t


\* A transfer turns the requester's row to MEMBER and the heir's to OWNER, or
\* finds a row missing and does neither.
LEMMA TransferWrites ==
    ASSUME TypeOK, NEW q \in Reqs, TransferOwner(q)
    PROVE  /\ UNCHANGED <<users, rooms, memberLimit, issued, peakLimit, bereaved>>
           /\ \A p \in Rooms, u \in Users : members'[p][u].state = members[p][u].state
           /\ \/ UNCHANGED members
              \/ /\ Exists(req[q].room, req[q].target)
                 /\ members'[req[q].room][req[q].target].role = "OWNER"
                 /\ \A p \in Rooms, u \in Users :
                       p # req[q].room \/ u \notin {req[q].by, req[q].target} =>
                          members'[p][u] = members[p][u]
<1> DEFINE r == req[q].room
           b == req[q].by
           t == req[q].target
           rows == HandOver(members[r], b, t)
<1>1. r \in Rooms /\ b \in Users /\ t \in Users
  BY WriterKnows DEF TransferOwner
<1>2. members \in [Rooms -> [Users -> Row]]
  BY DEF TypeOK
<1>3. /\ TransferCommits(r, b, t) => members' = [members EXCEPT ![r] = rows]
      /\ ~TransferCommits(r, b, t) => members' = members
  BY DEF TransferOwner
<1>4. UNCHANGED <<users, rooms, memberLimit, issued, peakLimit, bereaved>>
  BY DEF TransferOwner, history
<1>5. TransferCommits(r, b, t) => Exists(r, t)
  BY DEF TransferCommits
<1>6. \A row \in Row : /\ WithRole(row, "OWNER").state = row.state
                       /\ WithRole(row, "MEMBER").state = row.state
                       /\ row.state # "none" => WithRole(row, "OWNER").role = "OWNER"
  BY DEF WithRole, Row
<1>7. /\ \A u \in Users : rows[u].state = members[r][u].state
      /\ \A u \in Users \ {b, t} : rows[u] = members[r][u]
      /\ Exists(r, t) => rows[t].role = "OWNER"
  BY <1>1, <1>2, <1>6 DEF HandOver, Exists
<1> HIDE DEF r, b, t, rows
<1>8. TransferCommits(r, b, t) =>
         /\ members'[r] = rows
         /\ \A p \in Rooms \ {r} : members'[p] = members[p]
  BY <1>1, <1>2, <1>3
<1>9. \A p \in Rooms, u \in Users : members'[p][u].state = members[p][u].state
  BY <1>1, <1>3, <1>7, <1>8
<1> QED
  BY <1>1, <1>3, <1>4, <1>5, <1>7, <1>8, <1>9 DEF r, b, t

\* The delete of a room, by its OWNER or by an administrator.
LEMMA DropWrites ==
    ASSUME TypeOK, NEW r \in Rooms, DropRoom(r)
    PROVE  /\ rooms' = rooms \ {r}
           /\ \A p \in Rooms, u \in Users :
                 members'[p][u] = IF p = r THEN NoRow ELSE members[p][u]
           /\ \A p \in Rooms \ {r} : memberLimit'[p] = memberLimit[p]
BY DEF TypeOK, DropRoom

LEMMA DeleteRoomWrites ==
    ASSUME TypeOK, NEW q \in Reqs, DeleteRoom(q)
    PROVE  /\ UNCHANGED <<users, history>>
           /\ \/ UNCHANGED <<rooms, members, memberLimit>>
              \/ \E r \in Rooms : DropRoom(r)
<1>1. req[q].room \in Rooms
  BY WriterKnows DEF DeleteRoom
<1> QED
  BY <1>1 DEF DeleteRoom

\* The delete of a user.
LEMMA DeleteUserWrites ==
    ASSUME TypeOK, NEW q \in Reqs, NEW u \in Users, AdminDeleteUser(q, u)
    PROVE  /\ users' = users \ {u}
           /\ UNCHANGED <<rooms, memberLimit, issued, peakLimit>>
           /\ \A p \in Rooms, v \in Users :
                 members'[p][v] = IF v = u THEN NoRow ELSE members[p][v]
           /\ \A p \in Rooms : p \in bereaved' <=> p \in bereaved \/ IsOwner(p, u)
BY DEF TypeOK, AdminDeleteUser

LEMMA CreateGroupRoomWrites ==
    ASSUME TypeOK, NEW q \in Reqs, NEW r \in Rooms, NEW u \in Users,
           NEW l \in Limits \cup {None}, CreateGroupRoom(q, u, r, l)
    PROVE  /\ u \in users /\ r \notin issued
           /\ rooms' = rooms \cup {r}
           /\ members'[r][u] = ActiveOwner
           /\ \A p \in Rooms, v \in Users :
                 p # r \/ v # u => members'[p][v] = members[p][v]
           /\ memberLimit'[r] = l /\ peakLimit'[r] = l
           /\ \A p \in Rooms \ {r} : /\ memberLimit'[p] = memberLimit[p]
                                     /\ peakLimit'[p] = peakLimit[p]
           /\ UNCHANGED <<users, bereaved, req>>
BY DEF TypeOK, CreateGroupRoom

-----------------------------------------------------------------------------
(* The keys and cascades of RoomMember.                                    *)

LEMMA DanglingStep ==
    ASSUME TypeOK, NoDanglingMember, Next
    PROVE  NoDanglingMember'
<1> USE DEF NoDanglingMember, Exists
<1>1. PICK q \in Reqs : Kinds(q)
  BY StepKinds
<1>2. CASE Reads
  BY <1>2 DEF Reads, tables
<1>3. ASSUME NEW r \in Rooms, NEW u \in Users, NEW l \in Limits \cup {None},
             CreateGroupRoom(q, u, r, l)
      PROVE  NoDanglingMember'
  BY <1>3, CreateGroupRoomWrites
<1>4. ASSUME NEW l \in Limits \cup {None}, UpdateRoom(q, l)
      PROVE  NoDanglingMember'
  BY <1>4 DEF UpdateRoom
<1>5. ASSUME NEW r \in Rooms, DropRoom(r), UNCHANGED users
      PROVE  NoDanglingMember'
  BY <1>5, DropWrites DEF NoRow
<1>6. CASE DeleteRoom(q)
  BY <1>5, <1>6, DeleteRoomWrites
<1>7. ASSUME NEW r \in Rooms, AdminDeleteRoom(q, r)
      PROVE  NoDanglingMember'
  BY <1>5, <1>7 DEF AdminDeleteRoom
<1>8. CASE InviteRejoin(q)
  BY <1>8, RejoinWrites DEF StateWritten
<1>9. CASE InviteCreate(q)
  BY <1>9, CreateWrites
<1>10. CASE RemoveMember(q)
  BY <1>10, RemoveWrites DEF StateWritten
<1>11. CASE TransferOwner(q)
  BY <1>11, TransferWrites
<1>12. ASSUME NEW u \in Users, AdminDeleteUser(q, u)
       PROVE  NoDanglingMember'
  BY <1>12, DeleteUserWrites DEF NoRow
<1> QED
  BY <1>1, <1>2, <1>3, <1>4, <1>6, <1>7, <1>8, <1>9, <1>10, <1>11, <1>12 DEF Kinds

LEMMA DanglingInit == Init => NoDanglingMember
BY DEF Init, NoDanglingMember, Exists, NoRow

\* Members belong to rooms and users that exist, however requests interleave.
THEOREM NoMemberDangles == Spec => []NoDanglingMember
<1>1. NoDanglingMember /\ UNCHANGED vars => NoDanglingMember'
  BY DEF NoDanglingMember, Exists, vars
<1> QED
  BY TypeCorrect, DanglingInit, DanglingStep, <1>1, PTL DEF Spec

-----------------------------------------------------------------------------
(* A room keeps an OWNER row.                                              *)

LEMMA OwnerKeptStep ==
    ASSUME TypeOK, OwnerKept, Next
    PROVE  OwnerKept'
<1> USE DEF OwnerKept, Exists, IsOwner
<1>0. rooms \subseteq Rooms
  BY DEF TypeOK
<1>1. PICK q \in Reqs : Kinds(q)
  BY StepKinds
<1>2. CASE Reads
  BY <1>2 DEF Reads, tables, history
<1>3. ASSUME NEW r \in Rooms, NEW u \in Users, NEW l \in Limits \cup {None},
             CreateGroupRoom(q, u, r, l)
      PROVE  OwnerKept'
  <2>1. ASSUME NEW p \in rooms' \ bereaved', p # r
        PROVE  \E v \in Users : Exists(p, v)' /\ IsOwner(p, v)'
    <3>1. PICK v \in Users : Exists(p, v) /\ IsOwner(p, v)
      BY <1>3, <2>1, CreateGroupRoomWrites
    <3> QED
      BY <1>0, <1>3, <2>1, <3>1, CreateGroupRoomWrites
  <2>2. Exists(r, u)' /\ IsOwner(r, u)'
    BY <1>3, CreateGroupRoomWrites DEF ActiveOwner
  <2> QED
    BY <2>1, <2>2
<1>4. ASSUME NEW l \in Limits \cup {None}, UpdateRoom(q, l)
      PROVE  OwnerKept'
  BY <1>4 DEF UpdateRoom
<1>5. ASSUME NEW r \in Rooms, DropRoom(r), UNCHANGED bereaved
      PROVE  OwnerKept'
  BY <1>0, <1>5, DropWrites
<1>6. CASE DeleteRoom(q)
  BY <1>5, <1>6, DeleteRoomWrites DEF history
<1>7. ASSUME NEW r \in Rooms, AdminDeleteRoom(q, r)
      PROVE  OwnerKept'
  BY <1>5, <1>7 DEF AdminDeleteRoom, history
<1>8. ASSUME NEW r \in Rooms, NEW t \in Users, NEW s \in {"active", "left"},
             StateWritten(r, t, s), UNCHANGED <<rooms, bereaved>>
      PROVE  OwnerKept'
  BY <1>0, <1>8 DEF StateWritten
<1>9. CASE InviteRejoin(q)
  BY <1>8, <1>9, RejoinWrites
<1>10. CASE RemoveMember(q)
  BY <1>8, <1>10, RemoveWrites
<1>11. CASE InviteCreate(q)
  BY <1>0, <1>11, CreateWrites
<1>12. CASE TransferOwner(q)
  <2>1. ASSUME NEW p \in rooms \ bereaved
        PROVE  \E v \in Users : Exists(p, v)' /\ IsOwner(p, v)'
    <3>1. PICK v \in Users : Exists(p, v) /\ IsOwner(p, v)
      OBVIOUS
    <3>2. req[q].target \in Users
      BY <1>12, WriterKnows DEF TransferOwner
    <3> QED
      BY <1>0, <1>12, <3>1, <3>2, TransferWrites
  <2> QED
    BY <1>12, <2>1, TransferWrites
<1>13. ASSUME NEW u \in Users, AdminDeleteUser(q, u)
       PROVE  OwnerKept'
  BY <1>0, <1>13, DeleteUserWrites
<1> QED
  BY <1>1, <1>2, <1>3, <1>4, <1>6, <1>7, <1>9, <1>10, <1>11, <1>12, <1>13 DEF Kinds

\* No interleaving of invites, removals and transfers takes the last OWNER row.
THEOREM RoomKeepsOwner == Spec => []OwnerKept
<1>1. Init => OwnerKept
  BY DEF Init, OwnerKept
<1>2. OwnerKept /\ UNCHANGED vars => OwnerKept'
  BY DEF OwnerKept, Exists, IsOwner, vars
<1> QED
  BY TypeCorrect, OwnerKeptStep, <1>1, <1>2, PTL DEF Spec

-----------------------------------------------------------------------------
(* How far invites can exceed the limit.                                   *)

PastCheckAwaits == {"findExisting", "rejoin", "create"}

\* A slot that throws or ends leaves the invites past the check of the limit;
\* one that was not among them and waits elsewhere does not join them.
LEMMA DoneLeaves ==
    ASSUME TypeOK, NEW q \in Reqs, Done(q), NEW p \in Rooms
    PROVE  PastCheck(p)' = PastCheck(p) \ {q}
<1>1. Idle.at \notin PastCheckAwaits
  BY DEF Idle, Request, PastCheckAwaits
<1>2. req'[q] = Idle /\ \A s \in Reqs \ {q} : req'[s] = req[s]
  BY DEF Done, TypeOK
<1> QED
  BY <1>1, <1>2 DEF PastCheck, PastCheckAwaits

LEMMA StartJoinsNot ==
    ASSUME TypeOK, NEW q \in Reqs, NEW at, NEW by, NEW r, NEW t, NEW own,
           at \notin PastCheckAwaits, Start(q, at, by, r, t, own), NEW p \in Rooms
    PROVE  PastCheck(p)' \subseteq PastCheck(p)
<1>1. req'[q].at = at
  BY DEF Start, TypeOK, Request
<1>2. \A s \in Reqs \ {q} : req'[s] = req[s]
  BY DEF Start, TypeOK
<1> QED
  BY <1>1, <1>2 DEF PastCheck, PastCheckAwaits

LEMMA AwaitMoves ==
    ASSUME TypeOK, NEW q \in Reqs, NEW at, Await(q, at), req[q].at \in MemberAwaits,
           NEW p \in Rooms
    PROVE  /\ at \notin PastCheckAwaits \/ req[q].at \in PastCheckAwaits
                 => PastCheck(p)' \subseteq PastCheck(p)
           /\ PastCheck(p)' \subseteq PastCheck(p) \cup {q}
           /\ req[q].room # p => PastCheck(p)' \subseteq PastCheck(p)
<1>1. req[q] \in [at : MemberAwaits, by : Users, room : Rooms, target : Users,
                  byOwner : BOOLEAN]
  BY SlotKinds DEF TypeOK
<1>2. req'[q] = [req[q] EXCEPT !.at = at]
  BY DEF Await, TypeOK
<1>3. req'[q].at = at /\ req'[q].room = req[q].room
  BY <1>1, <1>2
<1>4. \A s \in Reqs \ {q} : req'[s] = req[s]
  BY DEF Await, TypeOK
<1> QED
  BY <1>3, <1>4 DEF PastCheck, PastCheckAwaits

\* Only the check of the limit lets an invite join those past it.
LEMMA PastCheckStep ==
    ASSUME TypeOK, Next, NEW p \in Rooms
    PROVE  \/ PastCheck(p)' \subseteq PastCheck(p)
           \/ Reads /\ HasSeat(p) /\ PastCheck(p)' \subseteq Reqs
<1>0. PICK q \in Reqs : Arrive(q) \/ Proceed(q) \/ Admin(q)
  BY DEF Next
<1>1. ASSUME NEW r \in Rooms, NEW u \in Users, NEW l \in Limits \cup {None},
             CreateGroupRoom(q, u, r, l)
      PROVE  PastCheck(p)' \subseteq PastCheck(p)
  BY <1>1 DEF CreateGroupRoom, PastCheck
<1>2. ASSUME NEW r \in Rooms, NEW by \in Users, NEW t \in Users,
             \/ UpdateFindMember(q, by, r)
             \/ DeleteFindMember(q, by, r)
             \/ InviteAssertOwner(q, by, r, t)
             \/ RemoveFindRequester(q, by, r, t)
             \/ TransferAssertOwner(q, by, r, t)
      PROVE  PastCheck(p)' \subseteq PastCheck(p)
  <2>1. PICK at \in {"updateRoom", "deleteRoom", "findUser", "findMember", "findHeir"} :
           \E x \in Users \cup {None}, own \in BOOLEAN : Start(q, at, by, r, x, own)
    BY <1>2 DEF UpdateFindMember, DeleteFindMember, InviteAssertOwner, RemoveFindRequester,
       TransferAssertOwner, IsOwner
  <2>2. at \notin PastCheckAwaits
    BY DEF PastCheckAwaits
  <2> QED
    BY <2>1, <2>2, StartJoinsNot
<1>3. CASE Arrive(q)
  BY <1>1, <1>2, <1>3 DEF Arrive
<1>4. CASE Done(q)
  BY <1>4, DoneLeaves
<1>5. CASE InviteCheckLimit(q) /\ ~Done(q)
  <2>1. Await(q, "findExisting") /\ HasSeat(req[q].room) /\ Reads
    BY <1>5 DEF InviteCheckLimit, AwaitIf, Reads
  <2>2. req[q].at \in MemberAwaits
    BY <1>5 DEF InviteCheckLimit, MemberAwaits
  <2>3. CASE req[q].room = p
    BY <2>1, <2>3 DEF PastCheck, Await, TypeOK
  <2>4. CASE req[q].room # p
    BY <2>1, <2>2, <2>4, AwaitMoves
  <2> QED
    BY <2>3, <2>4
<1>6. CASE InviteFindExisting(q) /\ ~Done(q)
  <2>1. Await(q, "rejoin") \/ Await(q, "create")
    BY <1>6 DEF InviteFindExisting
  <2>2. req[q].at \in MemberAwaits /\ req[q].at \in PastCheckAwaits
    BY <1>6 DEF InviteFindExisting, MemberAwaits, PastCheckAwaits
  <2> QED
    BY <2>1, <2>2, AwaitMoves
<1>7. CASE InviteFindUser(q) \/ RemoveFindTarget(q) \/ TransferFindTarget(q)
  <2>1. req[q].at \in MemberAwaits
    BY <1>7 DEF InviteFindUser, RemoveFindTarget, TransferFindTarget, MemberAwaits
  <2>2. PICK at \in {"checkLimit", "remove", "transfer"} : Done(q) \/ Await(q, at)
    BY <1>7 DEF InviteFindUser, RemoveFindTarget, TransferFindTarget, AwaitIf
  <2>3. at \notin PastCheckAwaits
    BY DEF PastCheckAwaits
  <2> QED
    BY <1>4, <2>1, <2>2, <2>3, AwaitMoves
<1>8. CASE Proceed(q)
  BY <1>4, <1>5, <1>6, <1>7, <1>8 DEF Proceed, UpdateRoom, DeleteRoom, InviteRejoin,
     InviteCreate, RemoveMember, TransferOwner
<1>9. CASE Admin(q)
  BY <1>9 DEF Admin, AdminDeleteUser, AdminDeleteRoom, PastCheck
<1> QED
  BY <1>0, <1>3, <1>8, <1>9

\* The highest limit bounds the limit in force, as long as there always was one.
PeakCovers ==
    \A r \in rooms : peakLimit[r] # None =>
        memberLimit[r] # None /\ memberLimit[r] <= peakLimit[r]

LEMMA LimitsAreNumbers == \A l \in Limits \cup {None} : l # None => l \in Nat /\ l >= 2
BY MembershipAssumption

LEMMA PeakCoversStep ==
    ASSUME TypeOK, PeakCovers, Next
    PROVE  PeakCovers'
<1> USE DEF PeakCovers
<1>0. rooms \subseteq Rooms
  BY DEF TypeOK
<1>1. PICK q \in Reqs : Kinds(q)
  BY StepKinds
<1>2. CASE UNCHANGED <<rooms, memberLimit, peakLimit>>
  BY <1>2
<1>3. ASSUME NEW r \in Rooms, NEW u \in Users, NEW l \in Limits \cup {None},
             CreateGroupRoom(q, u, r, l)
      PROVE  PeakCovers'
  <2>1. l # None => l <= l
    BY LimitsAreNumbers
  <2> QED
    BY <1>0, <1>3, <2>1, CreateGroupRoomWrites
<1>4. ASSUME NEW l \in Limits \cup {None}, UpdateRoom(q, l)
      PROVE  PeakCovers'
  <2> DEFINE r == req[q].room
  <2>1. r \in Rooms
    BY <1>4, WriterKnows DEF UpdateRoom
  <2>2. rooms' = rooms /\ \A p \in rooms \ {r} : /\ memberLimit'[p] = memberLimit[p]
                                                 /\ peakLimit'[p] = peakLimit[p]
    BY <1>4, <2>1 DEF UpdateRoom, TypeOK
  <2>3. r \in rooms => memberLimit'[r] = l /\ peakLimit'[r] = Raise(peakLimit[r], l)
    BY <1>4, <2>1 DEF UpdateRoom, TypeOK
  <2>4. ASSUME NEW k \in Limits \cup {None}, Raise(k, l) # None
        PROVE  l # None /\ l <= Raise(k, l)
    BY <1>4, <2>4, LimitsAreNumbers DEF Raise
  <2>5. peakLimit[r] \in Limits \cup {None}
    BY <2>1 DEF TypeOK
  <2> HIDE DEF r
  <2> QED
    BY <2>2, <2>3, <2>4, <2>5
<1>5. ASSUME NEW r \in Rooms, DropRoom(r), UNCHANGED peakLimit
      PROVE  PeakCovers'
  BY <1>0, <1>5, DropWrites
<1>6. CASE DeleteRoom(q)
  BY <1>2, <1>5, <1>6, DeleteRoomWrites DEF history
<1>7. ASSUME NEW r \in Rooms, AdminDeleteRoom(q, r)
      PROVE  PeakCovers'
  BY <1>5, <1>7 DEF AdminDeleteRoom, history
<1>8. CASE Reads
  BY <1>2, <1>8 DEF Reads, tables, history
<1>9. CASE InviteRejoin(q)
  BY <1>2, <1>9, RejoinWrites
<1>10. CASE InviteCreate(q)
  BY <1>2, <1>10, CreateWrites
<1>11. CASE RemoveMember(q)
  BY <1>2, <1>11, RemoveWrites
<1>12. CASE TransferOwner(q)
  BY <1>2, <1>12, TransferWrites
<1>13. ASSUME NEW u \in Users, AdminDeleteUser(q, u)
       PROVE  PeakCovers'
  BY <1>2, <1>13, DeleteUserWrites
<1> QED
  BY <1>1, <1>3, <1>4, <1>6, <1>7, <1>8, <1>9, <1>10, <1>11, <1>12, <1>13 DEF Kinds

-----------------------------------------------------------------------------
Bounded(r) ==
    Cardinality(Active(r)) + Cardinality(PastCheck(r)) + 1 <= peakLimit[r] + Cardinality(Reqs)

LEMMA Counts ==
    \A r \in Rooms : /\ IsFiniteSet(Active(r)) /\ Cardinality(Active(r)) \in Nat
                     /\ IsFiniteSet(PastCheck(r)) /\ Cardinality(PastCheck(r)) \in Nat
                     /\ Cardinality(PastCheck(r)) <= Cardinality(Reqs)
                     /\ Cardinality(Reqs) \in Nat
<1> TAKE r \in Rooms
<1>1. Active(r) \subseteq Users /\ PastCheck(r) \subseteq Reqs
  BY DEF Active, PastCheck
<1>2. IsFiniteSet(Users) /\ IsFiniteSet(Reqs)
  BY MembershipAssumption
<1>3. /\ IsFiniteSet(Active(r)) /\ IsFiniteSet(PastCheck(r))
      /\ Cardinality(PastCheck(r)) <= Cardinality(Reqs)
  BY <1>1, <1>2, FS_Subset
<1> QED
  BY <1>2, <1>3, FS_CardinalityType

\* Neither more members nor more invites past the check.
LEMMA ShrinkingKeepsBound ==
    ASSUME NEW r \in Rooms, Bounded(r), peakLimit[r] \in Nat, peakLimit'[r] \in Nat,
           peakLimit'[r] >= peakLimit[r],
           Active(r)' \subseteq Active(r), PastCheck(r)' \subseteq PastCheck(r)
    PROVE  Bounded(r)'
<1>1. /\ Cardinality(Active(r)') <= Cardinality(Active(r))
      /\ Cardinality(PastCheck(r)') <= Cardinality(PastCheck(r))
      /\ Cardinality(Active(r)') \in Nat /\ Cardinality(PastCheck(r)') \in Nat
  BY Counts, FS_Subset, FS_CardinalityType
<1> QED
  BY <1>1, Counts DEF Bounded

\* One member more, one invite less.
LEMMA LandingKeepsBound ==
    ASSUME NEW r \in Rooms, Bounded(r), UNCHANGED peakLimit, peakLimit[r] \in Nat,
           NEW t, Active(r)' \subseteq Active(r) \cup {t},
           NEW q \in PastCheck(r), PastCheck(r)' = PastCheck(r) \ {q}
    PROVE  Bounded(r)'
<1>0. IsFiniteSet(Active(r)) /\ Cardinality(Active(r)) \in Nat
  BY Counts
<1>1. /\ IsFiniteSet(Active(r) \cup {t})
      /\ Cardinality(Active(r) \cup {t}) <= Cardinality(Active(r)) + 1
      /\ Cardinality(Active(r) \cup {t}) \in Nat
  <2>1. /\ IsFiniteSet(Active(r) \cup {t})
        /\ \/ Cardinality(Active(r) \cup {t}) = Cardinality(Active(r))
           \/ Cardinality(Active(r) \cup {t}) = Cardinality(Active(r)) + 1
    BY <1>0, FS_AddElement
  <2> QED
    BY <1>0, <2>1
<1>2. /\ Cardinality(Active(r)') <= Cardinality(Active(r) \cup {t})
      /\ Cardinality(Active(r)') \in Nat
  BY <1>1, FS_Subset, FS_CardinalityType
<1>3. /\ Cardinality(PastCheck(r)') = Cardinality(PastCheck(r)) - 1
      /\ Cardinality(PastCheck(r)') \in Nat
  BY Counts, FS_RemoveElement, FS_CardinalityType
<1> QED
  BY <1>1, <1>2, <1>3, Counts DEF Bounded

\* A seat was free, and all the requests together are no more than Reqs.
LEMMA CheckingKeepsBound ==
    ASSUME NEW r \in Rooms, UNCHANGED <<members, peakLimit>>, peakLimit[r] \in Nat,
           memberLimit[r] \in Nat, memberLimit[r] <= peakLimit[r],
           Cardinality(Active(r)) < memberLimit[r], PastCheck(r)' \subseteq Reqs
    PROVE  Bounded(r)'
<1>1. Active(r)' = Active(r)
  BY DEF Active, Present
<1>2. IsFiniteSet(Reqs)
  BY MembershipAssumption
<1>3. /\ Cardinality(PastCheck(r)') <= Cardinality(Reqs)
      /\ Cardinality(PastCheck(r)') \in Nat
  BY <1>2, FS_Subset, FS_CardinalityType
<1> QED
  BY <1>1, <1>3, Counts DEF Bounded

LEMMA PeakIsNumber ==
    ASSUME TypeOK, NEW r \in Rooms, peakLimit[r] # None
    PROVE  peakLimit[r] \in Nat /\ peakLimit[r] >= 2
BY LimitsAreNumbers DEF TypeOK

\* An invite that writes was past the check, and is no longer.
LEMMA LandingLeaves ==
    ASSUME TypeOK, NEW q \in Reqs, InviteRejoin(q) \/ InviteCreate(q)
    PROVE  /\ q \in PastCheck(req[q].room)
           /\ \A p \in Rooms : PastCheck(p)' = PastCheck(p) \ {q}
BY DoneLeaves DEF InviteRejoin, InviteCreate, PastCheck

LEMMA OvershootStep ==
    ASSUME TypeOK, NoDanglingMember, PeakCovers, OvershootBounded, Next, TypeOK'
    PROVE  OvershootBounded'
<1>0. rooms \subseteq Rooms /\ rooms' \subseteq Rooms /\ rooms \subseteq issued
  BY DEF TypeOK
<1>1. PICK q \in Reqs : Kinds(q)
  BY StepKinds
<1> SUFFICES ASSUME NEW r \in rooms', peakLimit'[r] # None
             PROVE  Bounded(r)'
  BY DEF OvershootBounded, Bounded
<1>r. r \in Rooms
  BY <1>0
<1>n. peakLimit'[r] \in Nat /\ peakLimit'[r] >= 2
  BY <1>r, LimitsAreNumbers DEF TypeOK
<1>2. ASSUME r \in rooms, peakLimit[r] # None, peakLimit'[r] >= peakLimit[r],
             PastCheck(r)' \subseteq PastCheck(r),
             \A u \in Users : Present(r, u)' => Present(r, u)
      PROVE  Bounded(r)'
  <2>1. Bounded(r)
    BY <1>2 DEF OvershootBounded, Bounded
  <2>2. Active(r)' \subseteq Active(r)
    BY <1>2 DEF Active
  <2>3. peakLimit[r] \in Nat
    BY <1>r, <1>2, PeakIsNumber
  <2> QED
    BY <1>r, <1>n, <1>2, <2>1, <2>2, <2>3, ShrinkingKeepsBound
<1>3. CASE Reads
  <2>1. r \in rooms /\ peakLimit[r] # None /\ peakLimit' = peakLimit /\ members' = members
    BY <1>3 DEF Reads, tables, history
  <2>2. CASE PastCheck(r)' \subseteq PastCheck(r)
    BY <1>2, <1>n, <2>1, <2>2 DEF Present
  <2>3. CASE HasSeat(r) /\ PastCheck(r)' \subseteq Reqs
    <3>1. memberLimit[r] # None /\ memberLimit[r] <= peakLimit[r]
      BY <2>1 DEF PeakCovers
    <3>2. memberLimit[r] \in Nat
      BY <1>r, <3>1, LimitsAreNumbers DEF TypeOK
    <3>3. Cardinality(Active(r)) < memberLimit[r]
      BY <2>3, <3>1 DEF HasSeat
    <3> QED
      BY <1>r, <1>n, <2>1, <2>3, <3>1, <3>2, <3>3, CheckingKeepsBound
  <2> QED
    BY <1>r, <2>2, <2>3, PastCheckStep
<1>4. ASSUME PastCheck(r)' \subseteq PastCheck(r), r \in rooms, peakLimit'[r] = peakLimit[r],
             \A u \in Users : Present(r, u)' => Present(r, u)
      PROVE  Bounded(r)'
  BY <1>2, <1>4, <1>n
<1>5. ASSUME ~HasSeat(r) \/ ~Reads
      PROVE  PastCheck(r)' \subseteq PastCheck(r)
  BY <1>r, <1>5, PastCheckStep
<1>6. ASSUME NEW p \in Rooms, NEW u \in Users, NEW l \in Limits \cup {None},
             CreateGroupRoom(q, u, p, l)
      PROVE  Bounded(r)'
  <2>1. CASE r = p
    <3>1. \A v \in Users : ~Exists(r, v)
      BY <1>0, <1>6, <1>r, <2>1, CreateGroupRoomWrites DEF NoDanglingMember
    <3>2. Active(r)' \subseteq {u}
      BY <1>6, <1>r, <2>1, <3>1, CreateGroupRoomWrites DEF Active, Present, Exists
    <3>3. Cardinality(Active(r)') <= 1 /\ Cardinality(Active(r)') \in Nat
      <4>1. IsFiniteSet({u}) /\ Cardinality({u}) = 1
        BY FS_Singleton
      <4>2. IsFiniteSet(Active(r)') /\ Cardinality(Active(r)') <= Cardinality({u})
        BY <3>2, <4>1, FS_Subset
      <4> QED
        BY <4>1, <4>2, FS_CardinalityType
    <3>4. PastCheck(r)' = PastCheck(r)
      BY <1>6 DEF CreateGroupRoom, PastCheck
    <3> QED
      BY <1>r, <1>n, <3>3, <3>4, Counts DEF Bounded
  <2>2. CASE r # p
    <3>1. r \in rooms /\ peakLimit'[r] = peakLimit[r]
      BY <1>6, <1>r, <2>2, CreateGroupRoomWrites
    <3>2. PastCheck(r)' = PastCheck(r)
      BY <1>6 DEF CreateGroupRoom, PastCheck
    <3>3. \A v \in Users : Present(r, v)' => Present(r, v)
      BY <1>6, <1>r, <2>2, CreateGroupRoomWrites DEF Present
    <3> QED
      BY <1>4, <3>1, <3>2, <3>3
  <2> QED
    BY <2>1, <2>2
<1>7. ASSUME NEW l \in Limits \cup {None}, UpdateRoom(q, l)
      PROVE  Bounded(r)'
  <2>1. r \in rooms /\ \A u \in Users : Present(r, u)' => Present(r, u)
    BY <1>7 DEF UpdateRoom, Present
  <2>2. PastCheck(r)' \subseteq PastCheck(r)
    BY <1>7, <1>r, DoneLeaves DEF UpdateRoom
  <2>3. peakLimit[r] # None /\ peakLimit'[r] >= peakLimit[r]
    <3>1. peakLimit'[r] = peakLimit[r] \/ peakLimit'[r] = Raise(peakLimit[r], l)
      BY <1>7, <1>r DEF UpdateRoom, TypeOK
    <3>2. peakLimit[r] # None
      BY <3>1 DEF Raise
    <3>3. peakLimit[r] \in Nat
      BY <1>r, <3>2, PeakIsNumber
    <3>4. l # None => l \in Nat
      BY LimitsAreNumbers
    <3> QED
      BY <3>1, <3>2, <3>3, <3>4 DEF Raise
  <2> QED
    BY <1>2, <2>1, <2>2, <2>3
<1>8. ASSUME NEW p \in Rooms, DropRoom(p), UNCHANGED peakLimit,
             PastCheck(r)' \subseteq PastCheck(r)
      PROVE  Bounded(r)'
  <2>1. r # p /\ r \in rooms
    BY <1>8, DropWrites
  <2>2. \A u \in Users : Present(r, u)' => Present(r, u)
    BY <1>8, <1>r, <2>1, DropWrites DEF Present
  <2> QED
    BY <1>4, <1>8, <2>1, <2>2
<1>9. CASE DeleteRoom(q)
  <2>1. PastCheck(r)' \subseteq PastCheck(r)
    BY <1>9, <1>r, DoneLeaves DEF DeleteRoom
  <2>2. CASE UNCHANGED <<rooms, members, memberLimit>>
    BY <1>4, <1>9, <2>1, <2>2, DeleteRoomWrites DEF history, Present
  <2> QED
    BY <1>8, <1>9, <2>1, <2>2, DeleteRoomWrites DEF history
<1>10. ASSUME NEW p \in Rooms, AdminDeleteRoom(q, p)
       PROVE  Bounded(r)'
  <2>1. PastCheck(r)' = PastCheck(r)
    BY <1>10 DEF AdminDeleteRoom, PastCheck
  <2> QED
    BY <1>8, <1>10, <2>1 DEF AdminDeleteRoom, history
<1>11. ASSUME InviteRejoin(q) \/ InviteCreate(q), r \in rooms, UNCHANGED peakLimit,
              \A u \in Users \ {req[q].target} : Present(r, u)' => Present(r, u),
              r # req[q].room => \A u \in Users : Present(r, u)' => Present(r, u)
       PROVE  Bounded(r)'
  <2>1. q \in PastCheck(req[q].room) /\ PastCheck(r)' = PastCheck(r) \ {q}
    BY <1>11, <1>r, LandingLeaves
  <2>2. CASE r # req[q].room
    BY <1>4, <1>11, <2>1, <2>2
  <2>3. CASE r = req[q].room
    <3>1. Bounded(r)
      BY <1>11 DEF OvershootBounded, Bounded
    <3>2. Active(r)' \subseteq Active(r) \cup {req[q].target}
      BY <1>11 DEF Active
    <3> QED
      BY <1>r, <1>n, <1>11, <2>1, <2>3, <3>1, <3>2, LandingKeepsBound
  <2> QED
    BY <2>2, <2>3
<1>12. CASE InviteRejoin(q)
  <2>1. r \in rooms /\ UNCHANGED peakLimit
    BY <1>12, RejoinWrites
  <2>2. \A u \in Users : r # req[q].room \/ u # req[q].target => Present(r, u)' = Present(r, u)
    BY <1>12, <1>r, RejoinWrites DEF StateWritten, Present
  <2> QED
    BY <1>11, <1>12, <2>1, <2>2
<1>13. CASE InviteCreate(q)
  <2>1. r \in rooms /\ UNCHANGED peakLimit
    BY <1>13, CreateWrites
  <2>2. \A u \in Users : r # req[q].room \/ u # req[q].target => Present(r, u)' = Present(r, u)
    BY <1>13, <1>r, CreateWrites DEF Present
  <2> QED
    BY <1>11, <1>13, <2>1, <2>2
<1>14. CASE RemoveMember(q)
  <2>1. r \in rooms /\ UNCHANGED peakLimit
    BY <1>14, RemoveWrites
  <2>2. \A u \in Users : Present(r, u)' => Present(r, u)
    BY <1>14, <1>r, RemoveWrites DEF StateWritten, Present
  <2>3. PastCheck(r)' \subseteq PastCheck(r)
    BY <1>14, <1>r, DoneLeaves DEF RemoveMember
  <2> QED
    BY <1>4, <2>1, <2>2, <2>3
<1>15. CASE TransferOwner(q)
  <2>1. r \in rooms /\ UNCHANGED peakLimit
    BY <1>15, TransferWrites
  <2>2. \A u \in Users : Present(r, u)' => Present(r, u)
    BY <1>15, <1>r, TransferWrites DEF Present
  <2>3. PastCheck(r)' \subseteq PastCheck(r)
    BY <1>15, <1>r, DoneLeaves DEF TransferOwner
  <2> QED
    BY <1>4, <2>1, <2>2, <2>3
<1>16. ASSUME NEW u \in Users, AdminDeleteUser(q, u)
       PROVE  Bounded(r)'
  <2>1. r \in rooms /\ UNCHANGED peakLimit
    BY <1>16, DeleteUserWrites
  <2>2. \A v \in Users : Present(r, v)' => Present(r, v)
    BY <1>16, <1>r, DeleteUserWrites DEF Present, NoRow
  <2>3. PastCheck(r)' = PastCheck(r)
    BY <1>16 DEF AdminDeleteUser, PastCheck
  <2> QED
    BY <1>4, <2>1, <2>2, <2>3
<1> QED
  BY <1>1, <1>3, <1>6, <1>7, <1>9, <1>10, <1>12, <1>13, <1>14, <1>15, <1>16 DEF Kinds

\* Requests handled at the same time exceed the highest limit a room has had by
\* less than their number; handled one at a time, they never exceed it.
THEOREM LimitOvershoot == Spec => []OvershootBounded
<1>1. Init => NoDanglingMember /\ PeakCovers /\ OvershootBounded
  BY DanglingInit DEF Init, PeakCovers, OvershootBounded
<1>2. ASSUME NoDanglingMember, PeakCovers, OvershootBounded, UNCHANGED vars
      PROVE  PeakCovers' /\ OvershootBounded'
  BY <1>2 DEF PeakCovers, OvershootBounded, Active, Present, PastCheck, vars
<1>3. TypeOK /\ TypeOK' /\ NoDanglingMember /\ PeakCovers /\ OvershootBounded /\ [Next]_vars
         => PeakCovers' /\ OvershootBounded'
  BY <1>2, PeakCoversStep, OvershootStep
<1> QED
  BY TypeCorrect, NoMemberDangles, <1>1, <1>3, PTL DEF Spec

-----------------------------------------------------------------------------
(* A room without a present OWNER never gets one again.                    *)

Harmless == {"updateRoom", "deleteRoom", "findMember", "remove"}

\* What is in flight about an ownerless room neither invites nor transfers, and
\* no step brings such a request to it.
LEMMA OwnerlessSlots ==
    ASSUME TypeOK, NEW r \in Rooms, Ownerless(r), Next
    PROVE  \A s \in Reqs : req'[s].room = r => req'[s].at \in Harmless
<1> USE DEF Harmless
<1>0. \A s \in Reqs : req[s].room = r => req[s].at \in Harmless
  BY DEF Ownerless
<1>1. PICK q \in Reqs : Arrive(q) \/ Proceed(q) \/ Admin(q)
  BY DEF Next
<1>2. CASE UNCHANGED req
  BY <1>0, <1>2
<1>3. CASE Done(q)
  <2>1. Idle.room = None /\ None # r
    BY MembershipAssumption DEF Idle, Request
  <2>2. req'[q] = Idle /\ \A s \in Reqs \ {q} : req'[s] = req[s]
    BY <1>3 DEF Done, TypeOK
  <2> QED
    BY <1>0, <2>1, <2>2
<1>4. ASSUME NEW at, NEW by, NEW p, NEW t, NEW own, Start(q, at, by, p, t, own),
             p = r => at \in Harmless
      PROVE  \A s \in Reqs : req'[s].room = r => req'[s].at \in Harmless
  <2>1. /\ req'[q].at = at /\ req'[q].room = p
        /\ \A s \in Reqs \ {q} : req'[s] = req[s]
    BY <1>4 DEF Start, TypeOK, Request
  <2> QED
    BY <1>0, <1>4, <2>1
<1>5. ASSUME NEW at, Await(q, at), req[q].at \in MemberAwaits,
             req[q].at \in Harmless => at \in Harmless
      PROVE  \A s \in Reqs : req'[s].room = r => req'[s].at \in Harmless
  <2>1. req[q] \in [at : MemberAwaits, by : Users, room : Rooms, target : Users,
                    byOwner : BOOLEAN]
    BY <1>5, SlotKinds DEF TypeOK
  <2>2. req'[q] = [req[q] EXCEPT !.at = at]
    BY <1>5 DEF Await, TypeOK
  <2>3. req'[q].at = at /\ req'[q].room = req[q].room
    BY <2>1, <2>2
  <2>4. \A s \in Reqs \ {q} : req'[s] = req[s]
    BY <1>5 DEF Await, TypeOK
  <2> QED
    BY <1>0, <1>5, <2>3, <2>4
<1>6. CASE Arrive(q)
  <2>1. ASSUME NEW p \in Rooms, NEW by \in Users, NEW l \in Limits \cup {None},
               CreateGroupRoom(q, by, p, l)
        PROVE  UNCHANGED req
    BY <2>1 DEF CreateGroupRoom
  <2>2. ASSUME NEW p \in Rooms, NEW by \in Users, NEW t \in Users,
               \/ UpdateFindMember(q, by, p)
               \/ DeleteFindMember(q, by, p)
               \/ RemoveFindRequester(q, by, p, t)
        PROVE  \A s \in Reqs : req'[s].room = r => req'[s].at \in Harmless
    BY <1>4, <2>2 DEF UpdateFindMember, DeleteFindMember, RemoveFindRequester
  <2>3. ASSUME NEW p \in Rooms, NEW by \in Users, NEW t \in Users,
               InviteAssertOwner(q, by, p, t) \/ TransferAssertOwner(q, by, p, t)
        PROVE  \A s \in Reqs : req'[s].room = r => req'[s].at \in Harmless
    <3>1. p # r
      BY <2>3 DEF InviteAssertOwner, TransferAssertOwner, AssertOwner, Ownerless
    <3> QED
      BY <1>4, <2>3, <3>1 DEF InviteAssertOwner, TransferAssertOwner
  <2> QED
    BY <1>2, <1>6, <2>1, <2>2, <2>3 DEF Arrive
<1>7. CASE Proceed(q)
  <2>1. CASE InviteFindUser(q) \/ InviteCheckLimit(q) \/ TransferFindTarget(q)
             \/ InviteFindExisting(q) \/ RemoveFindTarget(q)
    <3>1. req[q].at \in MemberAwaits
      BY <2>1 DEF InviteFindUser, InviteCheckLimit, TransferFindTarget, InviteFindExisting,
         RemoveFindTarget, MemberAwaits
    <3>2. \/ Done(q)
          \/ /\ req[q].at \notin Harmless
             /\ \E at : Await(q, at)
          \/ Await(q, "remove")
      BY <2>1 DEF InviteFindUser, InviteCheckLimit, TransferFindTarget, InviteFindExisting,
         RemoveFindTarget, AwaitIf
    <3> QED
      BY <1>3, <1>5, <3>1, <3>2
  <2> QED
    BY <1>3, <1>7, <2>1 DEF Proceed, UpdateRoom, DeleteRoom, InviteRejoin, InviteCreate,
       RemoveMember, TransferOwner
<1>8. CASE Admin(q)
  BY <1>2, <1>8 DEF Admin, AdminDeleteUser, AdminDeleteRoom
<1> QED
  BY <1>1, <1>6, <1>7, <1>8

LEMMA OwnerlessStep ==
    ASSUME TypeOK, NEW r \in Rooms, Ownerless(r), Next, r \in rooms'
    PROVE  Ownerless(r)'
<1> USE DEF Present, IsOwner
<1>1. PICK q \in Reqs : Kinds(q)
  BY StepKinds
<1>2. \A s \in Reqs : req'[s].room = r => req'[s].at \in Harmless
  BY OwnerlessSlots
<1>3. r \in rooms /\ \A u \in Users : ~(Present(r, u) /\ IsOwner(r, u))
  BY DEF Ownerless
<1>4. req[q].room = r => req[q].at \in Harmless
  BY DEF Ownerless, Harmless
<1> SUFFICES \A u \in Users : ~(Present(r, u)' /\ IsOwner(r, u)')
  BY <1>2 DEF Ownerless, Harmless
<1>5. CASE members'[r] = members[r]
  BY <1>3, <1>5
<1>6. ASSUME NEW p \in Rooms, NEW u \in Users, NEW l \in Limits \cup {None},
             CreateGroupRoom(q, u, p, l)
      PROVE  members'[r] = members[r]
  BY <1>3, <1>6 DEF CreateGroupRoom, TypeOK
<1>7. ASSUME NEW l \in Limits \cup {None}, UpdateRoom(q, l)
      PROVE  members'[r] = members[r]
  BY <1>7 DEF UpdateRoom
<1>8. ASSUME NEW p \in Rooms, DropRoom(p)
      PROVE  \A u \in Users : ~(Present(r, u)' /\ IsOwner(r, u)')
  BY <1>3, <1>8, DropWrites DEF NoRow
<1>9. CASE DeleteRoom(q)
  BY <1>5, <1>8, <1>9, DeleteRoomWrites
<1>10. ASSUME NEW p \in Rooms, AdminDeleteRoom(q, p)
       PROVE  \A u \in Users : ~(Present(r, u)' /\ IsOwner(r, u)')
  BY <1>8, <1>10 DEF AdminDeleteRoom
<1>11. CASE InviteRejoin(q)
  <2>1. req[q].room # r
    BY <1>4, <1>11 DEF InviteRejoin, Harmless
  <2> QED
    BY <1>3, <1>11, <2>1, RejoinWrites DEF StateWritten
<1>12. CASE InviteCreate(q)
  <2>1. req[q].room # r
    BY <1>4, <1>12 DEF InviteCreate, Harmless
  <2> QED
    BY <1>3, <1>12, <2>1, CreateWrites
<1>13. CASE RemoveMember(q)
  BY <1>3, <1>13, RemoveWrites DEF StateWritten
<1>14. CASE TransferOwner(q)
  <2>1. req[q].room # r
    BY <1>4, <1>14 DEF TransferOwner, Harmless
  <2> QED
    BY <1>3, <1>14, <2>1, TransferWrites
<1>15. ASSUME NEW u \in Users, AdminDeleteUser(q, u)
       PROVE  \A v \in Users : ~(Present(r, v)' /\ IsOwner(r, v)')
  BY <1>3, <1>15, DeleteUserWrites DEF NoRow
<1> QED
  BY <1>1, <1>5, <1>6, <1>7, <1>9, <1>10, <1>11, <1>12, <1>13, <1>14, <1>15
     DEF Kinds, Reads, tables

\* A room that lost its present OWNER has none for the rest of its life.
THEOREM NoOwnerReturns == Spec => OwnerlessForGood
<1>1. TypeOK /\ [Next]_vars =>
        [\A r \in Rooms : Ownerless(r) => Ownerless(r)' \/ r \notin rooms']_vars
  BY OwnerlessStep
<1> QED
  BY TypeCorrect, <1>1, PTL DEF Spec, OwnerlessForGood

-----------------------------------------------------------------------------
(* Requests one at a time.  The rows of one room first.                    *)

\* At most one OWNER row, and its OWNER has not left.
Orderly(rows) ==
    /\ \A u \in Users : rows[u].role = "OWNER" => rows[u].state = "active"
    /\ \A u, v \in Users : rows[u].role = "OWNER" /\ rows[v].role = "OWNER" => u = v

PresentAmong(rows) == {u \in Users : rows[u].state = "active"}

Rows == [Users -> Row]

LeftMember == [state |-> "left", role |-> "MEMBER"]

LEMMA RowValues ==
    /\ {NoRow, ActiveOwner, ActiveMember, LeftMember} \subseteq Row
    /\ NoRow.state = "none" /\ NoRow.role = "MEMBER"
    /\ ActiveOwner.state = "active" /\ ActiveOwner.role = "OWNER"
    /\ ActiveMember.state = "active" /\ ActiveMember.role = "MEMBER"
    /\ LeftMember.state = "left" /\ LeftMember.role = "MEMBER"
    /\ \A row \in Row :
          /\ row = ActiveOwner <=> row.state = "active" /\ row.role = "OWNER"
          /\ row = ActiveMember <=> row.state = "active" /\ row.role # "OWNER"
          /\ row = LeftMember <=> row.state = "left" /\ row.role # "OWNER"
BY DEF Row, NoRow, ActiveOwner, ActiveMember, LeftMember

\* In an orderly room the one who acts as OWNER is the one with the OWNER row.
LEMMA OwnerIs ==
    ASSUME NEW rows \in Rows, Orderly(rows)
    PROVE  /\ \A u \in Users : OwnerAmong(rows) = u <=> rows[u].role = "OWNER"
           /\ OwnerAmong(rows) \in Users \cup {None}
<1>1. None \notin Users
  BY MembershipAssumption
<1>2. \A u \in Users : rows[u] = ActiveOwner <=> rows[u].role = "OWNER"
  BY RowValues DEF Orderly, Rows
<1>3. CASE \E u \in Users : rows[u] = ActiveOwner
  <2>1. PICK u \in Users : rows[u] = ActiveOwner
    BY <1>3
  <2>2. \A v \in Users : rows[v] = ActiveOwner <=> v = u
    BY <1>2, <2>1 DEF Orderly
  <2>3. OwnerAmong(rows) = CHOOSE v \in Users : rows[v] = ActiveOwner
    BY <1>3 DEF OwnerAmong
  <2>4. (CHOOSE v \in Users : rows[v] = ActiveOwner) \in Users
    BY <1>3
  <2>5. rows[CHOOSE v \in Users : rows[v] = ActiveOwner] = ActiveOwner
    BY <1>3
  <2>6. OwnerAmong(rows) = u
    BY <2>2, <2>3, <2>4, <2>5
  <2> QED
    BY <1>2, <2>2, <2>6
<1>4. CASE ~ \E u \in Users : rows[u] = ActiveOwner
  <2>1. OwnerAmong(rows) = None
    BY <1>4 DEF OwnerAmong
  <2> QED
    BY <1>1, <1>2, <1>4, <2>1
<1> QED
  BY <1>3, <1>4

\* Orderly rooms with the same OWNER rows have the same OWNER.
LEMMA SameOwner ==
    ASSUME NEW a \in Rows, Orderly(a), NEW b \in Rows, Orderly(b),
           \A u \in Users : a[u].role = "OWNER" <=> b[u].role = "OWNER"
    PROVE  OwnerAmong(a) = OwnerAmong(b)
<1>1. CASE OwnerAmong(a) \in Users
  BY <1>1, OwnerIs
<1>2. CASE OwnerAmong(b) \in Users
  BY <1>2, OwnerIs
<1>3. CASE OwnerAmong(a) = None /\ OwnerAmong(b) = None
  BY <1>3
<1> QED
  BY <1>1, <1>2, <1>3, OwnerIs

\* A room with its first member.
LEMMA Founded ==
    ASSUME NEW rows \in Rows, \A v \in Users : rows[v].state = "none",
           \A v \in Users : rows[v].role # "OWNER",
           NEW u \in Users, NEW new \in Rows, new = [rows EXCEPT ![u] = ActiveOwner]
    PROVE  Orderly(new) /\ PresentAmong(new) = {u} /\ OwnerAmong(new) = u
<1>1. /\ new[u] = ActiveOwner
      /\ \A v \in Users \ {u} : new[v] = rows[v]
  BY DEF Rows
<1>2. Orderly(new)
  BY <1>1, RowValues DEF Orderly
<1>3. PresentAmong(new) = {u}
  BY <1>1, RowValues DEF PresentAmong
<1>4. OwnerAmong(new) = u
  BY <1>1, <1>2, RowValues, OwnerIs
<1> QED
  BY <1>2, <1>3, <1>4

\* An invited member: a newcomer or one who had left.
LEMMA Joined ==
    ASSUME NEW rows \in Rows, Orderly(rows), NEW t \in Users, rows[t].state # "active",
           NEW new \in Rows, new = [rows EXCEPT ![t] = ActiveMember]
    PROVE  /\ Orderly(new)
           /\ PresentAmong(new) = PresentAmong(rows) \cup {t}
           /\ OwnerAmong(new) = OwnerAmong(rows)
<1>1. /\ new[t] = ActiveMember
      /\ \A v \in Users \ {t} : new[v] = rows[v]
  BY DEF Rows
<1>2. rows[t].role # "OWNER"
  BY DEF Orderly
<1>3. Orderly(new)
  BY <1>1, RowValues DEF Orderly
<1>4. PresentAmong(new) = PresentAmong(rows) \cup {t}
  BY <1>1, RowValues DEF PresentAmong
<1>5. \A v \in Users : rows[v].role = "OWNER" <=> new[v].role = "OWNER"
  BY <1>1, <1>2, RowValues
<1> QED
  BY <1>3, <1>4, <1>5, SameOwner

\* A member who is not the OWNER leaves.
LEMMA Departed ==
    ASSUME NEW rows \in Rows, Orderly(rows), NEW t \in Users, rows[t].role # "OWNER",
           NEW new \in Rows, new = [rows EXCEPT ![t] = LeftMember]
    PROVE  /\ Orderly(new)
           /\ PresentAmong(new) = PresentAmong(rows) \ {t}
           /\ OwnerAmong(new) = OwnerAmong(rows)
<1>1. /\ new[t] = LeftMember
      /\ \A v \in Users \ {t} : new[v] = rows[v]
  BY DEF Rows
<1>2. Orderly(new)
  BY <1>1, RowValues DEF Orderly
<1>3. PresentAmong(new) = PresentAmong(rows) \ {t}
  BY <1>1, RowValues DEF PresentAmong
<1>4. \A v \in Users : rows[v].role = "OWNER" <=> new[v].role = "OWNER"
  BY <1>1, RowValues
<1> QED
  BY <1>2, <1>3, <1>4, SameOwner

\* The OWNER b hands over to t.
LEMMA HandedOver ==
    ASSUME NEW rows \in Rows, Orderly(rows), NEW b \in Users, NEW t \in Users, b # t,
           rows[b].role = "OWNER", rows[t].state = "active",
           NEW new \in Rows, new = HandOver(rows, b, t)
    PROVE  /\ Orderly(new)
           /\ PresentAmong(new) = PresentAmong(rows)
           /\ OwnerAmong(new) = t
<1>1. rows[b].state = "active" /\ \A v \in Users \ {b} : rows[v].role # "OWNER"
  BY DEF Orderly
<1>2. WithRole(rows[t], "OWNER") = ActiveOwner
  BY RowValues DEF WithRole, Rows, Row, ActiveOwner
<1>3. WithRole(rows[b], "MEMBER") = ActiveMember
  BY <1>1, RowValues DEF WithRole, Rows, Row, ActiveMember
<1>4. /\ new[t] = ActiveOwner
      /\ new[b] = ActiveMember
      /\ \A v \in Users \ {b, t} : new[v] = rows[v]
  BY <1>2, <1>3 DEF HandOver
<1>5. Orderly(new)
  BY <1>1, <1>4, RowValues DEF Orderly
<1>6. PresentAmong(new) = PresentAmong(rows)
  BY <1>1, <1>4, RowValues DEF PresentAmong
<1>7. OwnerAmong(new) = t
  BY <1>4, <1>5, RowValues, OwnerIs
<1> QED
  BY <1>5, <1>6, <1>7

\* The rows of a user whose account is deleted.
LEMMA Bereft ==
    ASSUME NEW rows \in Rows, Orderly(rows), NEW u \in Users,
           NEW new \in Rows, new = [rows EXCEPT ![u] = NoRow]
    PROVE  /\ Orderly(new)
           /\ PresentAmong(new) = PresentAmong(rows) \ {u}
           /\ OwnerAmong(new) = IF OwnerAmong(rows) = u THEN None ELSE OwnerAmong(rows)
<1>1. /\ new[u] = NoRow
      /\ \A v \in Users \ {u} : new[v] = rows[v]
  BY DEF Rows
<1>2. Orderly(new)
  BY <1>1, RowValues DEF Orderly
<1>3. PresentAmong(new) = PresentAmong(rows) \ {u}
  BY <1>1, RowValues DEF PresentAmong
<1>4. CASE rows[u].role = "OWNER"
  <2>1. OwnerAmong(rows) = u
    BY <1>4, OwnerIs
  <2>2. \A v \in Users : new[v].role # "OWNER"
    BY <1>1, <1>4, RowValues DEF Orderly
  <2>3. OwnerAmong(new) = None
    BY <1>2, <2>2, OwnerIs
  <2> QED
    BY <1>2, <1>3, <2>1, <2>3
<1>5. CASE rows[u].role # "OWNER"
  <2>1. OwnerAmong(rows) # u
    BY <1>5, OwnerIs
  <2>2. \A v \in Users : rows[v].role = "OWNER" <=> new[v].role = "OWNER"
    BY <1>1, <1>5, RowValues
  <2>3. OwnerAmong(new) = OwnerAmong(rows)
    BY <1>2, <2>2, SameOwner
  <2> QED
    BY <1>2, <1>3, <2>1, <2>3
<1> QED
  BY <1>4, <1>5

\* The rows of a room that is deleted.
LEMMA Emptied ==
    ASSUME NEW new \in Rows, new = [u \in Users |-> NoRow]
    PROVE  Orderly(new) /\ PresentAmong(new) = {} /\ OwnerAmong(new) = None
<1>1. \A u \in Users : new[u].role # "OWNER" /\ new[u].state = "none"
  BY RowValues
<1>2. Orderly(new)
  BY <1>1 DEF Orderly
<1>3. OwnerAmong(new) = None
  BY <1>1, <1>2, OwnerIs
<1> QED
  BY <1>1, <1>2, <1>3 DEF PresentAmong

-----------------------------------------------------------------------------
(* What the one handler in flight has read is still so.                    *)

Fresh(w) ==
    /\ w.at \in RoomAwaits => IsOwner(w.room, w.by)
    /\ w.at \in {"findUser", "checkLimit", "findExisting", "rejoin", "create",
                 "findHeir", "transfer"} => AssertOwner(w.by, w.room)
    /\ w.at \in {"checkLimit", "findExisting", "rejoin", "create"} => w.target \in users
    /\ w.at \in {"findExisting", "rejoin", "create"} => HasSeat(w.room)
    /\ w.at = "rejoin" => members[w.room][w.target].state = "left"
    /\ w.at = "create" => members[w.room][w.target].state = "none"
    /\ w.at = "findMember" => /\ Present(w.room, w.by)
                              /\ w.byOwner = IsOwner(w.room, w.by)
    /\ w.at = "remove" => /\ Present(w.room, w.target)
                          /\ ~IsOwner(w.room, w.target)
    /\ w.at \in {"findHeir", "transfer"} => w.by # w.target
    /\ w.at = "transfer" => Present(w.room, w.target)

OrderlyRooms == \A r \in Rooms : Orderly(members[r])

AllFresh == \A q \in Reqs : Fresh(req[q])

\* The inductive invariant of requests handled one at a time.
SerialInv == TypeOK /\ NoDanglingMember /\ OrderlyRooms /\ AllFresh

LEMMA FreshIdle == Fresh(Idle)
BY DEF Fresh, Idle, Request, RoomAwaits

\* No table is written: what was read stays true.
LEMMA StaysFresh ==
    ASSUME NEW w, Reads, Fresh(w)
    PROVE  Fresh(w)'
BY DEF Reads, tables, Fresh, Present, IsOwner, AssertOwner, HasSeat, Active

\* The first await of a handler.
LEMMA StartFields ==
    ASSUME TypeOK, NEW q \in Reqs, NEW at, NEW by, NEW r, NEW t, NEW own,
           Start(q, at, by, r, t, own)
    PROVE  /\ req'[q].at = at /\ req'[q].by = by /\ req'[q].room = r
           /\ req'[q].target = t /\ req'[q].byOwner = own
BY DEF TypeOK, Start, Request

LEMMA ArriveFresh ==
    ASSUME TypeOK, NEW q \in Reqs, NEW r \in Rooms, NEW by \in Users, NEW t \in Users,
           \/ UpdateFindMember(q, by, r)
           \/ DeleteFindMember(q, by, r)
           \/ InviteAssertOwner(q, by, r, t)
           \/ RemoveFindRequester(q, by, r, t)
           \/ TransferAssertOwner(q, by, r, t)
    PROVE  Fresh(req'[q])
<1> PICK w : w = req'[q]
  OBVIOUS
<1>1. CASE UpdateFindMember(q, by, r)
  <2>1. w.at = "updateRoom" /\ w.by = by /\ w.room = r
    BY <1>1, StartFields DEF UpdateFindMember
  <2> QED
    BY <1>1, <2>1 DEF UpdateFindMember, Fresh
<1>2. CASE DeleteFindMember(q, by, r)
  <2>1. w.at = "deleteRoom" /\ w.by = by /\ w.room = r
    BY <1>2, StartFields DEF DeleteFindMember
  <2> QED
    BY <1>2, <2>1 DEF DeleteFindMember, Fresh
<1>3. CASE InviteAssertOwner(q, by, r, t)
  <2>1. w.at = "findUser" /\ w.by = by /\ w.room = r
    BY <1>3, StartFields DEF InviteAssertOwner
  <2> QED
    BY <1>3, <2>1 DEF InviteAssertOwner, Fresh, RoomAwaits
<1>4. CASE RemoveFindRequester(q, by, r, t)
  <2>1. w.at = "findMember" /\ w.by = by /\ w.room = r /\ w.byOwner = IsOwner(r, by)
    BY <1>4, StartFields DEF RemoveFindRequester
  <2> QED
    BY <1>4, <2>1 DEF RemoveFindRequester, Fresh, RoomAwaits
<1>5. CASE TransferAssertOwner(q, by, r, t)
  <2>1. w.at = "findHeir" /\ w.by = by /\ w.room = r /\ w.target = t
    BY <1>5, StartFields DEF TransferAssertOwner
  <2> QED
    BY <1>5, <2>1 DEF TransferAssertOwner, Fresh, RoomAwaits
<1> QED
  BY <1>1, <1>2, <1>3, <1>4, <1>5

\* The next await of a handler.
LEMMA AwaitFields ==
    ASSUME TypeOK, NEW q \in Reqs, req[q].at \in MemberAwaits, NEW at, Await(q, at)
    PROVE  /\ req'[q].at = at /\ req'[q].by = req[q].by /\ req'[q].room = req[q].room
           /\ req'[q].target = req[q].target /\ req'[q].byOwner = req[q].byOwner
<1>1. req[q] \in [at : MemberAwaits, by : Users, room : Rooms, target : Users,
                  byOwner : BOOLEAN]
  BY SlotKinds DEF TypeOK
<1>2. req'[q] = [req[q] EXCEPT !.at = at]
  BY DEF TypeOK, Await
<1> QED
  BY <1>1, <1>2

LEMMA DoneIdle ==
    ASSUME TypeOK, NEW q \in Reqs, Done(q)
    PROVE  req'[q] = Idle
BY DEF TypeOK, Done

LEMMA ProceedFresh ==
    ASSUME SerialInv, NEW q \in Reqs,
           \/ InviteFindUser(q)
           \/ InviteCheckLimit(q)
           \/ InviteFindExisting(q)
           \/ RemoveFindTarget(q)
           \/ TransferFindTarget(q)
    PROVE  Fresh(req'[q])
<1> PICK v : v = req[q]
  OBVIOUS
<1> PICK w : w = req'[q]
  OBVIOUS
<1>d. Done(q) => Fresh(w)
  BY DoneIdle, FreshIdle DEF SerialInv
<1>a. ASSUME NEW at, Await(q, at), v.at \in MemberAwaits
      PROVE  /\ w.at = at /\ w.by = v.by /\ w.room = v.room
             /\ w.target = v.target /\ w.byOwner = v.byOwner
  BY <1>a, AwaitFields DEF SerialInv
<1>f. Fresh(v)
  BY DEF SerialInv, AllFresh
<1>1. CASE InviteFindUser(q) /\ ~Done(q)
  <2>1. v.at = "findUser" /\ v.target \in users /\ Await(q, "checkLimit")
    BY <1>1 DEF InviteFindUser, AwaitIf
  <2> QED
    BY <1>a, <1>f, <2>1 DEF Fresh, MemberAwaits, RoomAwaits
<1>2. CASE InviteCheckLimit(q) /\ ~Done(q)
  <2>1. v.at = "checkLimit" /\ HasSeat(v.room) /\ Await(q, "findExisting")
    BY <1>2 DEF InviteCheckLimit, AwaitIf
  <2> QED
    BY <1>a, <1>f, <2>1 DEF Fresh, MemberAwaits, RoomAwaits
<1>3. CASE InviteFindExisting(q) /\ ~Done(q)
  <2>1. v.at = "findExisting"
    BY <1>3 DEF InviteFindExisting
  <2>2. \/ members[v.room][v.target].state = "left" /\ Await(q, "rejoin")
        \/ members[v.room][v.target].state = "none" /\ Await(q, "create")
    BY <1>3 DEF InviteFindExisting
  <2> QED
    BY <1>a, <1>f, <2>1, <2>2 DEF Fresh, MemberAwaits, RoomAwaits
<1>4. CASE RemoveFindTarget(q) /\ ~Done(q)
  <2>1. /\ v.at = "findMember" /\ Present(v.room, v.target) /\ Await(q, "remove")
        /\ MayRemove(v.byOwner, v.by = v.target)
    BY <1>4 DEF RemoveFindTarget, AwaitIf
  <2>2. v.room \in Rooms /\ v.by \in Users /\ v.target \in Users
    BY <2>1, SlotKinds DEF SerialInv, TypeOK, MemberAwaits
  <2>3. v.byOwner = IsOwner(v.room, v.by)
    BY <1>f, <2>1 DEF Fresh
  <2>4. Orderly(members[v.room])
    BY <2>2 DEF SerialInv, OrderlyRooms
  <2>5. ~IsOwner(v.room, v.target)
    <3>1. CASE v.by = v.target
      BY <2>1, <2>3, <3>1 DEF MayRemove
    <3>2. CASE v.by # v.target
      <4>1. IsOwner(v.room, v.by)
        BY <2>1, <2>3, <3>2 DEF MayRemove
      <4> QED
        BY <2>2, <2>4, <3>2, <4>1 DEF Orderly, IsOwner
    <3> QED
      BY <3>1, <3>2
  <2> QED
    BY <1>a, <2>1, <2>5 DEF Fresh, MemberAwaits, RoomAwaits
<1>5. CASE TransferFindTarget(q) /\ ~Done(q)
  <2>1. v.at = "findHeir" /\ Present(v.room, v.target) /\ Await(q, "transfer")
    BY <1>5 DEF TransferFindTarget, AwaitIf
  <2> QED
    BY <1>a, <1>f, <2>1 DEF Fresh, MemberAwaits, RoomAwaits
<1> QED
  BY <1>d, <1>1, <1>2, <1>3, <1>4, <1>5

-----------------------------------------------------------------------------
(* What the writes do to the tables when requests come one at a time.      *)

RowsOf(r, rows) == members' = [members EXCEPT ![r] = rows]

SetsLimit(r, l) ==
    /\ r \in rooms /\ OwnerAmong(members[r]) # None
    /\ memberLimit' = [memberLimit EXCEPT ![r] = l]
    /\ UNCHANGED <<users, rooms, members, issued>>

Joins(r, t) ==
    /\ OwnerAmong(members[r]) # None
    /\ t \in users /\ ~Present(r, t) /\ HasSeat(r)
    /\ RowsOf(r, [members[r] EXCEPT ![t] = ActiveMember])
    /\ UNCHANGED <<users, rooms, memberLimit, issued>>

Departs(r, t) ==
    /\ Present(r, t) /\ ~IsOwner(r, t)
    /\ RowsOf(r, [members[r] EXCEPT ![t] = LeftMember])
    /\ UNCHANGED <<users, rooms, memberLimit, issued>>

HandsOver(r, b, t) ==
    /\ b # t /\ IsOwner(r, b) /\ Present(r, t)
    /\ RowsOf(r, HandOver(members[r], b, t))
    /\ UNCHANGED <<users, rooms, memberLimit, issued>>

Deletes(r) ==
    /\ r \in rooms
    /\ DropRoom(r)
    /\ UNCHANGED <<users, issued>>

SerialKinds(q) ==
    \/ Reads
    \/ \E r \in Rooms, u \in Users, l \in Limits \cup {None} : CreateGroupRoom(q, u, r, l)
    \/ \E r \in Rooms, l \in Limits \cup {None} : SetsLimit(r, l)
    \/ \E r \in Rooms, t \in Users : Joins(r, t) \/ Departs(r, t)
    \/ \E r \in Rooms, b, t \in Users : HandsOver(r, b, t)
    \/ \E r \in Rooms : Deletes(r)
    \/ \E u \in Users : AdminDeleteUser(q, u)

LEMMA OrderlyRowsOf ==
    ASSUME SerialInv, NEW r \in Rooms
    PROVE  members[r] \in Rows /\ Orderly(members[r])
BY DEF SerialInv, TypeOK, Rows, OrderlyRooms

\* An OWNER row is one of a room that exists, and makes its user the OWNER.
LEMMA OwnerThere ==
    ASSUME SerialInv, NEW r \in Rooms, NEW u \in Users, IsOwner(r, u)
    PROVE  r \in rooms /\ OwnerAmong(members[r]) # None /\ Present(r, u)
<1>1. members[r] \in Rows /\ Orderly(members[r])
  BY OrderlyRowsOf
<1>2. Present(r, u)
  BY <1>1 DEF Orderly, IsOwner, Present
<1>3. OwnerAmong(members[r]) = u
  BY <1>1, OwnerIs DEF IsOwner
<1>4. u # None
  BY MembershipAssumption
<1>5. r \in rooms
  BY <1>2 DEF SerialInv, NoDanglingMember, Exists, Present
<1> QED
  BY <1>2, <1>3, <1>4, <1>5

LEMMA SlotNames ==
    ASSUME SerialInv, NEW q \in Reqs
    PROVE  /\ req[q].at \in RoomAwaits => req[q].room \in Rooms /\ req[q].by \in Users
           /\ req[q].at \in MemberAwaits =>
                 req[q].room \in Rooms /\ req[q].by \in Users /\ req[q].target \in Users
<1>1. req[q] \in Requests
  BY DEF SerialInv, TypeOK
<1>2. req[q].at \in RoomAwaits => req[q].room \in Rooms /\ req[q].by \in Users
  BY <1>1, SlotKinds
<1>3. req[q].at \in MemberAwaits =>
         req[q].room \in Rooms /\ req[q].by \in Users /\ req[q].target \in Users
  BY <1>1, SlotKinds
<1> QED
  BY <1>2, <1>3

LEMMA LimitEffect ==
    ASSUME SerialInv, NEW q \in Reqs, NEW l \in Limits \cup {None}, UpdateRoom(q, l)
    PROVE  \E r \in Rooms : SetsLimit(r, l)
<1> PICK w : w = req[q]
  OBVIOUS
<1>1. w.at \in RoomAwaits
  BY DEF UpdateRoom, RoomAwaits
<1>2. w.room \in Rooms /\ w.by \in Users
  BY <1>1, SlotNames
<1>3. IsOwner(w.room, w.by)
  BY <1>1 DEF SerialInv, AllFresh, Fresh
<1>4. w.room \in rooms /\ OwnerAmong(members[w.room]) # None
  BY <1>2, <1>3, OwnerThere
<1> QED
  BY <1>2, <1>4 DEF UpdateRoom, SetsLimit

LEMMA DeleteEffect ==
    ASSUME SerialInv, NEW q \in Reqs, DeleteRoom(q)
    PROVE  \E r \in Rooms : Deletes(r)
<1> PICK w : w = req[q]
  OBVIOUS
<1>1. w.at \in RoomAwaits
  BY DEF DeleteRoom, RoomAwaits
<1>2. w.room \in Rooms /\ w.by \in Users
  BY <1>1, SlotNames
<1>3. IsOwner(w.room, w.by)
  BY <1>1 DEF SerialInv, AllFresh, Fresh
<1>4. w.room \in rooms
  BY <1>2, <1>3, OwnerThere
<1> QED
  BY <1>2, <1>4 DEF DeleteRoom, Deletes, history

LEMMA JoinEffect ==
    ASSUME SerialInv, NEW q \in Reqs, InviteRejoin(q) \/ InviteCreate(q)
    PROVE  \E r \in Rooms, t \in Users : Joins(r, t)
<1> PICK w : w = req[q]
  OBVIOUS
<1> PICK r, t : r = w.room /\ t = w.target
  OBVIOUS
<1>1. w.at \in {"rejoin", "create"}
  BY DEF InviteRejoin, InviteCreate
<1>2. r \in Rooms /\ t \in Users /\ w.by \in Users
  BY <1>1, SlotNames DEF MemberAwaits
<1>3. Fresh(w)
  BY DEF SerialInv, AllFresh
<1>4. AssertOwner(w.by, r) /\ t \in users /\ HasSeat(r)
  BY <1>1, <1>3 DEF Fresh
<1>5. OwnerAmong(members[r]) # None
  BY <1>2, <1>4, OwnerThere DEF AssertOwner
<1>6. members[r] \in Rows /\ Orderly(members[r])
  BY <1>2, OrderlyRowsOf
<1>7. ~Present(r, t)
  BY <1>1, <1>3 DEF Fresh, Present
<1>8. RowsOf(r, [members[r] EXCEPT ![t] = ActiveMember])
  <2>1. CASE InviteRejoin(q)
    <3>1. members[r][t].state = "left"
      BY <2>1, <1>3 DEF InviteRejoin, Fresh
    <3>2. WithState(members[r][t], "active") = ActiveMember
      BY <1>2, <1>6, <3>1 DEF WithState, Orderly, Rows, Row, ActiveMember
    <3>3. Exists(r, t)
      BY <3>1 DEF Exists
    <3> QED
      BY <2>1, <3>2, <3>3 DEF InviteRejoin, RowsOf
  <2>2. CASE InviteCreate(q)
    <3>1. members[r][t].state = "none"
      BY <2>2, <1>3 DEF InviteCreate, Fresh
    <3>2. CanInsert(r, t)
      BY <1>4, <3>1 DEF CanInsert, HasSeat, Exists
    <3> QED
      BY <2>2, <3>2 DEF InviteCreate, RowsOf
  <2> QED
    BY <2>1, <2>2
<1>9. UNCHANGED <<users, rooms, memberLimit, issued>>
  BY DEF InviteRejoin, InviteCreate, history
<1> QED
  BY <1>2, <1>4, <1>5, <1>7, <1>8, <1>9 DEF Joins

LEMMA DepartEffect ==
    ASSUME SerialInv, NEW q \in Reqs, RemoveMember(q)
    PROVE  \E r \in Rooms, t \in Users : Departs(r, t)
<1> PICK w : w = req[q]
  OBVIOUS
<1> PICK r, t : r = w.room /\ t = w.target
  OBVIOUS
<1>1. w.at = "remove"
  BY DEF RemoveMember
<1>2. r \in Rooms /\ t \in Users
  BY <1>1, SlotNames DEF MemberAwaits
<1>3. Present(r, t) /\ ~IsOwner(r, t)
  BY <1>1 DEF SerialInv, AllFresh, Fresh
<1>4. members[r] \in Rows
  BY <1>2, OrderlyRowsOf
<1>5. Exists(r, t)
  BY <1>3 DEF Exists, Present
<1>6. WithState(members[r][t], "left") = LeftMember
  BY <1>2, <1>3, <1>4, <1>5 DEF WithState, Rows, Row, LeftMember, IsOwner, Exists
<1>7. RowsOf(r, [members[r] EXCEPT ![t] = LeftMember])
  BY <1>5, <1>6 DEF RemoveMember, RowsOf
<1> QED
  BY <1>2, <1>3, <1>7 DEF RemoveMember, Departs, history

LEMMA HandOverEffect ==
    ASSUME SerialInv, NEW q \in Reqs, TransferOwner(q)
    PROVE  \E r \in Rooms, b, t \in Users : HandsOver(r, b, t)
<1> PICK w : w = req[q]
  OBVIOUS
<1> PICK r, b, t : r = w.room /\ b = w.by /\ t = w.target
  OBVIOUS
<1>1. w.at = "transfer"
  BY DEF TransferOwner
<1>2. r \in Rooms /\ b \in Users /\ t \in Users
  BY <1>1, SlotNames DEF MemberAwaits
<1>3. AssertOwner(b, r) /\ b # t /\ Present(r, t)
  BY <1>1 DEF SerialInv, AllFresh, Fresh
<1>4. TransferCommits(r, b, t)
  BY <1>3 DEF TransferCommits, AssertOwner, Present, Exists
<1>5. RowsOf(r, HandOver(members[r], b, t))
  BY <1>4 DEF TransferOwner, RowsOf
<1> QED
  BY <1>2, <1>3, <1>5 DEF TransferOwner, HandsOver, AssertOwner, history

LEMMA SerialStepKinds ==
    ASSUME SerialInv, NEW q \in Reqs, Kinds(q)
    PROVE  SerialKinds(q)
<1>1. ASSUME NEW r \in Rooms, AdminDeleteRoom(q, r)
      PROVE  Deletes(r)
  BY <1>1 DEF AdminDeleteRoom, Deletes, history
<1> QED
  BY <1>1, LimitEffect, DeleteEffect, JoinEffect, DepartEffect, HandOverEffect
     DEF Kinds, SerialKinds

-----------------------------------------------------------------------------
(* The inductive invariant, step by step.                                  *)

LEMMA OneRoomOrderly ==
    ASSUME SerialInv, NEW r \in Rooms, NEW rows \in Rows, Orderly(rows), RowsOf(r, rows)
    PROVE  OrderlyRooms'
<1>1. \A p \in Rooms : members'[p] = IF p = r THEN rows ELSE members[p]
  BY DEF SerialInv, TypeOK, RowsOf
<1>2. \A p \in Rooms : Orderly(members'[p])
  BY <1>1 DEF SerialInv, OrderlyRooms
<1> QED
  BY <1>2 DEF OrderlyRooms

\* A room id that was never given out has no rows.
LEMMA NewRoomEmpty ==
    ASSUME SerialInv, NEW r \in Rooms, r \notin issued
    PROVE  \A u \in Users : members[r][u].state = "none" /\ members[r][u].role # "OWNER"
<1>1. r \notin rooms
  BY DEF SerialInv, TypeOK
<1>2. \A u \in Users : members[r][u].state = "none"
  BY <1>1 DEF SerialInv, NoDanglingMember, Exists
<1> QED
  BY <1>2, OrderlyRowsOf DEF Orderly

LEMMA CreateOrderly ==
    ASSUME SerialInv, NEW q \in Reqs, NEW r \in Rooms, NEW u \in Users,
           NEW l \in Limits \cup {None}, CreateGroupRoom(q, u, r, l)
    PROVE  /\ RowsOf(r, [members[r] EXCEPT ![u] = ActiveOwner])
           /\ [members[r] EXCEPT ![u] = ActiveOwner] \in Rows
           /\ Orderly([members[r] EXCEPT ![u] = ActiveOwner])
           /\ PresentAmong([members[r] EXCEPT ![u] = ActiveOwner]) = {u}
           /\ OwnerAmong([members[r] EXCEPT ![u] = ActiveOwner]) = u
<1>1. RowsOf(r, [members[r] EXCEPT ![u] = ActiveOwner])
  BY DEF CreateGroupRoom, RowsOf
<1>2. members[r] \in Rows
  BY OrderlyRowsOf
<1>3. [members[r] EXCEPT ![u] = ActiveOwner] \in Rows
  BY <1>2, RowValues DEF Rows
<1>4. \A v \in Users : members[r][v].state = "none" /\ members[r][v].role # "OWNER"
  BY NewRoomEmpty DEF CreateGroupRoom
<1> QED
  BY <1>1, <1>2, <1>3, <1>4, Founded

LEMMA OrderlyStep ==
    ASSUME SerialInv, NEW q \in Reqs, SerialKinds(q)
    PROVE  OrderlyRooms'
<1>1. ASSUME UNCHANGED members
      PROVE  OrderlyRooms'
  BY <1>1 DEF SerialInv, OrderlyRooms
<1>2. ASSUME NEW r \in Rooms, NEW u \in Users, NEW l \in Limits \cup {None},
             CreateGroupRoom(q, u, r, l)
      PROVE  OrderlyRooms'
  BY <1>2, CreateOrderly, OneRoomOrderly
<1>3. ASSUME NEW r \in Rooms, NEW t \in Users, Joins(r, t)
      PROVE  OrderlyRooms'
  <2>1. PICK rows : rows = [members[r] EXCEPT ![t] = ActiveMember]
    OBVIOUS
  <2>2. rows \in Rows
    BY <2>1, OrderlyRowsOf, RowValues DEF Rows
  <2>3. members[r][t].state # "active"
    BY <1>3 DEF Joins, Present
  <2>4. Orderly(rows)
    BY <2>1, <2>2, <2>3, OrderlyRowsOf, Joined
  <2> QED
    BY <1>3, <2>1, <2>2, <2>4, OneRoomOrderly DEF Joins
<1>4. ASSUME NEW r \in Rooms, NEW t \in Users, Departs(r, t)
      PROVE  OrderlyRooms'
  <2>1. PICK rows : rows = [members[r] EXCEPT ![t] = LeftMember]
    OBVIOUS
  <2>2. rows \in Rows
    BY <2>1, OrderlyRowsOf, RowValues DEF Rows
  <2>3. members[r][t].role # "OWNER"
    BY <1>4 DEF Departs, IsOwner
  <2>4. Orderly(rows)
    BY <2>1, <2>2, <2>3, OrderlyRowsOf, Departed
  <2> QED
    BY <1>4, <2>1, <2>2, <2>4, OneRoomOrderly DEF Departs
<1>5. ASSUME NEW r \in Rooms, NEW b \in Users, NEW t \in Users, HandsOver(r, b, t)
      PROVE  OrderlyRooms'
  <2>1. PICK rows : rows = HandOver(members[r], b, t)
    OBVIOUS
  <2>2. rows \in Rows
    BY <2>1, OrderlyRowsOf, RowsTyped DEF Rows, HandOver
  <2>3. b # t /\ members[r][b].role = "OWNER" /\ members[r][t].state = "active"
    BY <1>5 DEF HandsOver, Present, IsOwner
  <2>4. Orderly(rows)
    BY <2>1, <2>2, <2>3, OrderlyRowsOf, HandedOver
  <2> QED
    BY <1>5, <2>1, <2>2, <2>4, OneRoomOrderly DEF HandsOver
<1>6. ASSUME NEW r \in Rooms, Deletes(r)
      PROVE  OrderlyRooms'
  <2>1. PICK rows : rows = [u \in Users |-> NoRow]
    OBVIOUS
  <2>2. rows \in Rows
    BY <2>1, RowValues DEF Rows
  <2>3. Orderly(rows)
    BY <2>1, <2>2, Emptied
  <2>4. RowsOf(r, rows)
    BY <1>6, <2>1 DEF Deletes, DropRoom, RowsOf
  <2> QED
    BY <2>2, <2>3, <2>4, OneRoomOrderly
<1>7. ASSUME NEW u \in Users, AdminDeleteUser(q, u)
      PROVE  OrderlyRooms'
  <2>1. ASSUME NEW p \in Rooms
        PROVE  Orderly(members'[p])
    <3>1. PICK rows : rows = [members[p] EXCEPT ![u] = NoRow]
      OBVIOUS
    <3>2. rows \in Rows
      BY <3>1, OrderlyRowsOf, RowValues DEF Rows
    <3>3. members'[p] = rows
      BY <1>7, <3>1 DEF AdminDeleteUser
    <3> QED
      BY <3>1, <3>2, <3>3, OrderlyRowsOf, Bereft
  <2> QED
    BY <2>1 DEF OrderlyRooms
<1>8. ASSUME NEW r \in Rooms, NEW l \in Limits \cup {None}, SetsLimit(r, l)
      PROVE  OrderlyRooms'
  BY <1>1, <1>8 DEF SetsLimit
<1>9. CASE Reads
  BY <1>1, <1>9 DEF Reads, tables
<1> QED
  BY <1>2, <1>3, <1>4, <1>5, <1>6, <1>7, <1>8, <1>9 DEF SerialKinds

\* A write leaves no handler in flight, a read one whose facts are fresh.
LEMMA WriteIdles ==
    ASSUME OneAtATime, TypeOK, NEW q \in Reqs, Kinds(q), ~Reads
    PROVE  \A p \in Reqs : req'[p] = Idle
<1>1. \A p \in Reqs : p = q
  BY DEF OneAtATime
<1>2. Done(q) => req'[q] = Idle
  BY DoneIdle
<1>3. Done(q) \/ (req[q] = Idle /\ UNCHANGED req)
  BY DEF Kinds, CreateGroupRoom, UpdateRoom, DeleteRoom, InviteRejoin, InviteCreate,
     RemoveMember, TransferOwner, AdminDeleteUser, AdminDeleteRoom
<1> QED
  BY <1>1, <1>2, <1>3

LEMMA FreshStep ==
    ASSUME OneAtATime, SerialInv, Next
    PROVE  AllFresh'
<1>1. PICK q \in Reqs : Arrive(q) \/ Proceed(q) \/ Admin(q)
  BY DEF Next
<1>q. \A p \in Reqs : p = q
  BY DEF OneAtATime
<1>2. ASSUME Fresh(req'[q]), Reads
      PROVE  AllFresh'
  <2>1. PICK w : w = req'[q]
    OBVIOUS
  <2>2. Fresh(w)'
    BY <1>2, <2>1, StaysFresh
  <2>3. Fresh(req[q])'
    BY <2>1, <2>2
  <2> QED
    BY <1>q, <2>3 DEF AllFresh
<1>3. ASSUME Kinds(q), ~Reads
      PROVE  AllFresh'
  <2>1. \A p \in Reqs : req'[p] = Idle
    BY <1>3, WriteIdles DEF SerialInv
  <2>2. Fresh(Idle)'
    BY DEF Fresh, Idle, Request, RoomAwaits
  <2>3. ASSUME NEW p \in Reqs PROVE Fresh(req[p])'
    BY <2>1, <2>2
  <2> QED
    BY <2>3 DEF AllFresh
<1>4. ASSUME Kinds(q), Reads, UNCHANGED req
      PROVE  AllFresh'
  <2>1. Fresh(req'[q])
    BY <1>4 DEF SerialInv, AllFresh
  <2> QED
    BY <1>2, <1>4, <2>1
<1>5. ASSUME NEW r \in Rooms, NEW by \in Users, NEW t \in Users,
             \/ UpdateFindMember(q, by, r)
             \/ DeleteFindMember(q, by, r)
             \/ InviteAssertOwner(q, by, r, t)
             \/ RemoveFindRequester(q, by, r, t)
             \/ TransferAssertOwner(q, by, r, t)
      PROVE  AllFresh'
  <2>1. Reads
    BY <1>5 DEF Reads, UpdateFindMember, DeleteFindMember, InviteAssertOwner,
       RemoveFindRequester, TransferAssertOwner
  <2>2. Fresh(req'[q])
    BY <1>5, ArriveFresh DEF SerialInv
  <2> QED
    BY <1>2, <2>1, <2>2
<1>6. ASSUME \/ InviteFindUser(q)
             \/ InviteCheckLimit(q)
             \/ InviteFindExisting(q)
             \/ RemoveFindTarget(q)
             \/ TransferFindTarget(q)
      PROVE  AllFresh'
  <2>1. Reads
    BY <1>6 DEF Reads, InviteFindUser, InviteCheckLimit, InviteFindExisting,
       RemoveFindTarget, TransferFindTarget
  <2>2. Fresh(req'[q])
    BY <1>6, ProceedFresh
  <2> QED
    BY <1>2, <2>1, <2>2
<1>7. ASSUME Kinds(q), Done(q) \/ UNCHANGED req
      PROVE  AllFresh'
  <2>1. CASE Reads /\ Done(q)
    <3>1. req'[q] = Idle
      BY <2>1, DoneIdle DEF SerialInv
    <3> QED
      BY <1>2, <2>1, <3>1, FreshIdle
  <2> QED
    BY <1>3, <1>4, <1>7, <2>1
<1>8. CASE Arrive(q)
  <2>1. ASSUME NEW r \in Rooms, NEW by \in Users, NEW l \in Limits \cup {None},
               CreateGroupRoom(q, by, r, l)
        PROVE  AllFresh'
    BY <1>7, <2>1 DEF Kinds, CreateGroupRoom
  <2> QED
    BY <1>5, <1>8, <2>1 DEF Arrive
<1>9. CASE Admin(q)
  BY <1>7, <1>9 DEF Admin, Kinds, AdminDeleteUser, AdminDeleteRoom
<1>10. CASE Proceed(q)
  <2>1. ASSUME NEW l \in Limits \cup {None}, UpdateRoom(q, l)
        PROVE  AllFresh'
    BY <1>7, <2>1 DEF Kinds, UpdateRoom
  <2>2. CASE DeleteRoom(q) \/ InviteRejoin(q) \/ InviteCreate(q) \/ RemoveMember(q)
             \/ TransferOwner(q)
    BY <1>7, <2>2 DEF Kinds, DeleteRoom, InviteRejoin, InviteCreate, RemoveMember,
       TransferOwner
  <2> QED
    BY <1>6, <1>10, <2>1, <2>2 DEF Proceed
<1> QED
  BY <1>1, <1>8, <1>9, <1>10

LEMMA SerialInit == Init => SerialInv
<1> SUFFICES ASSUME Init PROVE SerialInv
  OBVIOUS
<1>1. OrderlyRooms
  BY RowValues DEF Init, OrderlyRooms, Orderly
<1>2. AllFresh
  BY FreshIdle DEF Init, AllFresh
<1> QED
  BY <1>1, <1>2, InitTyped, DanglingInit DEF SerialInv

LEMMA SerialStep ==
    ASSUME OneAtATime, SerialInv, Next
    PROVE  SerialInv'
<1>1. TypeOK'
  BY NextTyped DEF SerialInv
<1>2. NoDanglingMember'
  BY DanglingStep DEF SerialInv
<1>3. PICK q \in Reqs : Kinds(q)
  BY StepKinds
<1>4. OrderlyRooms'
  BY <1>3, SerialStepKinds, OrderlyStep
<1> QED
  BY <1>1, <1>2, <1>4, FreshStep DEF SerialInv

LEMMA SerialStutter ==
    ASSUME SerialInv, UNCHANGED vars
    PROVE  SerialInv'
<1>1. TypeOK'
  BY NextTyped DEF SerialInv
<1>2. NoDanglingMember' /\ OrderlyRooms'
  BY DEF SerialInv, vars, NoDanglingMember, Exists, OrderlyRooms
<1>3. ASSUME NEW q \in Reqs PROVE Fresh(req[q])'
  <2>1. PICK w : w = req[q] /\ w = req'[q]
    BY DEF vars
  <2>2. Reads /\ Fresh(w)
    BY <2>1 DEF SerialInv, AllFresh, vars, Reads, tables, history
  <2>3. Fresh(w)'
    BY <2>2, StaysFresh
  <2> QED
    BY <2>1, <2>3
<1> QED
  BY <1>1, <1>2, <1>3 DEF SerialInv, AllFresh

\* Requests one at a time: what the handler in flight has read is still so,
\* and every room has at most one OWNER row, of a member who is present.
THEOREM SerialInvHolds ==
    ASSUME OneAtATime
    PROVE  Spec => []SerialInv
<1>1. SerialInv /\ [Next]_vars => SerialInv'
  BY SerialStep, SerialStutter
<1> QED
  BY SerialInit, <1>1, PTL DEF Spec

\* One request at a time, no OWNER is ever put out of a room or leaves it
\* (removeMember refuses both), and none comes back as a departed OWNER.
THEOREM OwnersStay ==
    ASSUME OneAtATime
    PROVE  Spec => []OwnerNeverLeft
<1>1. SerialInv => OwnerNeverLeft
  <2> SUFFICES ASSUME SerialInv PROVE OwnerNeverLeft
    OBVIOUS
  <2>1. rooms \subseteq Rooms
    BY DEF SerialInv, TypeOK
  <2> QED
    BY <2>1, OwnerThere DEF OwnerNeverLeft
<1> QED
  BY SerialInvHolds, <1>1, PTL

\* One request at a time, a room never has two OWNER rows.
THEOREM OneOwner ==
    ASSUME OneAtATime
    PROVE  Spec => []SoleOwner
<1>1. SerialInv => SoleOwner
  <2> SUFFICES ASSUME SerialInv, NEW r \in Rooms
               PROVE  Cardinality({u \in Users : IsOwner(r, u)}) <= 1
    BY DEF SoleOwner
  <2>1. \A u, v \in Users : IsOwner(r, u) /\ IsOwner(r, v) => u = v
    BY OrderlyRowsOf DEF Orderly, IsOwner
  <2>2. CASE {u \in Users : IsOwner(r, u)} = {}
    BY <2>2, FS_EmptySet
  <2>3. CASE \E u \in Users : {v \in Users : IsOwner(r, v)} = {u}
    <3>1. PICK u : {v \in Users : IsOwner(r, v)} = {u}
      BY <2>3
    <3>2. Cardinality({u}) = 1
      BY FS_Singleton
    <3> QED
      BY <3>1, <3>2
  <2> QED
    BY <2>1, <2>2, <2>3
<1> QED
  BY SerialInvHolds, <1>1, PTL

-----------------------------------------------------------------------------
(* Each step is a step of RoomPolicy, or changes nothing RoomPolicy sees.  *)

Acts == [r \in Rooms |-> Active(r)]
Owns == [r \in Rooms |-> OwnerAmong(members[r])]

LEMMA ActsAre ==
    /\ Acts = [r \in Rooms |-> PresentAmong(members[r])]
    /\ Acts' = [r \in Rooms |-> PresentAmong(members'[r])]
    /\ Owns' = [r \in Rooms |-> OwnerAmong(members'[r])]
BY DEF Acts, Owns, Active, Present, PresentAmong

\* A write to the rows of one room, as RoomPolicy sees it.
LEMMA OneRoomSeen ==
    ASSUME SerialInv, NEW r \in Rooms, NEW rows \in Rows, RowsOf(r, rows)
    PROVE  /\ Acts' = [Acts EXCEPT ![r] = PresentAmong(rows)]
           /\ Owns' = [Owns EXCEPT ![r] = OwnerAmong(rows)]
<1>1. \A p \in Rooms : members'[p] = IF p = r THEN rows ELSE members[p]
  BY DEF SerialInv, TypeOK, RowsOf
<1>2. \A p \in Rooms : PresentAmong(members'[p]) =
                          IF p = r THEN PresentAmong(rows) ELSE PresentAmong(members[p])
  BY <1>1
<1>3. \A p \in Rooms : OwnerAmong(members'[p]) =
                          IF p = r THEN OwnerAmong(rows) ELSE OwnerAmong(members[p])
  BY <1>1
<1>4. Acts' = [Acts EXCEPT ![r] = PresentAmong(rows)]
  BY <1>2, ActsAre
<1>5. Owns' = [Owns EXCEPT ![r] = OwnerAmong(rows)]
  BY <1>3, ActsAre DEF Owns
<1> QED
  BY <1>4, <1>5

LEMMA SeenNow ==
    ASSUME NEW r \in Rooms
    PROVE  Acts[r] = PresentAmong(members[r]) /\ Owns[r] = OwnerAmong(members[r])
BY ActsAre DEF Owns

LEMMA CreateImplements ==
    ASSUME SerialInv, NEW q \in Reqs, NEW r \in Rooms, NEW u \in Users,
           NEW l \in Limits \cup {None}, CreateGroupRoom(q, u, r, l)
    PROVE  Policy!Create(r, u, l)
<1>1. PICK rows : rows = [members[r] EXCEPT ![u] = ActiveOwner]
  OBVIOUS
<1>2. /\ rows \in Rows /\ RowsOf(r, rows)
      /\ PresentAmong(rows) = {u} /\ OwnerAmong(rows) = u
  BY <1>1, CreateOrderly
<1>3. Acts' = [Acts EXCEPT ![r] = {u}] /\ Owns' = [Owns EXCEPT ![r] = u]
  BY <1>2, OneRoomSeen
<1> QED
  BY <1>3 DEF Policy!Create, CreateGroupRoom, Acts, Owns

LEMMA SetLimitImplements ==
    ASSUME SerialInv, NEW r \in Rooms, NEW l \in Limits \cup {None}, SetsLimit(r, l)
    PROVE  Policy!SetLimit(r, l)
<1>1. UNCHANGED <<Acts, Owns>>
  BY ActsAre DEF SetsLimit, Owns
<1>2. Owns[r] # None
  BY SeenNow DEF SetsLimit
<1> QED
  BY <1>1, <1>2 DEF Policy!SetLimit, SetsLimit, Acts, Owns

LEMMA JoinImplements ==
    ASSUME SerialInv, NEW r \in Rooms, NEW t \in Users, Joins(r, t)
    PROVE  Policy!Join(r, t)
<1>1. PICK rows : rows = [members[r] EXCEPT ![t] = ActiveMember]
  OBVIOUS
<1>2. rows \in Rows
  BY <1>1, OrderlyRowsOf, RowValues DEF Rows
<1>3. members[r][t].state # "active"
  BY DEF Joins, Present
<1>4. /\ PresentAmong(rows) = PresentAmong(members[r]) \cup {t}
      /\ OwnerAmong(rows) = OwnerAmong(members[r])
  BY <1>1, <1>2, <1>3, OrderlyRowsOf, Joined
<1>5. RowsOf(r, rows)
  BY <1>1 DEF Joins
<1>6. Acts' = [Acts EXCEPT ![r] = Acts[r] \cup {t}]
  BY <1>2, <1>4, <1>5, OneRoomSeen, SeenNow
<1>7. Owns' = Owns
  <2>1. Owns' = [Owns EXCEPT ![r] = Owns[r]]
    BY <1>2, <1>4, <1>5, OneRoomSeen, SeenNow
  <2> QED
    BY <2>1 DEF Owns
<1>8. Owns[r] # None /\ t \in users \ Acts[r]
  BY <1>3, SeenNow DEF Joins, PresentAmong
<1>9. memberLimit[r] # None => Cardinality(Acts[r]) < memberLimit[r]
  BY DEF Joins, HasSeat, Acts
<1>10. UNCHANGED <<users, rooms, memberLimit, issued>>
  BY DEF Joins
<1>11. Policy!Cardinality(Acts[r]) = Cardinality(Acts[r])
  BY DEF Policy!Cardinality, Cardinality
<1>12. memberLimit[r] # None =>
          Policy!Cardinality([p \in Rooms |-> Active(p)][r]) < memberLimit[r]
  BY <1>9, <1>11 DEF Acts
<1> QED
  BY <1>6, <1>7, <1>8, <1>10, <1>12 DEF Policy!Join, Acts, Owns

LEMMA LeaveImplements ==
    ASSUME SerialInv, NEW r \in Rooms, NEW t \in Users, Departs(r, t)
    PROVE  Policy!Leave(r, t)
<1>1. PICK rows : rows = [members[r] EXCEPT ![t] = LeftMember]
  OBVIOUS
<1>2. rows \in Rows
  BY <1>1, OrderlyRowsOf, RowValues DEF Rows
<1>3. members[r][t].role # "OWNER"
  BY DEF Departs, IsOwner
<1>4. /\ PresentAmong(rows) = PresentAmong(members[r]) \ {t}
      /\ OwnerAmong(rows) = OwnerAmong(members[r])
  BY <1>1, <1>2, <1>3, OrderlyRowsOf, Departed
<1>5. RowsOf(r, rows)
  BY <1>1 DEF Departs
<1>6. Acts' = [Acts EXCEPT ![r] = Acts[r] \ {t}]
  BY <1>2, <1>4, <1>5, OneRoomSeen, SeenNow
<1>7. Owns' = Owns
  <2>1. Owns' = [Owns EXCEPT ![r] = Owns[r]]
    BY <1>2, <1>4, <1>5, OneRoomSeen, SeenNow
  <2> QED
    BY <2>1 DEF Owns
<1>8. t \in Acts[r]
  BY SeenNow DEF Departs, Present, PresentAmong
<1>9. t # Owns[r]
  BY <1>3, SeenNow, OrderlyRowsOf, OwnerIs
<1> QED
  BY <1>6, <1>7, <1>8, <1>9 DEF Policy!Leave, Departs, Acts, Owns

LEMMA HandOverImplements ==
    ASSUME SerialInv, NEW r \in Rooms, NEW b \in Users, NEW t \in Users, HandsOver(r, b, t)
    PROVE  Policy!HandOver(r, t)
<1>1. PICK rows : rows = HandOver(members[r], b, t)
  OBVIOUS
<1>2. rows \in Rows
  BY <1>1, OrderlyRowsOf, RowsTyped DEF Rows, HandOver
<1>3. b # t /\ members[r][b].role = "OWNER" /\ members[r][t].state = "active"
  BY DEF HandsOver, Present, IsOwner
<1>4. PresentAmong(rows) = PresentAmong(members[r]) /\ OwnerAmong(rows) = t
  BY <1>1, <1>2, <1>3, OrderlyRowsOf, HandedOver
<1>5. RowsOf(r, rows)
  BY <1>1 DEF HandsOver
<1>6. Acts' = Acts
  <2>1. Acts' = [Acts EXCEPT ![r] = Acts[r]]
    BY <1>2, <1>4, <1>5, OneRoomSeen, SeenNow
  <2> QED
    BY <2>1 DEF Acts
<1>7. Owns' = [Owns EXCEPT ![r] = t]
  BY <1>2, <1>4, <1>5, OneRoomSeen
<1>8. Owns[r] # None
  BY OwnerThere, SeenNow DEF HandsOver
<1>9. t \in Acts[r]
  BY <1>3, SeenNow DEF PresentAmong
<1> QED
  BY <1>6, <1>7, <1>8, <1>9 DEF Policy!HandOver, HandsOver, Acts, Owns

LEMMA DeleteImplements ==
    ASSUME SerialInv, NEW r \in Rooms, Deletes(r)
    PROVE  Policy!Delete(r)
<1>1. PICK rows : rows = [u \in Users |-> NoRow]
  OBVIOUS
<1>2. rows \in Rows
  BY <1>1, RowValues DEF Rows
<1>3. PresentAmong(rows) = {} /\ OwnerAmong(rows) = None
  BY <1>1, <1>2, Emptied
<1>4. RowsOf(r, rows)
  BY <1>1 DEF Deletes, DropRoom, RowsOf
<1>5. Acts' = [Acts EXCEPT ![r] = {}] /\ Owns' = [Owns EXCEPT ![r] = None]
  BY <1>2, <1>3, <1>4, OneRoomSeen
<1> QED
  BY <1>5 DEF Policy!Delete, Deletes, DropRoom, Acts, Owns

LEMMA DeleteUserImplements ==
    ASSUME SerialInv, NEW q \in Reqs, NEW u \in Users, AdminDeleteUser(q, u)
    PROVE  Policy!DeleteUser(u)
<1>1. ASSUME NEW p \in Rooms
      PROVE  /\ PresentAmong(members'[p]) = PresentAmong(members[p]) \ {u}
             /\ OwnerAmong(members'[p]) = IF OwnerAmong(members[p]) = u
                                          THEN None ELSE OwnerAmong(members[p])
  <2>1. PICK rows : rows = [members[p] EXCEPT ![u] = NoRow]
    OBVIOUS
  <2>2. rows \in Rows
    BY <2>1, OrderlyRowsOf, RowValues DEF Rows
  <2>3. members'[p] = rows
    BY <2>1 DEF AdminDeleteUser
  <2> QED
    BY <2>1, <2>2, <2>3, OrderlyRowsOf, Bereft
<1>2. Acts' = [p \in Rooms |-> Acts[p] \ {u}]
  BY <1>1, ActsAre, SeenNow
<1>3. Owns' = [p \in Rooms |-> IF Owns[p] = u THEN None ELSE Owns[p]]
  BY <1>1, ActsAre, SeenNow
<1> QED
  BY <1>2, <1>3 DEF Policy!DeleteUser, AdminDeleteUser, Acts, Owns

LEMMA ReadImplements ==
    ASSUME Reads
    PROVE  UNCHANGED Policy!pvars
<1>1. UNCHANGED <<Acts, Owns>>
  BY ActsAre DEF Reads, tables, Owns
<1> QED
  BY <1>1 DEF Reads, tables, history, Policy!pvars, Acts, Owns

LEMMA PolicyInit == Init => Policy!Init
<1> SUFFICES ASSUME Init PROVE Policy!Init
  OBVIOUS
<1>1. \A r \in Rooms : members[r] \in Rows /\ members[r] = [u \in Users |-> NoRow]
  BY RowValues DEF Init, Rows
<1>2. \A r \in Rooms : PresentAmong(members[r]) = {} /\ OwnerAmong(members[r]) = None
  BY <1>1, Emptied
<1>3. Acts = [r \in Rooms |-> {}] /\ Owns = [r \in Rooms |-> None]
  BY <1>2, ActsAre DEF Owns
<1> QED
  BY <1>3 DEF Init, Policy!Init, Acts, Owns

LEMMA PolicyStep ==
    ASSUME SerialInv, [Next]_vars
    PROVE  [Policy!Next]_Policy!pvars
<1>1. CASE UNCHANGED vars
  BY <1>1, ReadImplements DEF vars, Reads, tables, history
<1>2. CASE Next
  <2>1. PICK q \in Reqs : SerialKinds(q)
    BY <1>2, StepKinds, SerialStepKinds
  <2>2. CASE Reads
    BY <2>2, ReadImplements
  <2>3. ASSUME NEW r \in Rooms, NEW u \in Users, NEW l \in Limits \cup {None},
               CreateGroupRoom(q, u, r, l)
        PROVE  Policy!Next
    BY <2>3, CreateImplements DEF Policy!Next
  <2>4. ASSUME NEW r \in Rooms, NEW l \in Limits \cup {None}, SetsLimit(r, l)
        PROVE  Policy!Next
    BY <2>4, SetLimitImplements DEF Policy!Next
  <2>5. ASSUME NEW r \in Rooms, NEW t \in Users, Joins(r, t) \/ Departs(r, t)
        PROVE  Policy!Next
    BY <2>5, JoinImplements, LeaveImplements DEF Policy!Next
  <2>6. ASSUME NEW r \in Rooms, NEW b \in Users, NEW t \in Users, HandsOver(r, b, t)
        PROVE  Policy!Next
    BY <2>6, HandOverImplements DEF Policy!Next
  <2>7. ASSUME NEW r \in Rooms, Deletes(r)
        PROVE  Policy!Next
    BY <2>7, DeleteImplements DEF Policy!Next
  <2>8. ASSUME NEW u \in Users, AdminDeleteUser(q, u)
        PROVE  Policy!Next
    BY <2>8, DeleteUserImplements DEF Policy!Next
  <2> QED
    BY <2>1, <2>2, <2>3, <2>4, <2>5, <2>6, <2>7, <2>8 DEF SerialKinds
<1> QED
  BY <1>1, <1>2

\* One request at a time, RoomMembersService and RoomsService implement RoomPolicy:
\* every chain of awaited calls amounts to one step of it, taken by its write.
THEOREM Implementation ==
    ASSUME OneAtATime
    PROVE  Spec => ImplementsPolicy
<1>1. SerialInv /\ [Next]_vars => [Policy!Next]_Policy!pvars
  BY PolicyStep
<1> QED
  BY SerialInvHolds, PolicyInit, <1>1, PTL DEF Spec, ImplementsPolicy, Policy!Spec

=============================================================================
