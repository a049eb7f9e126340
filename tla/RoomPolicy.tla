----------------------------- MODULE RoomPolicy -----------------------------
(***************************************************************************)
(* What the rooms promise their members, each operation in one step: a     *)
(* room is the set of those present, one of them its owner, and a limit on *)
(* whom an invite may add.  Left out: who asked, the rows of members who   *)
(* left, and the calls an operation is made of.                            *)
(***************************************************************************)
EXTENDS Naturals, FiniteSets

CONSTANTS Users, Rooms, Limits, None

VARIABLES
    users,   \* accounts
    used,    \* every room ever made
    rooms,   \* the rooms there are
    limit,   \* limit[r]: most members an invite may lead to, or None
    active,  \* active[r]: who is present
    owner    \* owner[r]: the one who may invite, remove and hand over, or None

pvars == <<users, used, rooms, limit, active, owner>>

Init ==
    /\ users = Users
    /\ used = {}
    /\ rooms = {}
    /\ limit = [r \in Rooms |-> None]
    /\ active = [r \in Rooms |-> {}]
    /\ owner = [r \in Rooms |-> None]

Create(r, u, l) ==
    /\ r \notin used
    /\ u \in users
    /\ used' = used \cup {r}
    /\ rooms' = rooms \cup {r}
    /\ limit' = [limit EXCEPT ![r] = l]
    /\ active' = [active EXCEPT ![r] = {u}]
    /\ owner' = [owner EXCEPT ![r] = u]
    /\ UNCHANGED users

SetLimit(r, l) ==
    /\ r \in rooms
    /\ owner[r] # None
    /\ limit' = [limit EXCEPT ![r] = l]
    /\ UNCHANGED <<users, used, rooms, active, owner>>

\* Only a room with an owner takes new members, and never beyond its limit.
Join(r, u) ==
    /\ owner[r] # None
    /\ u \in users \ active[r]
    /\ limit[r] # None => Cardinality(active[r]) < limit[r]
    /\ active' = [active EXCEPT ![r] = @ \cup {u}]
    /\ UNCHANGED <<users, used, rooms, limit, owner>>

\* Everyone but the owner can leave or be put out.
Leave(r, u) ==
    /\ u \in active[r]
    /\ u # owner[r]
    /\ active' = [active EXCEPT ![r] = @ \ {u}]
    /\ UNCHANGED <<users, used, rooms, limit, owner>>

\* Ownership passes from the owner to somebody present.
HandOver(r, u) ==
    /\ owner[r] # None
    /\ u \in active[r]
    /\ owner' = [owner EXCEPT ![r] = u]
    /\ UNCHANGED <<users, used, rooms, limit, active>>

Delete(r) ==
    /\ r \in rooms
    /\ rooms' = rooms \ {r}
    /\ limit' = [limit EXCEPT ![r] = None]
    /\ active' = [active EXCEPT ![r] = {}]
    /\ owner' = [owner EXCEPT ![r] = None]
    /\ UNCHANGED <<users, used>>

DeleteUser(u) ==
    /\ u \in users
    /\ users' = users \ {u}
    /\ active' = [r \in Rooms |-> active[r] \ {u}]
    /\ owner' = [r \in Rooms |-> IF owner[r] = u THEN None ELSE owner[r]]
    /\ UNCHANGED <<used, rooms, limit>>

Next ==
    \/ \E r \in Rooms, u \in Users, l \in Limits \cup {None} : Create(r, u, l)
    \/ \E r \in Rooms, l \in Limits \cup {None} : SetLimit(r, l)
    \/ \E r \in Rooms, u \in Users : Join(r, u) \/ Leave(r, u) \/ HandOver(r, u)
    \/ \E r \in Rooms : Delete(r)
    \/ \E u \in Users : DeleteUser(u)

Spec == Init /\ [][Next]_pvars

=============================================================================
