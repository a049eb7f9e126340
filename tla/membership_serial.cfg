\* One request at a time: three users, two rooms, limits that bind.
SPECIFICATION Spec
CONSTANTS
    u1 = u1
    u2 = u2
    u3 = u3
    r1 = r1
    r2 = r2
    q1 = q1
    None = None
    Users = {u1, u2, u3}
    Rooms = {r1, r2}
    Reqs = {q1}
    Limits = {2}
INVARIANTS
    TypeOK
    OwnerNeverLeft
    SoleOwner
PROPERTIES
    ImplementsPolicy
\* The ids are finite: once rooms and users are used up, nothing can be asked.
CHECK_DEADLOCK FALSE
