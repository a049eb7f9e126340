\* A transfer and the departure of the new OWNER at the same time.
SPECIFICATION Spec
CONSTANTS
    u1 = u1
    u2 = u2
    u3 = u3
    u4 = u4
    r1 = r1
    q1 = q1
    q2 = q2
    None = None
    Users = {u1, u2, u3, u4}
    Rooms = {r1}
    Reqs = {q1, q2}
    Limits = {2}
INVARIANT
    OwnerNeverLeft
\* The ids are finite: once rooms and users are used up, nothing can be asked.
CHECK_DEADLOCK FALSE
