\* One handler at a time: the second room of a pair needs no race.
SPECIFICATION Spec
CONSTANTS
    u1 = u1
    u2 = u2
    u3 = u3
    r1 = r1
    r2 = r2
    r3 = r3
    j1 = j1
    None = None
    Users = {u1, u2, u3}
    Rooms = {r1, r2, r3}
    Jobs = {j1}
PROPERTY
    ExistingIsReturned
\* Once accounts and ids are used up nothing can be asked.
CHECK_DEADLOCK FALSE
