\* An owner and a member, two handlers at a time, two messages, joins that
\* return the newest one only.  No edits: chat_edits has them.
SPECIFICATION Spec
CONSTANTS
    alice = alice
    bob = bob
    j1 = j1
    j2 = j2
    None = None
    Users = {alice, bob}
    Watchers = {bob}
    Owner = alice
    Jobs = {j1, j2}
    MaxMsgs = 2
    MaxEdits = 0
    Take = 1
    Files = {FALSE}
SYMMETRY Symmetric
INVARIANTS
    ViewAgrees
    ShownInOrder
