\* One message, two edits and any deletes of it, under fairness: no symmetry.
SPECIFICATION FairSpec
CONSTANTS
    alice = alice
    bob = bob
    j1 = j1
    j2 = j2
    None = None
    Users = {alice, bob}
    Watchers = {bob}
    Owner = alice
    Jobs = {j1, j2}
    MaxMsgs = 1
    MaxEdits = 2
    Take = 1
    Files = {TRUE, FALSE}
INVARIANTS
    TypeOK
    ShownWasWritten
    ViewAgrees
PROPERTY
    Delivered
