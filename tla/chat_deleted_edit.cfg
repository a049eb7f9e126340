\* A message deleted while an edit of it waits for the database.
SPECIFICATION Spec
CONSTANTS
    alice = alice
    bob = bob
    j1 = j1
    j2 = j2
    None = None
    Users = {alice, bob}
    Watchers = {bob}
    Owner = alice
    Jobs = {j1, j2}
    MaxMsgs = 1
    MaxEdits = 1
    Take = 1
    Files = {FALSE}
PROPERTY
    DeletedIsFinal
