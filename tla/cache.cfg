\* Two handlers at a time, a room and the banners with three versions each.
SPECIFICATION FairSpec
CONSTANTS
    j1 = j1
    j2 = j2
    None = None
    Jobs = {j1, j2}
    MaxVersion = 3
INVARIANTS
    TypeOK
    Coherent
PROPERTY
    EventuallyFresh
