\* A room with two images, a user or a banner; three uploads, three handlers at a time.
SPECIFICATION Spec
CONSTANTS
    o1 = o1
    o2 = o2
    o3 = o3
    j1 = j1
    j2 = j2
    j3 = j3
    None = None
    Objects = {o1, o2, o3}
    Jobs = {j1, j2, j3}
SYMMETRY Symmetric
INVARIANTS
    TypeOK
    BrokenOnlyByFailure
    LeakExplained
\* A room or a banner that is deleted takes no more uploads.
CHECK_DEADLOCK FALSE
