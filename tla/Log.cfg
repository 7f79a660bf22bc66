SPECIFICATION FairSpec
CONSTANTS
    p1 = p1
    p2 = p2
    b1 = b1
    b2 = b2
    b3 = b3
    Proc = {p1, p2}
    Block = {b1, b2, b3}
    Value = {0, 1}
    None = None
    MAXOPBLOCKS = 2
    MaxWrites = 1
    LOGSIZE = 4
    Size = 4
    MaxCrash = 2
INVARIANTS NoPanic
PROPERTIES ImplementsAtomicDisk CommitEnds
