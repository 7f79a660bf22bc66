SPECIFICATION Spec
CONSTANTS
    p1 = p1
    p2 = p2
    v1 = v1
    Proc = {p1, p2}
    First = p1
    NoProc = NoProc
    Frame <- Frames8
    NoFrame = 0
    Value = {v1}
    Zero = Zero
    Junk = Junk
    PGSIZE = 2
    MaxPages = 3
    PagesPerTable = 2
    InitSize = 2
    ReadOnly = {0}
    Guard = {}
    SP = 9
    UserAddr = {0, 2, 4}
    CopyRange <- Pages01
    MaxRef = 3
    CodePages = 1
    MaxGrow = 2
    Boot <- BootLow
INVARIANT WritableIsPrivate
PROPERTIES StopsOnlyAtNullEntry RefExactButForFork IsolatedButForCopyout
VIEW Shape
