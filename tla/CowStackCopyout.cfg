SPECIFICATION Spec
CONSTANTS
    p1 = p1
    p2 = p2
    v1 = v1
    Proc = {p1, p2}
    First = p1
    NoProc = NoProc
    Frame <- Frames14
    NoFrame = 0
    Value = {v1}
    Zero = Zero
    Junk = Junk
    PGSIZE = 2
    MaxPages = 2
    PagesPerTable = 2
    InitSize = 2
    ReadOnly = {}
    Guard = {0}
    SP = 3
    UserAddr = {3}
    CopyRange <- Page1
    MaxRef = 6
    CodePages = 1
    MaxGrow = 0
    Boot <- BootLow
PROPERTY ImplementsUserMemory
VIEW Shape
