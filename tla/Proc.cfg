SPECIFICATION Spec
CONSTANTS
    N = 3
    Hart = {0, 1}
    None = None
    Ticks = Ticks
    Clock = Clock
    Call <- Family
    KillPid = {0, 2}
    SleepTime = 1
    MaxPid = 4
    MaxTicks = 1
INVARIANTS NoLostWakeup StackPrivate WaitTimeOffByOne
VIEW Relevant
