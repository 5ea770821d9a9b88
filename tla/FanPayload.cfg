SPECIFICATION HookFairSpec
CONSTANTS
    p1 = p1
    p2 = p2
    NoProc = NoProc
    Procs <- MCProcs
    Switches <- MCSwitches
INVARIANTS
    MemoryOwned
PROPERTIES
    StepsEnd
CHECK_DEADLOCK FALSE
