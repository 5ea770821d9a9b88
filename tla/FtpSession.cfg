SPECIFICATION Spec
CONSTANTS
    c1 = c1
    c2 = c2
    Clients <- MCClients
    Units <- MCUnits
    OldData <- MCOldData
    NewData <- MCNewData
    Fds <- MCFds
    NtfsFds <- MCNtfsFds
    MaxCommands <- MCMaxCommands
SYMMETRY Symmetry
INVARIANTS
    Complete
    RenamesNamed
    HandlesOwned
CHECK_DEADLOCK FALSE
