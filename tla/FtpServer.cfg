SPECIFICATION FairSpec
CONSTANTS
    MaxConns <- MCMaxConns
    MaxCommands <- MCMaxCommands
    MaxStarts <- MCMaxStarts
INVARIANTS
    ConnectionsServed
    ActivitySeen
PROPERTIES
    ActivityEnds
    StopEnds
CHECK_DEADLOCK FALSE
