SPECIFICATION FairSpec
CONSTANTS
    Clients <- MCClients
    MaxCommands <- MCMaxCommands
    MaxBlocks <- MCMaxBlocks
INVARIANTS
    Balanced
PROPERTIES
    Answered
CHECK_DEADLOCK FALSE
