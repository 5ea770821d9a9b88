SPECIFICATION FairSpec
CONSTANTS
    MaxBand <- MCMaxBand
    MaxCalls <- MCMaxCalls
    MaxChanges <- MCMaxChanges
    MaxErrors <- MCMaxErrors
INVARIANTS
    TakenBack
PROPERTIES
    Controlled
CHECK_DEADLOCK FALSE
