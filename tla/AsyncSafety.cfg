SPECIFICATION FairSpec
CONSTANTS
  Tasks <- AllTasks
  MAX_FRAGS = 3
  Prompt = TRUE
  Faults <- AllFaults
INVARIANTS TypeOK Handover NoEarlyClose Contiguous OpenAtEnd
PROPERTIES Termination
