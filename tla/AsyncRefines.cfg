SPECIFICATION Spec
CONSTANTS
  Tasks <- OneSession
  MAX_FRAGS = 3
  Prompt = TRUE
  Faults <- SeenFaults
INVARIANTS MoveKeeps
PROPERTIES ImplementsCopy
