SPECIFICATION Spec
CONSTANTS
  Jobs <- SafetyJobs
  CopyModes <- BothModes
  MAX_FAST_FILES = 2
  FILESIZE_MAX = 2
  GIGA = 4
  SPLIT_MIN = 8
  Faults <- AllFaults
INVARIANTS TypeOK FdAccounting OneFileAtATime NoCloseUnderIO SplitSizes CountMatches
PROPERTIES BufferStable ImplementsCopy
