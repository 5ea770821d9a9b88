SPECIFICATION FairSpec
CONSTANTS
  Jobs <- LiveJobs
  CopyModes <- BothModes
  MAX_FAST_FILES = 2
  FILESIZE_MAX = 2
  GIGA = 4
  SPLIT_MIN = 8
  Faults <- TameFaults
INVARIANTS CleanReturn
PROPERTIES Termination
