SPECIFICATION FairSpec
CONSTANTS
  Jobs <- JoinJobs
  CopyModes <- NormalMode
  MAX_FAST_FILES = 2
  FILESIZE_MAX = 2
  GIGA = 4
  SPLIT_MIN = 8
  Faults <- NoFaults
PROPERTIES JoinCompletes
