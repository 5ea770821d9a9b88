SPECIFICATION FairSpec
CONSTANTS
  Modes <- AllModes
  MaxDiscs = 2
  MaxMoves = 3
  MaxTries = 2
  MovesAfter = {"early", "late", "reopened"}
INVARIANTS RightAnswer PowerStaysOn NothingLeft
PROPERTIES SwapBetweenReads Served StopEnds
CHECK_DEADLOCK FALSE
