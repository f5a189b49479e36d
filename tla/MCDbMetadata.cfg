SPECIFICATION Spec
CONSTANTS
  Chunks = 2
  Entries = 2
  MinHistory = 2
  Ahead = 1
  MaxVersion = 2
  MaxNodes = 6
  MaxCrashes = 2
  OneAtATime = TRUE
INVARIANTS TypeOK RootsReadable AssertionsHold AbortHeals FinalizedSurvives TimelinesWhole PositionsAgree
CONSTRAINT Whole
