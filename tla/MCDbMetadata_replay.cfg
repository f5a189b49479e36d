SPECIFICATION Spec
CONSTANTS
  Chunks = 2
  Entries = 2
  MinHistory = 2
  Ahead = 1
  MaxVersion = 3
  MaxNodes = 8
  MaxCrashes = 1
  OneAtATime = TRUE
INVARIANTS ReplayKeepsRoots
