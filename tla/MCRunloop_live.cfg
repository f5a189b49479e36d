SPECIFICATION FairSpec
CONSTANTS
  Addr = {addr}
  Key = {slot}
  NoAccount = NoAccount
  NoId = 0
  DepthLimit = 2
  MaxProposals = 2
  Window = 2
  Blocks = {1, 2, 3, 4}
  Parent <- ShortParent
  Programs <- ShortPrograms
  Delay = 2
  EndBlock = 3
  MaxCrashes = 1

PROPERTIES EventuallyFinalized EventuallyExecuted
CHECK_DEADLOCK FALSE
