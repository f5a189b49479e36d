SPECIFICATION Spec
CONSTANTS
  Addr = {addr}
  Key = {slot}
  NoAccount = NoAccount
  NoId = 0
  DepthLimit = 2
  MaxProposals = 2
  Window = 2
  Blocks = {1, 2, 3, 4, 5, 6}
  Parent <- MCParent
  Programs <- MCPrograms
  Delay = 2
  EndBlock = 4
  MaxCrashes = 1
INVARIANTS TypeOK AssertionsHold ReadsParentState HashesAreAncestors FinalizedHistory 
PROPERTY FinalizedIsFinal
CHECK_DEADLOCK FALSE
