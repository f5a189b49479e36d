SPECIFICATION FairSpec
CONSTANTS
  Addr = {a1, a2}
  Busy = {a1}
  Genesis <- MCGenesis
  MaxBlock = 3
  MaxEntries = 3
  MaxDeletions = 2
  MaxFaults = 1
INVARIANTS TypeOK AssertionsHold SyncedIsServer PrefixCaughtUp  DeletionsRemembered
PROPERTIES EventuallySynced
