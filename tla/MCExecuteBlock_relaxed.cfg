SPECIFICATION Spec
CONSTANTS
  alice = alice
  bob = bob
  c = c
  n = n
  m = m
  slot = slot
  NoAccount = NoAccount
  Absent = Absent
  Addr = {alice, bob, c, n, m}
  Key = {slot}
  MaxWord = 3
  Cancun = FALSE
  Blocks <- Pairs
  MaxTxs = 2
  Db <- MCDb
  Fee = 1
  Beneficiary = m
  System = c
  Recipient = n
  ContractAt <- MCContractAt
  Relaxed = TRUE
  MayLose = FALSE
INVARIANTS CommitIsWorld Solvent
PROPERTY ImplementsSerial
CHECK_DEADLOCK FALSE
