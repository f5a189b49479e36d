SPECIFICATION Spec
CONSTANTS
  alice = alice
  bob = bob
  c = c
  n = n
  m = m
  slot = slot
  NoAccount = NoAccount
  Absent = Absent
  Addr = {alice, bob, c, n, m}
  Key = {slot}
  MaxWord = 3
  Cancun = TRUE
  Blocks <- PairsAndTriples
  MaxTxs = 3
  Db <- MCDb
  Fee = 1
  Beneficiary = m
  System = c
  Recipient = n
  ContractAt <- MCContractAt
  Relaxed = FALSE
  MayLose = FALSE
INVARIANTS TypeOK CachedReads RetryNeverAborts InOrder
PROPERTY ImplementsSerial
CHECK_DEADLOCK FALSE
