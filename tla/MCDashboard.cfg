CONSTANTS
  alice = alice
  bob = bob
  a1 = a1
  a2 = a2
  b1 = b1
  new = new
  None = None
  Null = Null
  Pending = Pending
  Failed = Failed
  User <- TwoUsers
  Account <- Accounts
  OwnedAtFirst <- TwoAndOne
  RowsAtFirst <- OneEach
  Tasks = 2
  MaxActs = 2
  MaxRows = 2
SPECIFICATION FairSpec
INVARIANTS
  OneSubmission
PROPERTIES
  ComesToShowTheLedger
CHECK_DEADLOCK FALSE
