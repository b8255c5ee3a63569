CONSTANTS
  alice = alice
  bob = bob
  a1 = a1
  a2 = a2
  b1 = b1
  new = new
  None = None
  Null = Null
  Pending = Pending
  Failed = Failed
  User <- Newcomer
  Account <- OneAccount
  OwnedAtFirst <- NothingYet
  RowsAtFirst <- NoRows
  Tasks = 2
  MaxActs = 2
  MaxRows = 2
SPECIFICATION Spec
INVARIANTS
  EmptyListsAreShown
CHECK_DEADLOCK FALSE
