CONSTANTS
  alice = alice
  bob = bob
  r1 = r1
  r2 = r2
  r3 = r3
  Nil = Nil
  Blank = Blank
  User <- Users
  Currency <- Currencies
  Actor <- OneAdmin
  Request <- ThreeRequests
  Account <- Accounts
  Spelling <- Accounts
  Denotes <- Canonical
  Opening <- ThreeOpen
  Amount <- One
  Length <- Short
  CurrencyText <- NoText
  CodeOf <- Codes
  MaxInt = 3
  PoolSize = 2
  MaxClock = 0
SYMMETRY RequestSymmetry
SPECIFICATION Spec
INVARIANTS
  NoDeadlock
  RunningBalance
  TransfersArePaired
  DecisionsAreFresh
  NothingLeaks
  Inv
