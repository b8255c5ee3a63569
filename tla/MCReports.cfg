CONSTANTS
  alice = alice
  bob = bob
  a1 = a1
  a2 = a2
  r1 = r1
  r2 = r2
  q1 = q1
  Nil = Nil
  NoId = NoId
  User <- Users
  Currency <- IDR
  Actor <- TwoCustomers
  Account <- Accounts
  Request <- TwoWriters
  Opening <- OneAndNone
  Reader <- OneReader
  Asked <- Limits
  MaxInt = 2
  DefaultLimit = 1
  MaxLimit = 2
  DefaultMonths = 1
  MaxMonths = 2
  MonthLength = 2
  MaxClock = 2
SYMMETRY WriterSymmetry
SPECIFICATION ReportsSpec
INVARIANTS
  StatementsAddUp
  AnswersAreOfOneInstant
  MonthlyBalancesAreClosing
  ReadersAreAuthorized
  ReportsInv
CHECK_DEADLOCK FALSE
