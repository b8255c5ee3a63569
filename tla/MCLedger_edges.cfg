CONSTANTS
  alice = alice
  bob = bob
  r1 = r1
  r2 = r2
  r3 = r3
  Nil = Nil
  Blank = Blank
  User <- Users
  Currency <- Currencies
  Actor <- OneOwnerOneAdmin
  Request <- TwoRequests
  Account <- EdgeAccounts
  Spelling <- EdgeTexts
  Denotes <- Edge
  Opening <- TwoAndNone
  Amount <- EdgeAmounts
  Length <- EdgeLengths
  CurrencyText <- Texts
  CodeOf <- Codes
  MaxInt = 2
  PoolSize = 2
  MaxClock = 1
SYMMETRY RequestSymmetry
SPECIFICATION Spec
INVARIANTS
  RowsAreAuthorized
  RepliesAreTruthful
  EventsAreTruthful
  HistoryIsInCommitOrder
  MoneyIsConserved
PROPERTIES
  ImplementsAtomicLedger
