CONSTANTS
  alice = alice
  bob = bob
  r1 = r1
  r2 = r2
  s1 = s1
  Nil = Nil
  Blank = Blank
  User <- Users
  Currency <- Currencies
  Actor <- OneCustomer
  Request <- TwoRequests
  Account <- Accounts
  Spelling <- Texts
  Denotes <- Mixed
  Opening <- Opened
  Amount <- One
  Length <- Short
  CurrencyText <- NoText
  CodeOf <- Codes
  MaxInt = 1
  PoolSize = 2
  MaxClock = 1
  Stream <- OneStream
  StreamActor <- Customers
  Capacity = 1
SPECIFICATION ServiceFairSpec
INVARIANTS
  StreamsShowCommittedRows
  AnsweredIsDelivered
PROPERTIES
  EveryRequestAnswered
