CONSTANTS
  r1 = r1
  r2 = r2
  c1 = c1
  mail = mail
  secret = secret
  Departed = Departed
  Forged = Forged
  NoToken = NoToken
  Absent = Absent
  Malformed = Malformed
  Nil = Nil
  Request <- TwoRequests
  Caller <- OneCaller
  EmailText <- OneEmail
  Address <- OneEmail
  Normalized <- SameEmail
  Password <- OnePassword
  Length <- TwelveBytes
  Digest <- SamePassword
  NameLength <- Two
  RoleText <- TwoRoles
  OldTokens <- AdministratorsToken
  TTL = 1
  MaxClock = 1
SPECIFICATION GatewayFairSpec
INVARIANTS
  GatewayInv
  ActorsAreConfirmed
  RefusalsHaveReasons
PROPERTIES
  EveryCallEnds
