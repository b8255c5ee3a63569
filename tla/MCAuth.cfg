CONSTANTS
  r1 = r1
  r2 = r2
  r3 = r3
  mail = mail
  MAIL = MAIL
  noMail = noMail
  secret = secret
  full = full
  long = long
  Departed = Departed
  Forged = Forged
  NoToken = NoToken
  Nil = Nil
  Request <- ThreeRequests
  EmailText <- OneAddress
  Address <- AddressesOf
  Normalized <- LowerCase
  Password <- ThreePasswords
  Length <- Bytes
  Digest <- FirstBytes
  NameLength <- OneLength
  RoleText <- ThreeRoles
  OldTokens <- AdministratorsToken
  TTL = 1
  MaxClock = 1
SYMMETRY RequestSymmetry
SPECIFICATION Spec
INVARIANTS
  AnswersAreAuthorized
  TokensAreHonest
  OneUserForAnEmail
  RegistrationIsTruthful
  RegisteredCanLogIn
  AuthInv
