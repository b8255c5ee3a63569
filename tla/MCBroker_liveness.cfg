CONSTANTS
  alice = alice
  bob = bob
  p1 = p1
  p2 = p2
  s1 = s1
  s2 = s2
  s3 = s3
  Nil = Nil
  User <- Users
  Publisher <- TwoPublishers
  Stream <- TwoStreams
  StreamActor <- Actors
  Operations <- Deposit
  Capacity = 1
SPECIFICATION FairSpec
PROPERTIES
  PublishReturns
  StreamsAreReleased
