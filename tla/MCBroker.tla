------------------------------ MODULE MCBroker ------------------------------
(***************************************************************************)
(* Instances of the event stream for TLC.                                  *)
(***************************************************************************)
EXTENDS BrokerProperties, TLC

CONSTANTS alice, bob, p1, p2, s1, s2, s3

Users == {alice, bob}
OnePublisher == {p1}
TwoPublishers == {p1, p2}
PublisherSymmetry == Permutations(Publisher)

\* A transfer between two owners, and a deposit.
TransferAndDeposit == {<<alice, bob>>, <<bob>>}
Deposit == {<<alice>>}

\* The first stream is a customer's, the others are an administrator's.
TwoStreams == {s1, s2}
Actors == [s \in Stream |-> IF s = s1 THEN [user |-> alice, role |-> "customer"]
                                      ELSE [user |-> bob, role |-> "admin"]]
=============================================================================
