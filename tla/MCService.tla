------------------------------ MODULE MCService ------------------------------
(***************************************************************************)
(* Instances of the transaction service for TLC.                           *)
(***************************************************************************)
EXTENDS ServiceProperties, TLC

CONSTANTS alice, bob, r1, r2, s1

Users == {alice, bob}
Currencies == {"IDR"}
OneCustomer == {[user |-> alice, role |-> "customer"]}
TwoRequests == {r1, r2}
OneStream == {s1}

\* A customer's stream: events of the other user's account are not for it.
Customers == [s \in Stream |-> [user |-> alice, role |-> "customer"]]

\* Two accounts of different owners; texts 1 and 3 name the same one.
Accounts == {2, 3}
Texts == {1, 2, 3}
Mixed == 1 :> 3 @@ 2 :> 2 @@ 3 :> 3
Row(u) == [owner |-> u, currency |-> "IDR", balance |-> 0]
Opened == 2 :> Row(alice) @@ 3 :> Row(bob)

One == {1}
Short == {280}
NoText == {""}
Codes == "" :> ""
=============================================================================
