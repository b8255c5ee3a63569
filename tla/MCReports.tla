------------------------------ MODULE MCReports ------------------------------
(***************************************************************************)
(* An instance of the read side for TLC.                                   *)
(***************************************************************************)
EXTENDS ReportsProperties, TLC

CONSTANTS alice, bob, a1, a2, r1, r2, q1

Customer(u) == [user |-> u, role |-> "customer"]
Row(u, b) == [owner |-> u, currency |-> "IDR", balance |-> b]

Users == {alice, bob}
TwoCustomers == {Customer(alice), Customer(bob)}
IDR == {"IDR"}
\* Alice has an account, and a second one may be opened.
Accounts == {a1, a2}
OneAndNone == a1 :> Row(alice, 1) @@ a2 :> Nil
TwoWriters == {r1, r2}
WriterSymmetry == Permutations(Request)
OneReader == {q1}
\* What an unreadable text becomes, the largest number allowed, and one beyond it.
Limits == {0, 2, 3}
=============================================================================
