----------------------------- MODULE MCDashboard -----------------------------
(***************************************************************************)
(* Instances of the dashboard for TLC.                                     *)
(***************************************************************************)
EXTENDS DashboardProperties, TLC

CONSTANTS alice, bob, a1, a2, b1, new

TwoUsers == {alice, bob}
\* Alice has two accounts and Bob one, all with transactions; one more may be opened.
Accounts == {a1, a2, b1, new}
TwoAndOne == alice :> <<a2, a1>> @@ bob :> <<b1>>
OneEach == [a \in Account |-> IF a = new THEN 0 ELSE 1]

\* A user who has just registered.
Newcomer == {alice}
OneAccount == {new}
NothingYet == alice :> <<>>
NoRows == [a \in Account |-> 0]
=============================================================================
