------------------------------ MODULE MCGateway ------------------------------
(***************************************************************************)
(* Instances of the two services around a token for TLC.                   *)
(***************************************************************************)
EXTENDS GatewayProperties

CONSTANTS r1, r2, c1, mail, secret

TwoRequests == {r1, r2}
OneCaller == {c1}

OneEmail == {mail}
SameEmail == [e \in EmailText |-> e]
OnePassword == {secret}
TwelveBytes == [p \in Password |-> 12]
SamePassword == [p \in Password |-> p]
TwoRoles == {"", "admin"}
Two == {2}

AdministratorsToken ==
  {[user |-> Departed, role |-> "admin", exp |-> 1]}
=============================================================================
