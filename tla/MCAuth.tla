------------------------------- MODULE MCAuth -------------------------------
(***************************************************************************)
(* Instances of the auth service for TLC.                                  *)
(***************************************************************************)
EXTENDS AuthProperties, TLC

CONSTANTS r1, r2, r3, mail, MAIL, noMail, secret, full, long

ThreeRequests == {r1, r2, r3}
RequestSymmetry == Permutations(Request)

\* Two spellings of one address and a text that is none.
OneAddress == {mail, MAIL, noMail}
AddressesOf == EmailText \ {noMail}
LowerCase == [e \in EmailText |-> IF e = MAIL THEN mail ELSE e]

\* bcrypt looks at 72 bytes: it cannot tell long from full.
ThreePasswords == {secret, full, long}
Bytes == [p \in Password |-> CASE p = full -> 72 [] p = long -> 73 [] p = secret -> 12]
FirstBytes == [p \in Password |-> IF p = long THEN full ELSE p]

ThreeRoles == {"", "admin", "owner"}
OneLength == {2}

AdministratorsToken ==
  {[user |-> Departed, role |-> "admin", exp |-> 1]}
=============================================================================
