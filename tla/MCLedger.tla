------------------------------ MODULE MCLedger ------------------------------
(***************************************************************************)
(* Instances of the ledger for TLC.                                        *)
(***************************************************************************)
EXTENDS LedgerInvariant, TLC

CONSTANTS alice, bob, r1, r2, r3

Customer(u) == [user |-> u, role |-> "customer"]
Administrator(u) == [user |-> u, role |-> "admin"]
Row(u, c, b) == [owner |-> u, currency |-> c, balance |-> b]

Users == {alice, bob}
Currencies == {"IDR", "USD"}
OneOwnerOneAdmin == {Customer(alice), Administrator(bob)}

TwoRequests == {r1, r2}
ThreeRequests == {r1, r2, r3}
RequestSymmetry == Permutations(Request)

\* Three accounts of one currency, which all exist, each with one text.
Accounts == {1, 2, 3}
Canonical == [s \in Spelling |-> s]
OneAdmin == {Administrator(bob)}
ThreeOpen == [a \in Account |-> Row(alice, "IDR", 1)]

\* Texts 1, 2 and 3 name two accounts: 3 is the canonical text of an account, 1
\* is its canonical text in upper case, and 2 is the other account.
MixedAccounts == {2, 3}
MixedSpelling == {1, 2, 3}
MixedOpen == [a \in Account |-> Row(alice, "IDR", 1)]
Mixed == 1 :> 3 @@ 2 :> 2 @@ 3 :> 3

\* The same texts and accounts, of two owners; account 4 is still to be created.
EdgeAccounts == {2, 3, 4}
EdgeTexts == {1, 2, 3, 4}
Edge == Mixed @@ 4 :> 4
TwoAndNone == 2 :> Row(alice, "IDR", 1) @@ 3 :> Row(bob, "IDR", 0) @@ 4 :> Nil

\* Amounts at the edges: not positive, small, and the largest BIGINT.
EdgeAmounts == {0, 1, MaxInt}
One == {1}
EdgeLengths == {280, 281}
Short == {280}

\* CreateAccount: no currency, one in need of trimming, one that is too long.
Texts == {"", " usd", "rupiah"}
NoText == {""}
Codes == "" :> "" @@ " usd" :> "USD" @@ "rupiah" :> "RUPIAH"
=============================================================================
