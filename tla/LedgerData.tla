----------------------------- MODULE LedgerData -----------------------------
(***************************************************************************)
(* The data of the transaction service: its callers, the rows of tables    *)
(* accounts and transactions, and who may act on an account.               *)
(*                                                                         *)
(* Ids, names and texts are model values.  Money is an integer number of   *)
(* cents of the width of a BIGINT, whose largest value is MaxInt.          *)
(***************************************************************************)
EXTENDS Integers, Sequences, FiniteSets

CONSTANTS
  Account,    \* ids of accounts, present or yet to be created
  User,       \* ids of users, as the auth service reports them
  Actor,      \* callers: [user, role], as ValidateToken returns them
  Currency,   \* three-letter currency codes in use
  Request,    \* HTTP requests, each with at most one database transaction
  Opening,    \* the accounts the database holds when the service starts
  MaxInt,     \* the largest BIGINT (2^63 - 1 in the real system)
  Nil         \* an absent row, an unlocked row, a NULL column

AccountRow == [owner : User, currency : Currency, balance : 0..MaxInt]

\* A row of accounts as a handler holds it: the new balance may have wrapped.
AccountCopy == [owner : User, currency : Currency, balance : Int]

TransactionType == {"deposit", "withdrawal", "transfer_in", "transfer_out"}

\* The id of a row is fresh: the request that wrote it and the position of
\* the row among those the request writes stand for the random UUID.
TransactionRow ==
  [id : Request \X {1, 2}, account : Account, counterparty : Account \cup {Nil},
   type : TransactionType, amount : 1..MaxInt, after : 0..MaxInt,
   by : User, at : Nat]

ASSUME MaxIntAssumption == MaxInt \in Nat \ {0}
ASSUME NilAssumption == Nil \notin AccountCopy \cup Request \cup Account \cup Int
ASSUME AccountAssumption == IsFiniteSet(Account)
ASSUME ActorAssumption == Actor \subseteq [user : User, role : {"customer", "admin"}]
ASSUME OpeningAssumption == Opening \in [Account -> AccountRow \cup {Nil}]

\* Mutant of CanAccess: whoever is signed in may act.
AnybodyCanAccess(actor, row) == actor.role \in {"customer", "admin"}

\* Actor.CanAccess
CanAccess(actor, row) == actor.role = "admin" \/ row.owner = actor.user
=============================================================================
