------------------------------ MODULE Postgres ------------------------------
(***************************************************************************)
(* The ledger database, as the transaction service uses it through         *)
(* database/sql: the tables accounts and transactions of                   *)
(* migrations/postgres, the connection pool, row locks taken with          *)
(* SELECT ... FOR UPDATE, and SERIALIZABLE isolation.                       *)
(*                                                                         *)
(* The engine itself is not in this repository.  What is modelled of it is *)
(* what the ledger relies on: a transaction reads one snapshot; a row      *)
(* lock is held until the transaction ends; locking a row that another     *)
(* transaction has changed since the snapshot fails ("could not serialize  *)
(* access due to concurrent update"); the writes of a transaction become   *)
(* visible together, at its commit, or never.                              *)
(*                                                                         *)
(* The operators below are the statements.  Module Ledger composes them    *)
(* into the steps of the request handlers.                                 *)
(***************************************************************************)
EXTENDS LedgerData

CONSTANT PoolSize   \* connections the service may open

ASSUME PoolSizeAssumption == PoolSize \in Nat \ {0}

VARIABLES
  accounts,   \* committed rows of table accounts, by id
  journal,    \* committed rows of table transactions, in commit order
  active,     \* transactions that are open, each on a pooled connection
  lock,       \* the transaction that holds each row's FOR UPDATE lock
  stale,      \* rows that others have committed since a transaction's snapshot
  writes,     \* uncommitted balances of each transaction
  inserts     \* uncommitted journal rows of each transaction

dbVars == <<accounts, journal, active, lock, stale, writes, inserts>>

NoWrites == [a \in Account |-> Nil]

PostgresTypeOK ==
  /\ accounts \in [Account -> AccountRow \cup {Nil}]
  /\ journal \in Seq(TransactionRow)
  /\ active \in SUBSET Request
  /\ lock \in [Account -> Request \cup {Nil}]
  /\ stale \in [Request -> SUBSET Account]
  /\ writes \in [Request -> [Account -> 0..MaxInt \cup {Nil}]]
  /\ inserts \in [Request -> Seq(TransactionRow)]

\* A database on which no transaction is open.
PostgresInit ==
  /\ journal = <<>>
  /\ active = {}
  /\ lock = [a \in Account |-> Nil]
  /\ stale = [t \in Request |-> {}]
  /\ writes = [t \in Request |-> NoWrites]
  /\ inserts = [t \in Request |-> <<>>]
-----------------------------------------------------------------------------
\* A connection is free.
ConnectionFree == Cardinality(active) < PoolSize

\* INSERT INTO accounts on its own, outside any transaction.
InsertAccount(a, row) ==
  /\ accounts[a] = Nil
  /\ accounts' = [accounts EXCEPT ![a] = row]
  /\ UNCHANGED <<journal, active, lock, stale, writes, inserts>>

\* BEGIN ISOLATION LEVEL SERIALIZABLE on a free connection, up to the point
\* where the first statement takes the snapshot.
BeginTx(t) ==
  /\ ConnectionFree
  /\ active' = active \cup {t}
  /\ UNCHANGED <<accounts, journal, lock, stale, writes, inserts>>

\* The row differs from the transaction's snapshot: locking it is an error.
SerializationConflict(t, a) == a \in stale[t]

\* Mutant of LockRow: a SELECT without FOR UPDATE.
ReadRow(t, a) ==
  /\ accounts[a] # Nil
  /\ ~SerializationConflict(t, a)
  /\ UNCHANGED dbVars

\* SELECT ... WHERE id = a FOR UPDATE, which waits while another holds the row.
LockRow(t, a) ==
  /\ accounts[a] # Nil
  /\ ~SerializationConflict(t, a)
  /\ lock[a] \in {Nil, t}
  /\ lock' = [lock EXCEPT ![a] = t]
  /\ UNCHANGED <<accounts, journal, active, stale, writes, inserts>>

\* UPDATE accounts of a row the transaction has locked, under the constraint
\* CHECK (balance_cents >= 0).
NoBalanceCheck(b) == TRUE  \* mutant: the table has no such constraint
BalanceCheck(b) == b >= 0

UpdateRow(t, a, b) ==
  /\ BalanceCheck(b)
  /\ writes' = [writes EXCEPT ![t][a] = b]
  /\ UNCHANGED <<accounts, journal, active, lock, stale, inserts>>

\* Mutant of InsertRow: the INSERT is not part of the transaction.
InsertRowAtOnce(t, row) ==
  /\ journal' = Append(journal, row)
  /\ UNCHANGED <<accounts, active, lock, stale, writes, inserts>>

\* INSERT INTO transactions.  Its foreign keys hold: accounts are never
\* deleted.
InsertRow(t, row) ==
  /\ inserts' = [inserts EXCEPT ![t] = Append(@, row)]
  /\ UNCHANGED <<accounts, journal, active, lock, stale, writes>>

\* The transactions of a set T end: their connections return to the pool,
\* their locks are released and what they had not committed is gone.
CloseTx(T) ==
  /\ active' = active \ T
  /\ lock' = [a \in Account |-> IF lock[a] \in T THEN Nil ELSE lock[a]]
  /\ writes' = [t \in Request |-> IF t \in T THEN NoWrites ELSE writes[t]]
  /\ inserts' = [t \in Request |-> IF t \in T THEN <<>> ELSE inserts[t]]

\* ROLLBACK.  For a transaction that was never opened it changes nothing.
RollbackTx(T) ==
  /\ CloseTx(T)
  /\ stale' = [t \in Request |-> IF t \in T THEN {} ELSE stale[t]]
  /\ UNCHANGED <<accounts, journal>>

Written(t) == {a \in Account : writes[t][a] # Nil}

\* COMMIT.  The rows it wrote become stale for every other open transaction.
CommitTx(t) ==
  /\ CloseTx({t})
  /\ accounts' = [a \in Account |->
                    IF a \in Written(t)
                    THEN [accounts[a] EXCEPT !.balance = writes[t][a]]
                    ELSE accounts[a]]
  /\ journal' = journal \o inserts[t]
  /\ stale' = [u \in Request |->
                 IF u \in active \ {t} THEN stale[u] \cup Written(t) ELSE {}]
=============================================================================
