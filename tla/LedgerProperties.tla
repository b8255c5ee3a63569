-------------------------- MODULE LedgerProperties --------------------------
(***************************************************************************)
(* What the ledger promises, over the committed rows, the answers given to *)
(* clients and the events published.                                       *)
(***************************************************************************)
EXTENDS Ledger, Functions

ProgramCounter ==
  {"idle", "begin", "lock", "apply", "update", "insert", "commit", "publish", "done"}
Reply ==
  {"none", "ok", "created", "bad_request", "forbidden", "not_found", "conflict",
   "internal"}

\* Every variable has a value of its type; in particular no committed or
\* uncommitted balance is negative, although deposits may wrap.
TypeOK ==
  /\ PostgresTypeOK
  /\ pc \in [Request -> ProgramCounter]
  /\ op \in [Request -> MoneyInput \cup TransferInput \cup {Nil}]
  /\ queue \in [Request -> SUBSET Spelling]
  /\ copies \in [Request -> [Account -> AccountCopy \cup {Nil}]]
  /\ step \in [Request -> {1, 2}]
  /\ stamp \in [Request -> Seq(Nat)]
  /\ reply \in [Request -> Reply]
  /\ clock \in Nat
-----------------------------------------------------------------------------
\* The journal as the history of the balances.

Change(type, amount) ==
  IF type \in {"deposit", "transfer_in"} THEN amount ELSE -amount

Signed(row) == Change(row.type, row.amount)

OpeningBalance(a) == IF Opening[a] = Nil THEN 0 ELSE Opening[a].balance

\* Row i is the latest of account a among the first k rows.
IsLatest(rows, a, k, i) ==
  /\ i \in 1..k
  /\ rows[i].account = a
  /\ \A j \in 1..k : rows[j].account = a => j <= i

\* The balance of account a after the first k rows, as the rows tell it.
BalanceAt(rows, a, k) ==
  IF \E i \in 1..k : IsLatest(rows, a, k, i)
  THEN rows[CHOOSE i \in 1..k : IsLatest(rows, a, k, i)].after
  ELSE OpeningBalance(a)

\* Every row's balance_after_cents is the account's previous one plus or minus
\* the row's amount, and the account holds the last of them: no update is lost
\* or applied twice, whatever requests run together, fail or crash.
RunningBalance ==
  /\ \A k \in 1..Len(journal) :
       journal[k].after
         = BalanceAt(journal, journal[k].account, k - 1) + Signed(journal[k])
  /\ \A a \in Account : accounts[a] # Nil =>
       accounts[a].balance = BalanceAt(journal, a, Len(journal))

\* Rows i and j are the two sides of one transfer.
Sides(i, j) ==
  /\ journal[i].type = "transfer_out" /\ journal[j].type = "transfer_in"
  /\ journal[i].id[1] = journal[j].id[1]
  /\ journal[i].counterparty = journal[j].account
  /\ journal[j].counterparty = journal[i].account
  /\ journal[i].amount = journal[j].amount
  /\ journal[i].by = journal[j].by
  /\ journal[i].at <= journal[j].at

\* The four statements of Transfer take effect together: a committed
\* transfer_out has its transfer_in, between two different accounts of one
\* currency, and the other way round.
TransfersArePaired ==
  \A k \in 1..Len(journal) :
    /\ journal[k].type = "transfer_out" => \E j \in 1..Len(journal) : Sides(k, j)
    /\ journal[k].type = "transfer_in" => \E i \in 1..Len(journal) : Sides(i, k)
    /\ journal[k].counterparty # Nil =>
         /\ journal[k].counterparty # journal[k].account
         /\ accounts[journal[k].counterparty].currency
              = accounts[journal[k].account].currency

\* ListTransactions and MonthlyBalances order an account's rows by created_at:
\* that is the order in which they were committed, so the latest row of a month
\* has the balance at its end.  (Rows of one reading of the clock are tied.)
HistoryIsInCommitOrder ==
  \A j \in 1..Len(journal) : \A i \in 1..j :
    journal[i].account = journal[j].account => journal[i].at <= journal[j].at

\* Money leaves an account only for its owner or an administrator, and anybody
\* may transfer into it but nobody else may deposit: the row a request leaves
\* on an account it may not access is a transfer_in.
RowsAreAuthorized ==
  \A k \in 1..Len(journal) :
    journal[k].type # "transfer_in" =>
      \/ accounts[journal[k].account].owner = journal[k].by
      \/ [user |-> journal[k].by, role |-> "admin"] \in Actor

\* What the rows of accounts hold of a currency.
Held(rows, currency) ==
  [a \in Account |->
     IF rows[a] # Nil /\ rows[a].currency = currency THEN rows[a].balance ELSE 0]
Total(rows, currency) == SumFunction(Held(rows, currency))

\* What deposits and withdrawals have brought of it.
Brought(currency) ==
  [k \in 1..Len(journal) |->
     IF /\ journal[k].counterparty = Nil
        /\ accounts[journal[k].account].currency = currency
     THEN Signed(journal[k])
     ELSE 0]
Flow(currency) == SumFunction(Brought(currency))

\* Transfers neither create nor destroy money: in every currency the accounts
\* hold what they held at the start, plus deposits, minus withdrawals.
MoneyIsConserved ==
  \A c \in Currency : Total(accounts, c) = Total(Opening, c) + Flow(c)
-----------------------------------------------------------------------------
\* Requests, their answers and their events.

RowsOf(r) == {k \in 1..Len(journal) : journal[k].id[1] = r}

\* The rows of request r make up an operation, both sides of it if it is a transfer.
Complete(r) ==
  \E k \in RowsOf(r) :
    \/ journal[k].type \in {"deposit", "withdrawal"}
    \/ /\ journal[k].type = "transfer_out"
       /\ \E j \in RowsOf(r) :
            /\ journal[j].type = "transfer_in"
            /\ journal[j].account = journal[k].counterparty
            /\ journal[j].amount = journal[k].amount

\* A client told 200 has all the rows of its operation in the journal, and one
\* told of an error of its own has none.  (A client told 500 may have either:
\* the acknowledgement of its commit may have been lost.)
RepliesAreTruthful ==
  \A r \in Request :
    /\ reply[r] = "ok" => Complete(r)
    /\ reply[r] \in {"created", "bad_request", "forbidden", "not_found", "conflict"} =>
         RowsOf(r) = {}

\* An event on the stream tells of a committed row, with the balance that row
\* left, and goes to the owner of the account.
EventsAreTruthful ==
  \A e \in published :
    /\ e.transaction \in {journal[k] : k \in 1..Len(journal)}
    /\ e.balance = e.transaction.after
    /\ e.owner = accounts[e.transaction.account].owner
    /\ e.operation = "transfer" <=> e.transaction.counterparty # Nil

\* The row a leg of request r is to leave: the committed one, moved.
Expected(r, leg) ==
  [accounts[leg.account] EXCEPT !.balance = Wrap(@ + Change(leg.type, op[r].amount))]

\* From reading a row to the commit, nobody else changes it: what a handler has
\* checked, and the balances it has computed, still hold of the committed rows.
DecisionsAreFresh ==
  \A r \in Request :
    /\ pc[r] \in {"lock", "apply"} =>
         \A a \in Account : copies[r][a] \in {Nil, accounts[a]}
    /\ pc[r] \in {"update", "insert", "commit"} =>
         \A i \in DOMAIN Legs(op[r]) :
           LET leg == Legs(op[r])[i]
           IN  copies[r][leg.account] = Expected(r, leg)
    /\ pc[r] # "publish" =>
         \A a \in Account : copies[r][a] # Nil => lock[a] = r
-----------------------------------------------------------------------------
\* Locks.

\* No requests wait for each other.  lockAccountsDeterministically ensures it
\* when all clients write ids in the canonical spelling.
NoDeadlock == \A R \in SUBSET Request : ~Deadlocked(R)

\* README.md:90: a transfer locks its accounts "dalam urutan deterministic": no
\* two of them take the same two rows in opposite orders.
DeterministicLockOrder ==
  \A r, u \in Request : \A a, b \in Account :
    a # b /\ lock[a] = r /\ lock[b] = u /\ Waiting(r) /\ Waiting(u) =>
      ~(Wanted(r) = b /\ Wanted(u) = a)

\* A connection and the rows' locks are held only by a request that is inside
\* WithinTx: whatever way it returns, they are given back.
NothingLeaks ==
  /\ \A a \in Account : lock[a] # Nil => lock[a] \in active
  /\ \A r \in Request :
       r \in active <=> pc[r] \in {"lock", "apply", "update", "insert", "commit"}

\* Every request that was admitted is answered: although requests may deadlock,
\* for the database then fails one of them, and although it may find all the
\* connections taken, for each is given back.
EveryRequestAnswered ==
  \A r \in Request : pc[r] = "begin" ~> pc[r] = "done"
-----------------------------------------------------------------------------
\* The concurrent handlers, statement by statement, do to the two tables what
\* module AtomicLedger does in single steps.
Atomic == INSTANCE AtomicLedger WITH accounts <- accounts, journal <- journal
ImplementsAtomicLedger == Atomic!Spec
=============================================================================
