--------------------------- MODULE LedgerInvariant ---------------------------
(***************************************************************************)
(* The inductive invariant behind the ledger's safety properties.  It says *)
(* of each request, from its program counter, which rows it has locked and *)
(* what its copies, its uncommitted writes and its uncommitted journal     *)
(* rows contain.  Nothing it says of one request depends on another one,   *)
(* except through the rows that request has locked.                         *)
(***************************************************************************)
EXTENDS LedgerProperties

Inside == {"lock", "apply", "update", "insert", "commit"}
Admitted == {"begin"} \cup Inside \cup {"publish"}

\* The legs of its operation are numbered from 1.
LegCount(r) == Len(Legs(op[r]))
AccountOf(r, i) == Legs(op[r])[i].account

\* Its input is one the handler accepted, and its leg is one of that input.
AdmittedInv(r) ==
  pc[r] \in Admitted =>
    /\ op[r] \in MoneyInput \cup TransferInput
    /\ ValidInput(op[r])
    /\ step[r] \in 1..LegCount(r)

\* What it has still to lock, and what it has locked.
LockingInv(r) ==
  /\ pc[r] = "begin" => queue[r] = Named(op[r])
  /\ pc[r] \in {"begin", "lock"} =>
       queue[r] # {} /\ queue[r] \subseteq Named(op[r])
  /\ pc[r] \in {"lock", "apply"} =>
       \A s \in Named(op[r]) : s \in queue[r] \/ copies[r][Denotes[s]] # Nil
  /\ pc[r] = "apply" => queue[r] = {}
  /\ pc[r] \in {"idle", "begin", "lock", "apply"} => step[r] = 1

\* It is inside WithinTx exactly as long as the database has it open, and only
\* then does it hold locks.
TransactionInv(r) ==
  /\ r \in active <=> pc[r] \in Inside
  /\ pc[r] \notin Inside => \A a \in Account : lock[a] # r
  /\ pc[r] \notin Inside \cup {"publish"} => copies[r] = NoCopies

\* Its copies are those of the rows it has locked, and fresh.
FreshInv(r) ==
  /\ pc[r] \in {"lock", "apply"} =>
       \A a \in Account : copies[r][a] \in {Nil, accounts[a]}
  /\ pc[r] \in {"update", "insert", "commit"} =>
       \A i \in 1..LegCount(r) :
         copies[r][AccountOf(r, i)] = Expected(r, Legs(op[r])[i])
  /\ pc[r] # "publish" =>
       \A a \in Account : copies[r][a] # Nil => lock[a] = r

\* After the checks, every leg has a locked row, and they are different rows.
LegsInv(r) ==
  pc[r] \in {"update", "insert", "commit", "publish"} =>
    \A i \in 1..LegCount(r) :
      /\ copies[r][AccountOf(r, i)] # Nil
      /\ \A j \in 1..LegCount(r) : AccountOf(r, i) = AccountOf(r, j) => i = j

\* How many legs it has updated: their balances passed the check of the table.
Updated(r) ==
  IF pc[r] = "update" THEN step[r] - 1
  ELSE IF pc[r] \in {"insert", "commit", "publish"} THEN LegCount(r)
  ELSE 0

WritesInv(r) ==
  /\ \A i \in 1..Updated(r) : copies[r][AccountOf(r, i)].balance \in 0..MaxInt
  /\ pc[r] \in {"update", "insert", "commit"} =>
       \A i \in 1..Updated(r) :
         writes[r][AccountOf(r, i)] = copies[r][AccountOf(r, i)].balance
  /\ \A a \in Account : writes[r][a] # Nil =>
       /\ pc[r] \in {"update", "insert", "commit"}
       /\ \E i \in 1..Updated(r) : AccountOf(r, i) = a

\* How many rows it has inserted, and which.
Inserted(r) ==
  IF pc[r] = "insert" THEN step[r] - 1
  ELSE IF pc[r] = "commit" THEN LegCount(r)
  ELSE 0

InsertsInv(r) ==
  /\ Len(inserts[r]) = Inserted(r)
  /\ \A i \in 1..Inserted(r) : inserts[r][i] = NewTransaction(r, i)
  /\ pc[r] \in {"insert", "commit", "publish"} =>
       \A i \in 1..LegCount(r) : stamp[r][i] \in Nat
  /\ pc[r] = "commit" => step[r] = 1

RequestInv(r) ==
  /\ AdmittedInv(r)
  /\ LockingInv(r)
  /\ TransactionInv(r)
  /\ FreshInv(r)
  /\ LegsInv(r)
  /\ WritesInv(r)
  /\ InsertsInv(r)

\* The rows that are locked exist; the type invariant; each request's part.
Inv ==
  /\ TypeOK
  /\ \A a \in Account : lock[a] # Nil => accounts[a] # Nil
  /\ \A r \in Request : RequestInv(r)
-----------------------------------------------------------------------------
\* What makes waiting acyclic when clients write ids in the canonical spelling: a request
\* holds only rows below those it has still to lock.
OrderInv ==
  \A r \in Request : pc[r] = "lock" =>
    \A a \in Account : lock[a] = r => \A s \in queue[r] : a < s
-----------------------------------------------------------------------------
\* What makes RunningBalance inductive together with Inv: an account that is yet
\* to be created has no history.
HistoryInv ==
  /\ RunningBalance
  /\ \A k \in 1..Len(journal) : accounts[journal[k].account] # Nil
  /\ \A a \in Account : Opening[a] # Nil => accounts[a] # Nil
-----------------------------------------------------------------------------
\* What ties requests to the journal: when their rows are there, what was checked
\* before, and when.

Refusals == {"created", "bad_request", "forbidden", "not_found", "conflict"}

IsIn(row) == \E k \in 1..Len(journal) : journal[k] = row

\* It has rows only once it has committed, and then all of them; its copies go on telling
\* whose the accounts are.
OutcomeInv(r) ==
  /\ pc[r] # "done" => reply[r] = "none"
  /\ pc[r] \in {"idle", "begin"} \cup Inside \/ reply[r] \in Refusals =>
       \A k \in 1..Len(journal) : journal[k].id[1] # r
  /\ pc[r] = "publish" =>
       \A i \in 1..LegCount(r) :
         /\ IsIn(NewTransaction(r, i))
         /\ accounts[AccountOf(r, i)].owner = copies[r][AccountOf(r, i)].owner
  /\ reply[r] = "ok" => Complete(r)

\* Its checks of access and currency hold of its copies.
CheckedInv(r) ==
  pc[r] \in {"update", "insert", "commit"} =>
    /\ CanAccess(op[r].actor, copies[r][AccountOf(r, 1)])
    /\ op[r].kind = "transfer" =>
         copies[r][AccountOf(r, 1)].currency = copies[r][AccountOf(r, 2)].currency

\* Its rows are stamped, while it holds their accounts, not before any row of theirs.
StampInv(r) ==
  pc[r] \in {"insert", "commit"} =>
    \A i \in 1..LegCount(r) :
      /\ stamp[r][i] <= clock
      /\ \A j \in 1..i : stamp[r][j] <= stamp[r][i]
      /\ \A k \in 1..Len(journal) :
           journal[k].account = AccountOf(r, i) => journal[k].at <= stamp[r][i]

EventInv(e) ==
  /\ IsIn(e.transaction)
  /\ e.balance = e.transaction.after
  /\ e.owner = accounts[e.transaction.account].owner
  /\ e.operation = "transfer" <=> e.transaction.counterparty # Nil

JournalInv ==
  /\ clock <= MaxClock
  /\ \A k \in 1..Len(journal) : journal[k].at <= clock
  /\ \A r \in Request : OutcomeInv(r) /\ CheckedInv(r) /\ StampInv(r)
  /\ \A e \in published : EventInv(e)
=============================================================================
