--------------------------- MODULE RefinementProofs ---------------------------
(***************************************************************************)
(* Proof, for every instance of the ledger, that the journal explains the  *)
(* balances (RunningBalance), that answers and events tell of committed    *)
(* rows, and that the concurrent handlers implement the atomic ledger;     *)
(* and, from that, that the rows of the journal are in order, paired and   *)
(* authorised, and the money of every currency is accounted for.           *)
(***************************************************************************)
EXTENDS LedgerProofs, FiniteSetTheorems

\* The balance after k rows is that of row k, or, if row k is about another
\* account, the balance after k - 1 rows.
LEMMA BalanceAtNext ==
  ASSUME NEW rows, NEW a, NEW k \in Nat, k # 0
  PROVE  BalanceAt(rows, a, k) =
           IF rows[k].account = a THEN rows[k].after ELSE BalanceAt(rows, a, k - 1)
<1>1. CASE rows[k].account = a
  <2>1. IsLatest(rows, a, k, k)
    BY <1>1 DEF IsLatest
  <2>2. \A i \in 1..k : IsLatest(rows, a, k, i) => i = k
    BY <1>1 DEF IsLatest
  <2> QED BY <1>1, <2>1, <2>2 DEF BalanceAt
<1>2. CASE rows[k].account # a
  <2>1. \A i : i \in 1..k /\ IsLatest(rows, a, k, i)
               <=> i \in 1..(k - 1) /\ IsLatest(rows, a, k - 1, i)
    <3>1. ASSUME NEW i, IsLatest(rows, a, k, i)
          PROVE  i \in 1..(k - 1) /\ IsLatest(rows, a, k - 1, i)
      <4>1. i # k /\ i \in 1..k
        BY <1>2, <3>1 DEF IsLatest
      <4> QED BY <3>1, <4>1 DEF IsLatest
    <3>2. ASSUME NEW i, IsLatest(rows, a, k - 1, i)
          PROVE  i \in 1..k /\ IsLatest(rows, a, k, i)
      <4>1. \A j \in 1..k : j = k \/ j \in 1..(k - 1)
        OBVIOUS
      <4> QED BY <1>2, <3>2, <4>1 DEF IsLatest
    <3> QED BY <3>1, <3>2
  <2>2. (\E i \in 1..k : IsLatest(rows, a, k, i))
          <=> \E i \in 1..(k - 1) : IsLatest(rows, a, k - 1, i)
    BY <2>1
  <2>3. (CHOOSE i \in 1..k : IsLatest(rows, a, k, i))
          = CHOOSE i \in 1..(k - 1) : IsLatest(rows, a, k - 1, i)
    BY <2>1
  <2> QED BY <1>2, <2>2, <2>3 DEF BalanceAt
<1> QED BY <1>1, <1>2

\* It depends on those k rows only.
LEMMA BalanceAtPrefix ==
  ASSUME NEW rows, NEW more, NEW a, NEW k \in Nat,
         \A i \in 1..k : more[i] = rows[i]
  PROVE  BalanceAt(more, a, k) = BalanceAt(rows, a, k)
<1>1. \A i \in 1..k : IsLatest(more, a, k, i) <=> IsLatest(rows, a, k, i)
  BY DEF IsLatest
<1>2. (CHOOSE i \in 1..k : IsLatest(more, a, k, i))
        = CHOOSE i \in 1..k : IsLatest(rows, a, k, i)
  BY <1>1
<1>3. CASE \E i \in 1..k : IsLatest(rows, a, k, i)
  <2>1. (CHOOSE i \in 1..k : IsLatest(rows, a, k, i)) \in 1..k
    BY <1>3
  <2> QED BY <1>1, <1>2, <1>3, <2>1 DEF BalanceAt
<1>4. CASE ~\E i \in 1..k : IsLatest(rows, a, k, i)
  BY <1>1, <1>4 DEF BalanceAt
<1> QED BY <1>3, <1>4
-----------------------------------------------------------------------------
\* What a request has done when it comes to COMMIT: one or two rows, on different
\* accounts, each with the committed balance of its account, moved.
LEMMA CommittedRows ==
  ASSUME Inv, NEW r \in Request, pc[r] = "commit"
  PROVE  /\ inserts[r] \in Seq(TransactionRow)
         /\ Len(inserts[r]) \in {1, 2}
         /\ \A i \in 1..Len(inserts[r]) :
              LET row == inserts[r][i]
              IN  /\ row.account \in Account
                  /\ accounts[row.account] \in AccountRow
                  /\ row.after = accounts[row.account].balance + Signed(row)
                  /\ writes[r][row.account] = row.after
                  /\ \A j \in 1..Len(inserts[r]) :
                       inserts[r][j].account = row.account => i = j
         /\ \A a \in Written(r) :
              \E i \in 1..Len(inserts[r]) : inserts[r][i].account = a
<1>0. RequestInv(r)
  BY DEF Inv
<1>1. /\ LegCount(r) \in {1, 2}
      /\ op[r].amount \in 1..MaxInt
      /\ \A i \in 1..LegCount(r) :
           AccountOf(r, i) \in Account /\ Legs(op[r])[i].type \in TransactionType
  BY AdmittedFacts DEF Admitted, Inside
<1>2. /\ Len(inserts[r]) = LegCount(r)
      /\ \A i \in 1..LegCount(r) : inserts[r][i] = NewTransaction(r, i)
      /\ Updated(r) = LegCount(r)
  BY <1>0 DEF RequestInv, InsertsInv, Inserted, Updated
<1>3. ASSUME NEW i \in 1..LegCount(r)
      PROVE  /\ inserts[r][i].account = AccountOf(r, i)
             /\ inserts[r][i].after = copies[r][AccountOf(r, i)].balance
             /\ Signed(inserts[r][i]) = Change(Legs(op[r])[i].type, op[r].amount)
  <2>1. inserts[r][i] = NewTransaction(r, i)
    BY <1>2
  <2>2. /\ NewTransaction(r, i).account = AccountOf(r, i)
        /\ NewTransaction(r, i).after = copies[r][AccountOf(r, i)].balance
        /\ NewTransaction(r, i).type = Legs(op[r])[i].type
        /\ NewTransaction(r, i).amount = op[r].amount
    BY DEF NewTransaction, AccountOf
  <2> HIDE DEF NewTransaction
  <2> QED BY <2>1, <2>2 DEF Signed
<1>4. ASSUME NEW i \in 1..LegCount(r)
      PROVE  /\ accounts[AccountOf(r, i)] \in AccountRow
             /\ copies[r][AccountOf(r, i)].balance
                  = accounts[AccountOf(r, i)].balance
                      + Change(Legs(op[r])[i].type, op[r].amount)
  <2> DEFINE row == accounts[AccountOf(r, i)]
             change == Change(Legs(op[r])[i].type, op[r].amount)
  <2>1. copies[r][AccountOf(r, i)] # Nil /\ lock[AccountOf(r, i)] = r
    BY <1>0, <1>1 DEF RequestInv, LegsInv, FreshInv
  <2>2. row \in AccountRow
    BY <1>1, <2>1, NilIsNothingElse DEF Inv, TypeOK, PostgresTypeOK
  <2>3. copies[r][AccountOf(r, i)] = Expected(r, Legs(op[r])[i])
    BY <1>0 DEF RequestInv, FreshInv
  <2>4. copies[r][AccountOf(r, i)].balance = Wrap(row.balance + change)
    BY <2>2, <2>3 DEF Expected, AccountOf, AccountRow
  <2>5. copies[r][AccountOf(r, i)].balance \in 0..MaxInt
    BY <1>0, <1>2 DEF RequestInv, WritesInv
  <2>6. change \in Int /\ change <= MaxInt /\ row.balance \in 0..MaxInt
    BY <1>1, <2>2, MaxIntAssumption DEF Change, AccountRow, MaxIntAssumption
  <2> HIDE DEF row, change
  <2>7. Wrap(row.balance + change) = row.balance + change
    BY <2>4, <2>5, <2>6, MaxIntAssumption DEF Wrap, MaxIntAssumption
  <2> QED BY <2>2, <2>4, <2>7 DEF row, change
<1>5. ASSUME NEW i \in 1..LegCount(r)
      PROVE  /\ writes[r][AccountOf(r, i)] = copies[r][AccountOf(r, i)].balance
             /\ \A j \in 1..LegCount(r) : AccountOf(r, j) = AccountOf(r, i) => i = j
  BY <1>0, <1>2 DEF RequestInv, WritesInv, LegsInv
<1>6. ASSUME NEW a \in Written(r)
      PROVE  \E i \in 1..LegCount(r) : inserts[r][i].account = a
  BY <1>0, <1>2, <1>3 DEF RequestInv, WritesInv, Written
<1>7. inserts[r] \in Seq(TransactionRow)
  BY DEF Inv, TypeOK, PostgresTypeOK
<1> QED BY <1>1, <1>2, <1>3, <1>4, <1>5, <1>6, <1>7

\* COMMIT preserves the history: its rows follow the balances they find.
LEMMA CommitKeepsHistory ==
  ASSUME Inv, HistoryInv, NEW r \in Request, pc[r] = "commit", CommitTx(r)
  PROVE  HistoryInv'
<1> DEFINE n == Len(journal)
           m == Len(inserts[r])
           rows == inserts[r]
           all == journal \o inserts[r]
<1>1. /\ journal \in Seq(TransactionRow) /\ rows \in Seq(TransactionRow)
      /\ n \in Nat /\ m \in {1, 2}
      /\ journal' = all
  BY CommittedRows DEF Inv, TypeOK, PostgresTypeOK, CommitTx
<1>2. /\ Len(all) = n + m
      /\ \A k \in 1..n : all[k] = journal[k]
      /\ \A i \in 1..m : all[n + i] = rows[i]
  BY <1>1
<1>3. ASSUME NEW i \in 1..m
      PROVE  /\ rows[i] \in TransactionRow
             /\ rows[i].account \in Account
             /\ accounts[rows[i].account] \in AccountRow
             /\ accounts[rows[i].account] # Nil
             /\ rows[i].after = accounts[rows[i].account].balance + Signed(rows[i])
             /\ writes[r][rows[i].account] = rows[i].after
             /\ rows[i].account \in Written(r)
             /\ \A j \in 1..m : rows[j].account = rows[i].account => i = j
  <2>1. /\ rows[i].account \in Account
        /\ accounts[rows[i].account] \in AccountRow
        /\ rows[i].after = accounts[rows[i].account].balance + Signed(rows[i])
        /\ writes[r][rows[i].account] = rows[i].after
        /\ \A j \in 1..m : rows[j].account = rows[i].account => i = j
    BY CommittedRows
  <2>2. accounts[rows[i].account] # Nil
    BY <2>1, NilIsNothingElse DEF AccountRow, AccountCopy
  <2>3. rows[i] \in TransactionRow
    BY <1>1
  <2>4. rows[i].after # Nil
    BY <2>3, NilIsNothingElse DEF TransactionRow
  <2> QED BY <2>1, <2>2, <2>3, <2>4 DEF Written
<1>4. \A a \in Written(r) : \E i \in 1..m : rows[i].account = a
  BY CommittedRows
<1>5. ASSUME NEW a \in Account
      PROVE  /\ accounts'[a] # Nil <=> accounts[a] # Nil
             /\ a \notin Written(r) => accounts'[a] = accounts[a]
             /\ a \in Written(r) => accounts'[a].balance = writes[r][a]
  <2>1. CASE a \in Written(r)
    <3>1. PICK i \in 1..m : rows[i].account = a
      BY <1>4, <2>1
    <3>2. accounts[a] \in AccountRow /\ accounts[a] # Nil /\ writes[r][a] \in 0..MaxInt
      BY <1>3, <3>1 DEF TransactionRow
    <3>3. accounts'[a] = [accounts[a] EXCEPT !.balance = writes[r][a]]
      BY <2>1 DEF CommitTx
    <3>4. accounts'[a] \in AccountRow /\ accounts'[a].balance = writes[r][a]
      BY <3>2, <3>3 DEF AccountRow
    <3>5. accounts'[a] # Nil
      BY <3>4, NilIsNothingElse DEF AccountRow, AccountCopy
    <3> QED BY <2>1, <3>2, <3>4, <3>5
  <2>2. CASE a \notin Written(r)
    BY <2>2 DEF CommitTx
  <2> QED BY <2>1, <2>2
<1>6. \A k \in 1..n : journal[k].account \in Account /\ accounts[journal[k].account] # Nil
  <2>1. \A k \in 1..n : journal[k] \in TransactionRow
    BY <1>1
  <2> QED BY <2>1 DEF HistoryInv, TransactionRow
<1> HIDE DEF n, m, rows, all
<1>7. \A a \in Account : BalanceAt(all, a, n) = BalanceAt(journal, a, n)
  BY <1>1, <1>2, BalanceAtPrefix
<1>8. ASSUME NEW i \in 1..m
      PROVE  BalanceAt(all, rows[i].account, n + i - 1) = accounts[rows[i].account].balance
  <2>1. BalanceAt(all, rows[i].account, n) = accounts[rows[i].account].balance
    BY <1>3, <1>7 DEF HistoryInv, RunningBalance, n
  <2>2. CASE i = 1
    BY <1>1, <2>1, <2>2
  <2>3. CASE i = 2
    <3>1. m = 2 /\ n + 1 \in Nat /\ n + 1 # 0
      BY <1>1, <2>3
    <3>2. all[n + 1] = rows[1] /\ rows[1].account # rows[i].account
      BY <1>2, <1>3, <2>3, <3>1
    <3>3. BalanceAt(all, rows[i].account, n + 1)
            = BalanceAt(all, rows[i].account, (n + 1) - 1)
      BY <3>1, <3>2, BalanceAtNext
    <3>4. (n + 1) - 1 = n /\ n + i - 1 = n + 1
      BY <1>1, <2>3
    <3> QED BY <2>1, <3>3, <3>4
  <2> QED BY <1>1, <2>2, <2>3
<1>9. ASSUME NEW k \in 1..(n + m)
      PROVE  /\ all[k].after = BalanceAt(all, all[k].account, k - 1) + Signed(all[k])
             /\ accounts'[all[k].account] # Nil
  <2>1. CASE k \in 1..n
    <3>1. all[k] = journal[k] /\ k - 1 \in Nat /\ \A i \in 1..(k - 1) : i \in 1..n
      BY <1>1, <2>1, <1>2
    <3>2. BalanceAt(all, all[k].account, k - 1) = BalanceAt(journal, all[k].account, k - 1)
      BY <1>2, <3>1, BalanceAtPrefix
    <3> QED BY <1>5, <1>6, <2>1, <3>1, <3>2 DEF HistoryInv, RunningBalance, n
  <2>2. CASE k \notin 1..n
    <3>1. PICK i \in 1..m : k = n + i
      <4>1. k - n \in 1..m /\ k = n + (k - n)
        BY <1>1, <2>2
      <4> QED BY <4>1
    <3>2. all[k] = rows[i] /\ k - 1 = n + i - 1
      BY <1>1, <1>2, <3>1
    <3> QED BY <1>3, <1>5, <1>8, <3>2
  <2> QED BY <2>1, <2>2
<1>10. ASSUME NEW a \in Account, accounts'[a] # Nil
       PROVE  accounts'[a].balance = BalanceAt(all, a, n + m)
  <2>0. /\ n + m \in Nat /\ n + m # 0
        /\ all[n + m] = rows[m] /\ m \in 1..m
    BY <1>1, <1>2
  <2>1. BalanceAt(all, a, n + m) =
          IF rows[m].account = a THEN rows[m].after ELSE BalanceAt(all, a, n + m - 1)
    <3>1. BalanceAt(all, a, n + m) =
            IF all[n + m].account = a THEN all[n + m].after
            ELSE BalanceAt(all, a, (n + m) - 1)
      BY <2>0, BalanceAtNext
    <3>2. (n + m) - 1 = n + m - 1
      BY <1>1
    <3> QED BY <2>0, <3>1, <3>2
  <2>2. m = 2 => BalanceAt(all, a, n + 1) =
          IF rows[1].account = a THEN rows[1].after ELSE BalanceAt(all, a, n)
    <3>1. ASSUME m = 2
          PROVE  /\ n + 1 \in Nat /\ n + 1 # 0 /\ all[n + 1] = rows[1]
                 /\ (n + 1) - 1 = n
      BY <1>1, <1>2, <3>1
    <3>2. ASSUME m = 2
          PROVE  BalanceAt(all, a, n + 1) =
                   IF all[n + 1].account = a THEN all[n + 1].after
                   ELSE BalanceAt(all, a, (n + 1) - 1)
      BY <3>1, <3>2, BalanceAtNext
    <3> QED BY <3>1, <3>2
  <2>3. CASE a \in Written(r)
    <3>1. PICK i \in 1..m : rows[i].account = a
      BY <1>4, <2>3
    <3>2. accounts'[a].balance = rows[i].after
      BY <1>3, <1>5, <2>3, <3>1
    <3>3. CASE i = m
      BY <2>1, <3>1, <3>2, <3>3
    <3>4. CASE i # m
      <4>1. m = 2 /\ i = 1 /\ n + m - 1 = n + 1 /\ rows[m].account # a
        BY <1>1, <1>3, <2>0, <3>1, <3>4
      <4> QED BY <2>1, <2>2, <3>1, <3>2, <4>1
    <3> QED BY <3>3, <3>4
  <2>4. CASE a \notin Written(r)
    <3>1. \A i \in 1..m : rows[i].account # a
      BY <1>3, <2>4
    <3>2. accounts'[a].balance = BalanceAt(all, a, n)
      BY <1>5, <1>7, <1>10, <2>4 DEF HistoryInv, RunningBalance, n
    <3>3. CASE m = 1
      <4>1. n + m - 1 = n
        BY <1>1, <3>3
      <4> QED BY <2>0, <2>1, <3>1, <3>2, <4>1
    <3>4. CASE m = 2
      <4>1. n + m - 1 = n + 1 /\ 1 \in 1..m
        BY <1>1, <3>4
      <4> QED BY <2>0, <2>1, <2>2, <3>1, <3>2, <3>4, <4>1
    <3> QED BY <1>1, <3>3, <3>4
  <2> QED BY <2>3, <2>4
<1>11. RunningBalance'
  BY <1>1, <1>2, <1>9, <1>10 DEF RunningBalance
<1>12. \A a \in Account : Opening[a] # Nil => accounts'[a] # Nil
  BY <1>5 DEF HistoryInv
<1> QED BY <1>1, <1>2, <1>9, <1>11, <1>12 DEF HistoryInv
-----------------------------------------------------------------------------
\* So does a step that changes neither table.
LEMMA OtherStepsKeepHistory ==
  ASSUME HistoryInv, UNCHANGED <<accounts, journal>>
  PROVE  HistoryInv'
BY DEF HistoryInv, RunningBalance

\* And the opening of an account, which has no history yet and holds nothing.
LEMMA CreateAccountKeepsHistory ==
  ASSUME Inv, HistoryInv, NEW r \in Request, CreateAccount(r)
  PROVE  HistoryInv'
<1>1. CASE UNCHANGED dbVars
  BY <1>1, OtherStepsKeepHistory DEF dbVars
<1>2. CASE \E x \in Account, u \in User, c \in Currency :
             /\ accounts[x] = Nil
             /\ accounts' = [accounts EXCEPT
                               ![x] = [owner |-> u, currency |-> c, balance |-> 0]]
             /\ journal' = journal
  <2>1. PICK x \in Account, u \in User, c \in Currency :
             /\ accounts[x] = Nil
             /\ accounts' = [accounts EXCEPT
                               ![x] = [owner |-> u, currency |-> c, balance |-> 0]]
             /\ journal' = journal
    BY <1>2
  <2>2. /\ accounts'[x].balance = 0 /\ accounts'[x] # Nil
        /\ \A a \in Account : a # x => accounts'[a] = accounts[a]
    <3>1. accounts'[x] = [owner |-> u, currency |-> c, balance |-> 0]
      BY <2>1 DEF Inv, TypeOK, PostgresTypeOK
    <3>2. accounts'[x] \in AccountCopy
      BY <3>1 DEF AccountCopy
    <3> QED BY <2>1, <3>1, <3>2, NilIsNothingElse DEF Inv, TypeOK, PostgresTypeOK
  <2>3. \A k \in 1..Len(journal) :
          journal[k].account \in Account /\ journal[k].account # x
    <3>1. \A k \in 1..Len(journal) : journal[k] \in TransactionRow
      BY DEF Inv, TypeOK, PostgresTypeOK
    <3> QED BY <2>1, <3>1 DEF HistoryInv, TransactionRow
  <2>4. BalanceAt(journal, x, Len(journal)) = 0
    <3>1. Opening[x] = Nil
      BY <2>1 DEF HistoryInv
    <3>2. ~\E i \in 1..Len(journal) : IsLatest(journal, x, Len(journal), i)
      BY <2>3 DEF IsLatest
    <3> QED BY <3>1, <3>2 DEF BalanceAt, OpeningBalance
  <2>5. RunningBalance'
    <3>1. \A a \in Account : accounts'[a] # Nil =>
            accounts'[a].balance = BalanceAt(journal, a, Len(journal))
      BY <2>2, <2>4 DEF HistoryInv, RunningBalance
    <3>2. \A k \in 1..Len(journal) : journal[k].after
            = BalanceAt(journal, journal[k].account, k - 1) + Signed(journal[k])
      BY DEF HistoryInv, RunningBalance
    <3> QED BY <2>1, <3>1, <3>2 DEF RunningBalance
  <2> QED BY <2>1, <2>2, <2>3, <2>5 DEF HistoryInv
<1>3. UNCHANGED dbVars \/ \E x \in Account, u \in User, c \in Currency :
             /\ accounts[x] = Nil
             /\ accounts' = [accounts EXCEPT
                               ![x] = [owner |-> u, currency |-> c, balance |-> 0]]
             /\ journal' = journal
  BY ActorAssumption DEF CreateAccount, InsertAccount, ActorAssumption
<1> QED BY <1>1, <1>2, <1>3

\* A request changes the tables only by COMMIT.
LEMMA OnlyCommitChangesTables ==
  ASSUME NEW r \in Request,
         Advance(r) \/ Receive(r) \/ CommitUnacknowledged(r) \/ StatementFails(r)
           \/ BreakDeadlock(r)
  PROVE  \/ UNCHANGED <<accounts, journal>>
         \/ pc[r] = "commit" /\ CommitTx(r)
<1>1. ASSUME NEW status, Fail(r, status)
      PROVE  UNCHANGED <<accounts, journal>>
  BY <1>1 DEF Fail, RollbackTx
<1>2. CASE Begin(r) \/ LockAccount(r)
  BY <1>1, <1>2 DEF Begin, BeginTx, LockAccount, LockRow
<1>3. CASE Deposit(r) \/ Withdraw(r) \/ Transfer(r)
  BY <1>1, <1>3 DEF Deposit, Withdraw, Transfer, ApplyTo, dbVars
<1>4. CASE UpdateAccountBalance(r)
  BY <1>1, <1>4 DEF UpdateAccountBalance, UpdateRow
<1>5. CASE CreateTransaction(r) \/ Publish(r)
  BY <1>5 DEF CreateTransaction, InsertRow, Publish
<1>6. CASE Commit(r) \/ CommitUnacknowledged(r)
  BY <1>6 DEF Commit, CommitUnacknowledged
<1>7. CASE Receive(r) \/ StatementFails(r) \/ BreakDeadlock(r)
  BY <1>1, <1>7 DEF Receive, StatementFails, BreakDeadlock, dbVars
<1> QED BY <1>2, <1>3, <1>4, <1>5, <1>6, <1>7 DEF Advance

\* Every step of the ledger preserves the history.
LEMMA NextKeepsHistory ==
  ASSUME Inv, HistoryInv, [Next]_vars
  PROVE  HistoryInv'
<1>1. ASSUME NEW r \in Request,
             Advance(r) \/ Receive(r) \/ CommitUnacknowledged(r) \/ StatementFails(r)
               \/ BreakDeadlock(r)
      PROVE  HistoryInv'
  BY <1>1, OnlyCommitChangesTables, CommitKeepsHistory, OtherStepsKeepHistory
<1>2. ASSUME NEW r \in Request, CreateAccount(r)
      PROVE  HistoryInv'
  BY <1>2, CreateAccountKeepsHistory
<1>3. CASE Crash \/ Tick \/ AllDone \/ UNCHANGED vars
  <2>1. UNCHANGED <<accounts, journal>>
    BY <1>3 DEF Crash, RollbackTx, Tick, AllDone, vars, dbVars
  <2> QED BY <2>1, OtherStepsKeepHistory
<1> QED BY <1>1, <1>2, <1>3 DEF Next

\* When the service starts the journal is empty and the balances are the opening
\* ones.
LEMMA InitHistory == Init => HistoryInv
<1> SUFFICES ASSUME Init
             PROVE  HistoryInv
  OBVIOUS
<1>1. accounts = Opening /\ journal = <<>> /\ Len(journal) = 0
  BY DEF Init, PostgresInit
<1>2. \A i \in 1..0 : FALSE
  OBVIOUS
<1>3. \A a \in Account : BalanceAt(journal, a, 0) = OpeningBalance(a)
  BY <1>2 DEF BalanceAt
<1> QED BY <1>1, <1>2, <1>3 DEF HistoryInv, RunningBalance, OpeningBalance

\* The journal explains every balance: each row's balance_after_cents is the
\* previous balance of its account moved by its amount, and the account holds the
\* last, for any number of concurrent requests and whichever of them fail.
THEOREM JournalExplainsBalances == Spec => []RunningBalance
<1>1. Inv /\ HistoryInv /\ [Next]_vars => HistoryInv'
  BY NextKeepsHistory
<1>2. HistoryInv => RunningBalance
  BY DEF HistoryInv
<1> QED BY <1>1, <1>2, InitHistory, InvHolds, PTL DEF Spec
-----------------------------------------------------------------------------
\* The refinement: what requests know of the journal, and what a commit does to it.

\* A committed row is one of the table, of an account that exists.
LEMMA CommittedRowFacts ==
  ASSUME Inv, HistoryInv, NEW k \in 1..Len(journal)
  PROVE  /\ journal[k] \in TransactionRow
         /\ journal[k].account \in Account
         /\ accounts[journal[k].account] # Nil
         /\ accounts[journal[k].account] \in AccountRow
         /\ journal[k].at \in Nat
<1>1. journal[k] \in TransactionRow
  BY DEF Inv, TypeOK, PostgresTypeOK
<1>2. journal[k].account \in Account /\ journal[k].at \in Nat
  BY <1>1 DEF TransactionRow
<1>3. accounts[journal[k].account] # Nil
  BY DEF HistoryInv
<1>4. accounts[journal[k].account] \in AccountRow
  BY <1>2, <1>3 DEF Inv, TypeOK, PostgresTypeOK
<1> QED BY <1>1, <1>2, <1>3, <1>4

\* COMMIT appends the rows of the request's legs.
LEMMA CommitAppends ==
  ASSUME Inv, NEW r \in Request, pc[r] = "commit", CommitTx(r)
  PROVE  /\ LegCount(r) \in {1, 2}
         /\ inserts[r] \in Seq(TransactionRow)
         /\ Len(inserts[r]) = LegCount(r)
         /\ \A i \in 1..LegCount(r) : inserts[r][i] = NewTransaction(r, i)
         /\ journal \in Seq(TransactionRow)
         /\ journal' = journal \o inserts[r]
         /\ Len(journal') = Len(journal) + LegCount(r)
         /\ \A k \in 1..Len(journal) : journal'[k] = journal[k]
         /\ \A i \in 1..LegCount(r) : journal'[Len(journal) + i] = NewTransaction(r, i)
         /\ \A k \in 1..Len(journal') :
              k \in 1..Len(journal) \/ \E i \in 1..LegCount(r) : k = Len(journal) + i
<1>1. LegCount(r) \in {1, 2}
  BY AdmittedFacts DEF Admitted, Inside
<1>2. /\ inserts[r] \in Seq(TransactionRow) /\ journal \in Seq(TransactionRow)
      /\ journal' = journal \o inserts[r]
  BY DEF Inv, TypeOK, PostgresTypeOK, CommitTx
<1>3. /\ Len(inserts[r]) = LegCount(r)
      /\ \A i \in 1..LegCount(r) : inserts[r][i] = NewTransaction(r, i)
  BY DEF Inv, RequestInv, InsertsInv, Inserted
<1> DEFINE n == Len(journal)
           m == LegCount(r)
<1>4. n \in Nat /\ m \in {1, 2}
  BY <1>1, <1>2
<1>5. /\ Len(journal') = n + m
      /\ \A k \in 1..n : journal'[k] = journal[k]
      /\ \A i \in 1..m : journal'[n + i] = inserts[r][i]
  BY <1>1, <1>2, <1>3
<1> HIDE DEF n, m
<1>6. ASSUME NEW k \in 1..(n + m), k \notin 1..n
      PROVE  \E i \in 1..m : k = n + i
  <2>1. k - n \in 1..m /\ k = n + (k - n)
    BY <1>4, <1>6
  <2> QED BY <2>1
<1> QED BY <1>1, <1>2, <1>3, <1>5, <1>6 DEF n, m

\* And it moves the balances of their accounts, which the request has locked, as it
\* had computed them, without a wrap.
LEMMA CommitMoves ==
  ASSUME Inv, NEW r \in Request, pc[r] = "commit", CommitTx(r)
  PROVE  /\ \A i \in 1..LegCount(r) :
              LET a == AccountOf(r, i)
                  after == accounts[a].balance + Change(Legs(op[r])[i].type, op[r].amount)
              IN  /\ a \in Account /\ lock[a] = r
                  /\ accounts[a] # Nil /\ accounts[a] \in AccountRow
                  /\ after \in 0..MaxInt
                  /\ copies[r][a] = [accounts[a] EXCEPT !.balance = after]
                  /\ accounts'[a] = [accounts[a] EXCEPT !.balance = after]
                  /\ accounts'[a] = copies[r][a]
                  /\ \A j \in 1..LegCount(r) : AccountOf(r, j) = a => i = j
         /\ \A a \in Account :
              (\A i \in 1..LegCount(r) : AccountOf(r, i) # a) => accounts'[a] = accounts[a]
<1>0. RequestInv(r)
  BY DEF Inv
<1>1. /\ LegCount(r) \in {1, 2}
      /\ op[r].amount \in 1..MaxInt
      /\ \A i \in 1..LegCount(r) :
           AccountOf(r, i) \in Account /\ Legs(op[r])[i].type \in TransactionType
  BY AdmittedFacts DEF Admitted, Inside
<1>2. Updated(r) = LegCount(r)
  BY DEF Updated
<1>3. ASSUME NEW i \in 1..LegCount(r)
      PROVE  LET a == AccountOf(r, i)
                 after == accounts[a].balance + Change(Legs(op[r])[i].type, op[r].amount)
             IN  /\ a \in Account /\ lock[a] = r
                 /\ accounts[a] # Nil /\ accounts[a] \in AccountRow
                 /\ after \in 0..MaxInt
                 /\ copies[r][a] = [accounts[a] EXCEPT !.balance = after]
                 /\ accounts'[a] = [accounts[a] EXCEPT !.balance = after]
                 /\ accounts'[a] = copies[r][a]
                 /\ \A j \in 1..LegCount(r) : AccountOf(r, j) = a => i = j
  <2> DEFINE a == AccountOf(r, i)
             change == Change(Legs(op[r])[i].type, op[r].amount)
             after == accounts[a].balance + change
  <2>1. /\ copies[r][a] # Nil /\ lock[a] = r /\ a \in Account
        /\ \A j \in 1..LegCount(r) : AccountOf(r, j) = a => i = j
    BY <1>0, <1>1 DEF RequestInv, LegsInv, FreshInv
  <2>2. accounts[a] # Nil /\ accounts[a] \in AccountRow
    BY <2>1, NilIsNothingElse DEF Inv, TypeOK, PostgresTypeOK
  <2>3. copies[r][a] = [accounts[a] EXCEPT !.balance = Wrap(@ + change)]
    BY <1>0 DEF RequestInv, FreshInv, Expected, AccountOf
  <2>4. /\ copies[r][a].balance \in 0..MaxInt
        /\ writes[r][a] = copies[r][a].balance
    BY <1>0, <1>2 DEF RequestInv, WritesInv
  <2>5. copies[r][a].balance = Wrap(after)
    BY <2>2, <2>3 DEF AccountRow
  <2>6. change \in Int /\ change <= MaxInt /\ accounts[a].balance \in 0..MaxInt
    BY <1>1, <2>2, MaxIntAssumption DEF Change, AccountRow, MaxIntAssumption
  <2>7. Wrap(after) = after
    BY <2>4, <2>5, <2>6, MaxIntAssumption DEF Wrap, MaxIntAssumption
  <2>8. accounts'[a] = [accounts[a] EXCEPT !.balance = writes[r][a]]
    <3>1. writes[r][a] # Nil
      BY <2>4, NilIsNothingElse
    <3> QED BY <2>1, <3>1 DEF CommitTx, Written
  <2>9. after \in 0..MaxInt /\ copies[r][a] = [accounts[a] EXCEPT !.balance = after]
    BY <2>3, <2>4, <2>5, <2>7
  <2>10. accounts'[a] = [accounts[a] EXCEPT !.balance = after]
    BY <2>4, <2>5, <2>7, <2>8
  <2> QED BY <2>1, <2>2, <2>9, <2>10
<1>4. ASSUME NEW a \in Account, \A i \in 1..LegCount(r) : AccountOf(r, i) # a
      PROVE  accounts'[a] = accounts[a]
  <2>1. a \notin Written(r)
    BY <1>0, <1>2, <1>4 DEF RequestInv, WritesInv, Written
  <2> QED BY <2>1 DEF CommitTx
<1> QED BY <1>3, <1>4
-----------------------------------------------------------------------------
\* A step keeps the rows of the journal and the owners of the accounts.
Grows ==
  /\ Len(journal') \in Nat
  /\ Len(journal) <= Len(journal')
  /\ \A k \in 1..Len(journal) : journal'[k] = journal[k]
  /\ \A a \in Account : accounts[a] # Nil => accounts'[a].owner = accounts[a].owner

\* The rows it adds are of requests of R, which hold the rows' accounts.
AddsRowsOf(R) ==
  \A k \in 1..Len(journal') :
    \/ k \in 1..Len(journal)
    \/ /\ journal'[k].id[1] \in R
       /\ lock[journal'[k].account] \in R
       /\ journal'[k].at \in 0..clock

\* It leaves request u alone.
Same(u) ==
  /\ pc'[u] = pc[u] /\ op'[u] = op[u] /\ copies'[u] = copies[u]
  /\ step'[u] = step[u] /\ stamp'[u] = stamp[u] /\ reply'[u] = reply[u]

TimeGoesOn == clock' \in Nat /\ clock <= clock' /\ clock' <= MaxClock

RequestOutcome(r) == OutcomeInv(r) /\ CheckedInv(r) /\ StampInv(r)

LEMMA SameTablesGrow ==
  ASSUME Inv, UNCHANGED <<accounts, journal>>
  PROVE  Grows /\ AddsRowsOf({})
BY DEF Grows, AddsRowsOf, Inv, TypeOK, PostgresTypeOK

LEMMA CommitGrows ==
  ASSUME Inv, JournalInv, NEW r \in Request, pc[r] = "commit", CommitTx(r)
  PROVE  Grows /\ AddsRowsOf({r})
<1>1. Len(journal) \in Nat /\ LegCount(r) \in {1, 2}
      /\ Len(journal') = Len(journal) + LegCount(r)
      /\ \A k \in 1..Len(journal) : journal'[k] = journal[k]
  BY CommitAppends
<1>2. ASSUME NEW a \in Account, accounts[a] # Nil
      PROVE  accounts'[a].owner = accounts[a].owner
  <2>1. CASE \E i \in 1..LegCount(r) : AccountOf(r, i) = a
    <3>1. PICK i \in 1..LegCount(r) : AccountOf(r, i) = a
      BY <2>1
    <3>2. /\ accounts[a] \in AccountRow
          /\ \E after \in 0..MaxInt : accounts'[a] = [accounts[a] EXCEPT !.balance = after]
      <4> DEFINE after == accounts[a].balance + Change(Legs(op[r])[i].type, op[r].amount)
      <4>1. /\ accounts[a] \in AccountRow /\ after \in 0..MaxInt
            /\ accounts'[a] = [accounts[a] EXCEPT !.balance = after]
        BY <3>1, CommitMoves
      <4> HIDE DEF after
      <4> QED BY <4>1
    <3> QED BY <3>2 DEF AccountRow
  <2>2. CASE \A i \in 1..LegCount(r) : AccountOf(r, i) # a
    BY <2>2, CommitMoves
  <2> QED BY <2>1, <2>2
<1>3. ASSUME NEW k \in 1..Len(journal'), k \notin 1..Len(journal)
      PROVE  /\ journal'[k].id[1] = r
             /\ lock[journal'[k].account] = r
             /\ journal'[k].at \in 0..clock
  <2>1. PICK i \in 1..LegCount(r) : journal'[k] = NewTransaction(r, i)
    BY <1>3, CommitAppends
  <2>2. /\ NewTransaction(r, i).id[1] = r
        /\ NewTransaction(r, i).account = AccountOf(r, i)
        /\ NewTransaction(r, i).at = stamp[r][i]
    BY DEF NewTransaction, AccountOf
  <2>3. stamp[r][i] \in Nat /\ stamp[r][i] <= clock /\ clock \in Nat
    BY DEF JournalInv, StampInv, Inv, TypeOK, RequestInv, InsertsInv
  <2>4. lock[AccountOf(r, i)] = r
    BY CommitMoves
  <2> HIDE DEF NewTransaction
  <2> QED BY <2>1, <2>2, <2>3, <2>4
<1> QED BY <1>1, <1>2, <1>3 DEF Grows, AddsRowsOf

\* What the invariant says of a request is stable under the steps of others, which add
\* rows to accounts it has not locked.
LEMMA OthersKeepOutcome ==
  ASSUME Inv, HistoryInv, JournalInv, NEW u \in Request, Same(u),
         NEW R, u \notin R, Grows, AddsRowsOf(R), TimeGoesOn
  PROVE  RequestOutcome(u)'
<1>0. /\ RequestInv(u) /\ RequestOutcome(u)
      /\ LegCount(u)' = LegCount(u)
      /\ \A i : AccountOf(u, i)' = AccountOf(u, i)
      /\ \A i : NewTransaction(u, i)' = NewTransaction(u, i)
  BY DEF Inv, JournalInv, RequestOutcome, LegCount, AccountOf, NewTransaction, Same
<1>1. OutcomeInv(u)'
  <2>1. pc'[u] # "done" => reply'[u] = "none"
    BY <1>0 DEF RequestOutcome, OutcomeInv, Same
  <2>2. ASSUME pc'[u] \in {"idle", "begin"} \cup Inside \/ reply'[u] \in Refusals,
               NEW k \in 1..Len(journal')
        PROVE  journal'[k].id[1] # u
    BY <1>0, <2>2 DEF RequestOutcome, OutcomeInv, Same, Grows, AddsRowsOf
  <2>3. ASSUME pc'[u] = "publish", NEW i \in 1..LegCount(u)
        PROVE  /\ \E k \in 1..Len(journal') : journal'[k] = NewTransaction(u, i)
               /\ accounts'[AccountOf(u, i)].owner = copies'[u][AccountOf(u, i)].owner
    <3>1. pc[u] = "publish" /\ copies'[u] = copies[u]
      BY <2>3 DEF Same
    <3>2. PICK k \in 1..Len(journal) : journal[k] = NewTransaction(u, i)
      BY <1>0, <3>1 DEF RequestOutcome, OutcomeInv, IsIn
    <3>3. NewTransaction(u, i).account = AccountOf(u, i)
      BY DEF NewTransaction, AccountOf
    <3> HIDE DEF NewTransaction
    <3>4. AccountOf(u, i) \in Account /\ accounts[AccountOf(u, i)] # Nil
      BY <3>2, <3>3, CommittedRowFacts
    <3>5. accounts[AccountOf(u, i)].owner = copies[u][AccountOf(u, i)].owner
      BY <1>0, <3>1 DEF RequestOutcome, OutcomeInv
    <3>6. k \in 1..Len(journal') /\ journal'[k] = journal[k]
      BY DEF Grows
    <3> QED BY <3>1, <3>2, <3>4, <3>5, <3>6 DEF Grows
  <2>4. ASSUME reply'[u] = "ok"
        PROVE  Complete(u)'
    <3>1. Complete(u)
      BY <1>0, <2>4 DEF RequestOutcome, OutcomeInv, Same
    <3>2. \A k \in RowsOf(u) : k \in RowsOf(u)' /\ journal'[k] = journal[k]
      BY DEF Grows, RowsOf
    <3> QED BY <3>1, <3>2 DEF Complete
  <2> HIDE DEF NewTransaction
  <2> QED BY <1>0, <2>1, <2>2, <2>3, <2>4 DEF OutcomeInv, IsIn
<1>2. CheckedInv(u)'
  BY <1>0 DEF RequestOutcome, CheckedInv, Same
<1>3. StampInv(u)'
  <2>1. ASSUME pc[u] \in {"insert", "commit"}, NEW i \in 1..LegCount(u)
        PROVE  /\ stamp[u][i] <= clock'
               /\ \A j \in 1..i : stamp[u][j] <= stamp[u][i]
               /\ \A k \in 1..Len(journal') : journal'[k].account = AccountOf(u, i) =>
                    journal'[k].at <= stamp[u][i]
    <3>1. /\ stamp[u][i] <= clock /\ stamp[u][i] \in Nat
          /\ \A j \in 1..i : stamp[u][j] <= stamp[u][i]
          /\ \A k \in 1..Len(journal) : journal[k].account = AccountOf(u, i) =>
               journal[k].at <= stamp[u][i]
      BY <1>0, <2>1 DEF RequestOutcome, StampInv, RequestInv, InsertsInv
    <3>2. lock[AccountOf(u, i)] = u
      <4>1. AccountOf(u, i) \in Account
        BY <2>1, AdmittedFacts DEF Admitted, Inside
      <4> QED BY <1>0, <2>1, <4>1 DEF RequestInv, LegsInv, FreshInv
    <3>3. stamp[u][i] <= clock'
      BY <3>1 DEF TimeGoesOn, Inv, TypeOK
    <3> QED BY <3>1, <3>2, <3>3 DEF Grows, AddsRowsOf
  <2> QED BY <1>0, <2>1 DEF StampInv, Same
<1> QED BY <1>1, <1>2, <1>3 DEF RequestOutcome
-----------------------------------------------------------------------------
\* An event goes on telling the truth.
LEMMA OldEventsStayTrue ==
  ASSUME Inv, HistoryInv, JournalInv, Grows, NEW e \in published
  PROVE  EventInv(e)'
<1>0. EventInv(e)
  BY DEF JournalInv
<1>1. PICK k \in 1..Len(journal) : journal[k] = e.transaction
  BY <1>0 DEF EventInv, IsIn
<1>2. k \in 1..Len(journal') /\ journal'[k] = e.transaction
  BY <1>1 DEF Grows
<1>3. accounts'[e.transaction.account].owner = accounts[e.transaction.account].owner
  BY <1>1, CommittedRowFacts DEF Grows
<1> QED BY <1>0, <1>2, <1>3 DEF EventInv, IsIn

\* A step of the requests R preserves the invariant if it does so for them and for the
\* events it publishes.
LEMMA SomeMove ==
  ASSUME Inv, HistoryInv, JournalInv, NEW R \in SUBSET Request,
         Grows, AddsRowsOf(R), TimeGoesOn,
         \A u \in Request \ R : Same(u),
         \A r \in R : RequestOutcome(r)',
         \A e \in published' : e \in published \/ EventInv(e)'
  PROVE  JournalInv'
<1>1. \A u \in Request : RequestOutcome(u)'
  BY OthersKeepOutcome
<1>2. ASSUME NEW k \in 1..Len(journal')
      PROVE  journal'[k].at <= clock'
  <2>1. CASE k \in 1..Len(journal)
    <3>1. journal'[k] = journal[k] /\ journal[k].at <= clock /\ journal[k].at \in Nat
      BY <2>1, CommittedRowFacts DEF Grows, JournalInv
    <3> QED BY <3>1 DEF TimeGoesOn, Inv, TypeOK
  <2>2. CASE k \notin 1..Len(journal)
    <3>1. journal'[k].at \in 0..clock
      BY <2>2 DEF AddsRowsOf
    <3> QED BY <3>1 DEF TimeGoesOn, Inv, TypeOK
  <2> QED BY <2>1, <2>2
<1>3. \A e \in published' : EventInv(e)'
  BY OldEventsStayTrue
<1> QED BY <1>1, <1>2, <1>3 DEF JournalInv, RequestOutcome, TimeGoesOn
-----------------------------------------------------------------------------
\* Requests that have ended: only what they were told matters.
LEMMA EndedOutcome ==
  ASSUME NEW r \in Request, NEW status, pc'[r] = "done", reply'[r] = status,
         status \in Refusals => \A k \in 1..Len(journal') : journal'[k].id[1] # r,
         status = "ok" => Complete(r)'
  PROVE  RequestOutcome(r)'
<1>1. OutcomeInv(r)'
  BY DEF OutcomeInv, Inside
<1>2. CheckedInv(r)' /\ StampInv(r)'
  BY DEF CheckedInv, StampInv
<1> QED BY <1>1, <1>2 DEF RequestOutcome

LEMMA SameTime ==
  ASSUME Inv, JournalInv, clock' = clock
  PROVE  TimeGoesOn
BY ClockAssumption DEF TimeGoesOn, Inv, TypeOK, JournalInv, ClockAssumption

LEMMA ReturnMoves ==
  ASSUME Inv, NEW R \in SUBSET Request, NEW status, Return(R, status)
  PROVE  /\ \A u \in Request \ R : Same(u)
         /\ \A r \in R : pc'[r] = "done" /\ reply'[r] = status
BY DEF Return, Same, Inv, TypeOK

\* Requests that end without a change of the tables.
LEMMA EndKeepsJournal ==
  ASSUME Inv, HistoryInv, JournalInv, NEW R \in SUBSET Request, NEW status,
         status # "ok", Return(R, status),
         status \in Refusals => \A r \in R : pc[r] \in {"idle", "begin"} \cup Inside,
         UNCHANGED <<accounts, journal, published, clock>>
  PROVE  JournalInv'
<1>1. Grows /\ AddsRowsOf(R)
  BY SameTablesGrow DEF AddsRowsOf
<1>2. \A r \in R : RequestOutcome(r)'
  <2>1. ASSUME NEW r \in R, status \in Refusals, NEW k \in 1..Len(journal')
        PROVE  journal'[k].id[1] # r
    BY <2>1 DEF JournalInv, OutcomeInv
  <2> QED BY <2>1, ReturnMoves, EndedOutcome
<1> QED BY <1>1, <1>2, ReturnMoves, SameTime, SomeMove

LEMMA FailKeepsJournal ==
  ASSUME Inv, HistoryInv, JournalInv, NEW r \in Request, NEW status, status # "ok",
         pc[r] \in {"idle", "begin"} \cup Inside, Fail(r, status)
  PROVE  JournalInv'
<1>1. UNCHANGED <<accounts, journal, published, clock>> /\ Return({r}, status)
  BY DEF Fail, RollbackTx
<1> QED BY <1>1, EndKeepsJournal

\* A request that has not committed yet goes on within the transaction.
LEMMA StepBeforeCommit ==
  ASSUME Inv, HistoryInv, JournalInv, NEW r \in Request,
         pc[r] \in {"idle", "begin"} \cup Inside, pc'[r] \in {"begin"} \cup Inside,
         reply' = reply, UNCHANGED <<accounts, journal, published>>, TimeGoesOn,
         \A u \in Request \ {r} : Same(u), CheckedInv(r)', StampInv(r)'
  PROVE  JournalInv'
<1>1. Grows /\ AddsRowsOf({r})
  BY SameTablesGrow DEF AddsRowsOf
<1>2. OutcomeInv(r)'
  BY DEF JournalInv, OutcomeInv, Inside, Refusals
<1>3. RequestOutcome(r)'
  BY <1>2 DEF RequestOutcome
<1> QED BY <1>1, <1>3, SomeMove

LEMMA ReceiveKeepsJournal ==
  ASSUME Inv, HistoryInv, JournalInv, NEW r \in Request, Receive(r)
  PROVE  JournalInv'
<1>1. CASE Fail(r, "bad_request")
  BY <1>1, FailKeepsJournal DEF Receive
<1>2. CASE /\ \E in : op' = [op EXCEPT ![r] = in]
           /\ pc' = [pc EXCEPT ![r] = "begin"]
           /\ UNCHANGED dbVars
           /\ UNCHANGED <<copies, step, stamp, reply, published, clock>>
  <2>1. pc[r] = "idle" /\ pc'[r] = "begin"
    BY <1>2 DEF Receive, Inv, TypeOK
  <2>2. CheckedInv(r)' /\ StampInv(r)'
    BY <2>1 DEF CheckedInv, StampInv
  <2>3. \A u \in Request \ {r} : Same(u)
    BY <1>2 DEF Same, Inv, TypeOK
  <2> QED BY <1>2, <2>1, <2>2, <2>3, SameTime, StepBeforeCommit DEF dbVars, Inside
<1> QED BY <1>1, <1>2 DEF Receive

LEMMA LockingKeepsJournal ==
  ASSUME Inv, HistoryInv, JournalInv, NEW r \in Request, Begin(r) \/ LockAccount(r)
  PROVE  JournalInv'
<1>1. pc[r] \in {"begin", "lock"}
  BY DEF Begin, LockAccount
<1>2. CASE Fail(r, "not_found") \/ Fail(r, "internal")
  BY <1>1, <1>2, FailKeepsJournal DEF Inside
<1>3. CASE /\ pc'[r] \in {"lock", "apply"}
           /\ \A u \in Request \ {r} : Same(u)
           /\ UNCHANGED <<accounts, journal, reply, published, clock>>
  BY <1>1, <1>3, SameTime, StepBeforeCommit DEF Inside, CheckedInv, StampInv
<1>4. CASE Begin(r)
  BY <1>3, <1>4 DEF Begin, BeginTx, Same, Inv, TypeOK
<1>5. CASE LockAccount(r)
  BY <1>2, <1>3, <1>5 DEF LockAccount, LockRow, Same, Inv, TypeOK
<1> QED BY <1>4, <1>5

\* The new balances go to the UPDATEs only after the checks.
LEMMA ApplyKeepsJournal ==
  ASSUME Inv, HistoryInv, JournalInv, NEW r \in Request, pc[r] = "apply",
         NEW newCopies, ApplyTo(r, newCopies),
         CanAccess(op[r].actor, newCopies[AccountOf(r, 1)]),
         op[r].kind = "transfer" =>
           newCopies[AccountOf(r, 1)].currency = newCopies[AccountOf(r, 2)].currency
  PROVE  JournalInv'
<1>1. /\ pc'[r] = "update" /\ op'[r] = op[r] /\ copies'[r] = newCopies
      /\ \A i : AccountOf(r, i)' = AccountOf(r, i)
  BY DEF ApplyTo, AccountOf, Inv, TypeOK
<1>2. CheckedInv(r)' /\ StampInv(r)'
  BY <1>1 DEF CheckedInv, StampInv
<1>3. \A u \in Request \ {r} : Same(u)
  BY DEF ApplyTo, Same, Inv, TypeOK
<1> QED BY <1>1, <1>2, <1>3, SameTime, StepBeforeCommit DEF ApplyTo, dbVars, Inside

LEMMA DepositKeepsJournal ==
  ASSUME Inv, HistoryInv, JournalInv, NEW r \in Request, Deposit(r)
  PROVE  JournalInv'
<1> DEFINE id == Denotes[op[r].from]
           newCopies == [copies[r] EXCEPT ![id].balance = Wrap(@ + op[r].amount)]
<1>0. pc[r] = "apply" /\ op[r].kind = "deposit"
  BY DEF Deposit
<1>1. CASE Fail(r, "forbidden")
  BY <1>0, <1>1, FailKeepsJournal DEF Inside
<1>2. CASE CanAccess(op[r].actor, copies[r][id]) /\ ApplyTo(r, newCopies)
  <2>1. id \in Account /\ copies[r][id] \in AccountRow
    BY <1>0, LockedCopies
  <2>2. AccountOf(r, 1) = id
    BY <1>0 DEF AccountOf, Legs
  <2>3. newCopies[id].owner = copies[r][id].owner
    BY <2>1 DEF AccountRow, Inv, TypeOK
  <2>4. CanAccess(op[r].actor, newCopies[AccountOf(r, 1)])
    BY <1>2, <2>2, <2>3 DEF CanAccess
  <2> HIDE DEF newCopies, id
  <2> QED BY <1>0, <1>2, <2>4, ApplyKeepsJournal
<1> QED BY <1>1, <1>2 DEF Deposit

LEMMA WithdrawKeepsJournal ==
  ASSUME Inv, HistoryInv, JournalInv, NEW r \in Request, Withdraw(r)
  PROVE  JournalInv'
<1> DEFINE id == Denotes[op[r].from]
           newCopies == [copies[r] EXCEPT ![id].balance = @ - op[r].amount]
<1>0. pc[r] = "apply" /\ op[r].kind = "withdrawal"
  BY DEF Withdraw
<1>1. CASE Fail(r, "forbidden") \/ Fail(r, "conflict")
  BY <1>0, <1>1, FailKeepsJournal DEF Inside
<1>2. CASE CanAccess(op[r].actor, copies[r][id]) /\ ApplyTo(r, newCopies)
  <2>1. id \in Account /\ copies[r][id] \in AccountRow
    BY <1>0, LockedCopies
  <2>2. AccountOf(r, 1) = id
    BY <1>0 DEF AccountOf, Legs
  <2>3. newCopies[id].owner = copies[r][id].owner
    BY <2>1 DEF AccountRow, Inv, TypeOK
  <2>4. CanAccess(op[r].actor, newCopies[AccountOf(r, 1)])
    BY <1>2, <2>2, <2>3 DEF CanAccess
  <2> HIDE DEF newCopies, id
  <2> QED BY <1>0, <1>2, <2>4, ApplyKeepsJournal
<1> QED BY <1>1, <1>2 DEF Withdraw

LEMMA TransferKeepsJournal ==
  ASSUME Inv, HistoryInv, JournalInv, NEW r \in Request, Transfer(r)
  PROVE  JournalInv'
<1> DEFINE x == op[r].from
           y == op[r].to
           amount == op[r].amount
           newCopies == [copies[r] EXCEPT ![x].balance = @ - amount,
                                          ![y].balance = Wrap(@ + amount)]
<1>0. pc[r] = "apply" /\ op[r].kind = "transfer"
  BY DEF Transfer
<1>1. CASE \E status \in {"internal", "forbidden", "bad_request", "conflict"} : Fail(r, status)
  BY <1>0, <1>1, FailKeepsJournal DEF Inside
<1>2. CASE /\ (IF x \in Account THEN copies[r][x] ELSE Nil) # Nil
           /\ (IF y \in Account THEN copies[r][y] ELSE Nil) # Nil
           /\ CanAccess(op[r].actor, copies[r][x])
           /\ SameCurrency(copies[r][x], copies[r][y])
           /\ ApplyTo(r, newCopies)
  <2>1. x \in Account /\ y \in Account /\ x # y
    BY <1>0, <1>2, LockedCopies
  <2>2. copies[r][x] \in AccountRow /\ copies[r][y] \in AccountRow
    <3>1. Denotes[x] = x /\ Denotes[y] = y /\ x \in Named(op[r]) /\ y \in Named(op[r])
      BY <1>0, <2>1, LockedCopies, DenotesAccount
    <3> QED BY <1>0, <3>1, LockedCopies
  <2>3. AccountOf(r, 1) = x /\ AccountOf(r, 2) = y
    BY <1>0, <2>1, DenotesAccount DEF AccountOf, Legs
  <2>4. /\ newCopies[x].owner = copies[r][x].owner
        /\ newCopies[x].currency = copies[r][x].currency
        /\ newCopies[y].currency = copies[r][y].currency
    BY <2>1, <2>2 DEF AccountRow, Inv, TypeOK
  <2>5. /\ CanAccess(op[r].actor, newCopies[AccountOf(r, 1)])
        /\ newCopies[AccountOf(r, 1)].currency = newCopies[AccountOf(r, 2)].currency
    BY <1>2, <2>3, <2>4 DEF CanAccess, SameCurrency
  <2> HIDE DEF newCopies, x, y
  <2> QED BY <1>0, <1>2, <2>5, ApplyKeepsJournal
<1> QED BY <1>0, <1>1, <1>2 DEF Transfer

\* The clock is read while the request holds its accounts: no row of theirs has a later
\* time, and a transfer's two readings are in order.
LEMMA ReadingsAreLate ==
  ASSUME Inv, JournalInv, NEW r \in Request, NEW times \in Readings(r),
         clock' = times[Len(times)], NEW i \in 1..2, i = 2 => op[r].kind = "transfer"
  PROVE  /\ TimeGoesOn
         /\ clock <= times[i] /\ times[i] <= clock'
         /\ \A j \in 1..i : times[j] <= times[i]
<1>1. clock \in Nat /\ clock <= MaxClock /\ MaxClock \in Nat
  BY ClockAssumption DEF Inv, TypeOK, JournalInv, ClockAssumption
<1>2. CASE op[r].kind = "transfer"
  <2>1. PICK later \in clock..MaxClock : times = <<clock, later>>
    BY <1>2 DEF Readings
  <2> QED BY <1>1, <2>1 DEF TimeGoesOn
<1>3. CASE op[r].kind # "transfer"
  <2>1. times = <<clock>> /\ i = 1
    BY <1>3 DEF Readings
  <2> QED BY <1>1, <2>1 DEF TimeGoesOn
<1> QED BY <1>2, <1>3

LEMMA UpdateKeepsJournal ==
  ASSUME Inv, HistoryInv, JournalInv, NEW r \in Request, UpdateAccountBalance(r)
  PROVE  JournalInv'
<1>0. pc[r] = "update"
  BY DEF UpdateAccountBalance
<1>1. CASE Fail(r, "internal")
  BY <1>0, <1>1, FailKeepsJournal DEF Inside
<1>2. CASE /\ UNCHANGED <<accounts, journal, op, copies, reply, published>>
           /\ \/ /\ pc' = [pc EXCEPT ![r] = "insert"]
                 /\ step' = [step EXCEPT ![r] = 1]
                 /\ \E times \in Readings(r) :
                      /\ stamp' = [stamp EXCEPT ![r] = times]
                      /\ clock' = times[Len(times)]
              \/ /\ step' = [step EXCEPT ![r] = @ + 1]
                 /\ UNCHANGED <<pc, stamp, clock>>
  <2>1. /\ LegCount(r)' = LegCount(r) /\ \A i : AccountOf(r, i)' = AccountOf(r, i)
        /\ op'[r] = op[r] /\ copies'[r] = copies[r]
    BY <1>2 DEF LegCount, AccountOf
  <2>2. \A u \in Request \ {r} : Same(u)
    BY <1>2 DEF Same, Inv, TypeOK
  <2>3. pc'[r] \in {"update", "insert"}
    BY <1>0, <1>2 DEF Inv, TypeOK
  <2>4. CheckedInv(r)'
    BY <1>0, <2>1, <2>3 DEF JournalInv, CheckedInv
  <2>5. TimeGoesOn /\ StampInv(r)'
    <3>1. CASE pc'[r] = "insert"
      <4>1. PICK times \in Readings(r) :
                   stamp'[r] = times /\ clock' = times[Len(times)]
        BY <1>0, <1>2, <3>1 DEF Inv, TypeOK
      <4>2. \A i \in 1..LegCount(r) : i \in 1..2 /\ (i = 2 => op[r].kind = "transfer")
        BY <1>0, AdmittedFacts, LegsOfInput DEF Admitted, Inside, LegCount
      <4>3. 1 \in 1..2
        OBVIOUS
      <4>4. TimeGoesOn
        BY <4>1, <4>3, ReadingsAreLate
      <4>5. ASSUME NEW i \in 1..LegCount(r)
            PROVE  /\ clock <= times[i] /\ times[i] <= clock'
                   /\ \A j \in 1..i : times[j] <= times[i]
                   /\ times[i] \in Nat
        <5>1. i \in 1..2 /\ (i = 2 => op[r].kind = "transfer")
          BY <4>2
        <5>2. times[i] \in Nat
          BY <5>1, ReadingsAreTimes
        <5> QED BY <4>1, <5>1, <5>2, ReadingsAreLate
      <4>6. \A k \in 1..Len(journal) : journal[k].at <= clock /\ journal[k].at \in Nat
        BY CommittedRowFacts DEF JournalInv
      <4>7. ASSUME NEW i \in 1..LegCount(r), NEW k \in 1..Len(journal)
            PROVE  journal[k].at <= times[i]
        <5>1. clock \in Nat
          BY DEF Inv, TypeOK
        <5>2. clock <= times[i] /\ times[i] \in Nat
          BY <4>5
        <5>3. journal[k].at <= clock /\ journal[k].at \in Nat
          BY <4>6
        <5> QED BY <5>1, <5>2, <5>3
      <4>8. journal' = journal
        BY <1>2
      <4> QED BY <2>1, <4>1, <4>4, <4>5, <4>7, <4>8 DEF StampInv
    <3>2. CASE pc'[r] = "update"
      <4>1. clock' = clock
        BY <1>2, <3>2 DEF Inv, TypeOK
      <4> QED BY <3>2, <4>1, SameTime DEF StampInv
    <3> QED BY <2>3, <3>1, <3>2
  <2> QED BY <1>0, <1>2, <2>2, <2>3, <2>4, <2>5, StepBeforeCommit DEF Inside
<1> QED BY <1>1, <1>2 DEF UpdateAccountBalance, UpdateRow

LEMMA CreateTransactionKeepsJournal ==
  ASSUME Inv, HistoryInv, JournalInv, NEW r \in Request, CreateTransaction(r)
  PROVE  JournalInv'
<1>1. /\ UNCHANGED <<accounts, journal, op, copies, stamp, reply, published, clock>>
      /\ pc[r] = "insert" /\ pc'[r] \in {"insert", "commit"}
      /\ \A u \in Request \ {r} : Same(u)
  BY DEF CreateTransaction, InsertRow, Same, Inv, TypeOK
<1>2. /\ LegCount(r)' = LegCount(r) /\ \A i : AccountOf(r, i)' = AccountOf(r, i)
      /\ op'[r] = op[r] /\ copies'[r] = copies[r] /\ stamp'[r] = stamp[r]
  BY <1>1 DEF LegCount, AccountOf
<1>3. CheckedInv(r)'
  BY <1>1, <1>2 DEF JournalInv, CheckedInv
<1>4. StampInv(r)'
  BY <1>1, <1>2 DEF JournalInv, StampInv
<1> QED BY <1>1, <1>3, <1>4, SameTime, StepBeforeCommit DEF Inside
-----------------------------------------------------------------------------
\* After COMMIT the rows of every leg are there.
LEMMA CommitKeepsJournal ==
  ASSUME Inv, HistoryInv, JournalInv, NEW r \in Request, Commit(r)
  PROVE  JournalInv'
<1>0. /\ pc[r] = "commit" /\ CommitTx(r) /\ pc'[r] = "publish"
      /\ UNCHANGED <<op, copies, step, stamp, reply, published, clock>>
  BY DEF Commit, Inv, TypeOK
<1>1. \A u \in Request \ {r} : Same(u)
  BY DEF Commit, Same, Inv, TypeOK
<1>2. /\ LegCount(r)' = LegCount(r)
      /\ \A i : AccountOf(r, i)' = AccountOf(r, i)
      /\ \A i : NewTransaction(r, i)' = NewTransaction(r, i)
  BY <1>0 DEF LegCount, AccountOf, NewTransaction
<1>3. ASSUME NEW i \in 1..LegCount(r)
      PROVE  /\ \E k \in 1..Len(journal') : journal'[k] = NewTransaction(r, i)
             /\ accounts'[AccountOf(r, i)].owner = copies[r][AccountOf(r, i)].owner
  <2>1. /\ journal'[Len(journal) + i] = NewTransaction(r, i)
        /\ Len(journal) + i \in 1..Len(journal')
    BY <1>0, CommitAppends
  <2>2. accounts'[AccountOf(r, i)] = copies[r][AccountOf(r, i)]
    BY <1>0, CommitMoves
  <2> QED BY <2>1, <2>2
<1>4. reply'[r] = "none"
  BY <1>0 DEF JournalInv, OutcomeInv
<1>5. OutcomeInv(r)'
  BY <1>0, <1>2, <1>3, <1>4 DEF OutcomeInv, IsIn, Inside, Refusals
<1>6. CheckedInv(r)' /\ StampInv(r)'
  BY <1>0 DEF CheckedInv, StampInv
<1> QED BY <1>0, <1>1, <1>5, <1>6, CommitGrows, SameTime, SomeMove DEF RequestOutcome

LEMMA CommitUnacknowledgedKeepsJournal ==
  ASSUME Inv, HistoryInv, JournalInv, NEW r \in Request, CommitUnacknowledged(r)
  PROVE  JournalInv'
<1>1. /\ pc[r] = "commit" /\ CommitTx(r) /\ Return({r}, "internal")
      /\ UNCHANGED <<published, clock>>
  BY DEF CommitUnacknowledged
<1>2. RequestOutcome(r)'
  BY <1>1, ReturnMoves, EndedOutcome DEF Refusals
<1> QED BY <1>1, <1>2, ReturnMoves, CommitGrows, SameTime, SomeMove

\* An operation is a deposit, a withdrawal or the two sides of a transfer.
LEMMA LegsMakeAnOperation ==
  ASSUME NEW in \in MoneyInput \cup TransferInput
  PROVE  /\ 1 \in 1..Len(Legs(in))
         /\ \/ Legs(in)[1].type \in {"deposit", "withdrawal"}
            \/ /\ Legs(in)[1].type = "transfer_out"
               /\ 2 \in 1..Len(Legs(in))
               /\ Legs(in)[2].type = "transfer_in"
               /\ Legs(in)[2].account = Legs(in)[1].counterparty
<1>1. in.kind \in {"deposit", "withdrawal", "transfer"}
  BY DEF MoneyInput, TransferInput
<1> QED BY <1>1 DEF Legs

\* Exactly the legs of a transfer have a counterparty.
LEMMA Counterparties ==
  ASSUME NEW in \in MoneyInput \cup TransferInput, ValidInput(in),
         NEW i \in 1..Len(Legs(in))
  PROVE  Legs(in)[i].counterparty # Nil <=> in.kind = "transfer"
<1>1. in.kind \in {"deposit", "withdrawal", "transfer"}
  BY DEF MoneyInput, TransferInput
<1>2. CASE in.kind = "transfer"
  <2>1. in.from \in Spelling /\ in.to \in Spelling
    BY <1>2 DEF ValidInput, ValidTransferInput, MoneyInput, TransferInput
  <2>2. Denotes[in.from] # Nil /\ Denotes[in.to] # Nil
    BY <2>1, DenotesAccount, NilIsNothingElse
  <2>3. i = 1 \/ i = 2
    BY LegsOfInput
  <2> QED BY <1>2, <2>2, <2>3 DEF Legs
<1>3. CASE in.kind # "transfer"
  <2>1. i = 1
    BY <1>3, LegsOfInput
  <2> QED BY <1>1, <1>3, <2>1 DEF Legs
<1> QED BY <1>2, <1>3

LEMMA PublishKeepsJournal ==
  ASSUME Inv, HistoryInv, JournalInv, NEW r \in Request, Publish(r)
  PROVE  JournalInv'
<1>0. /\ pc[r] = "publish" /\ published' = published \cup {NewEvent(r)}
      /\ UNCHANGED <<accounts, journal, clock>>
  BY DEF Publish
<1>1. /\ op[r] \in MoneyInput \cup TransferInput /\ ValidInput(op[r])
      /\ LegCount(r) \in {1, 2} /\ step[r] \in 1..LegCount(r)
  BY <1>0, AdmittedFacts DEF Admitted, Inside
<1>2. \A i \in 1..LegCount(r) :
        /\ \E k \in 1..Len(journal) : journal[k] = NewTransaction(r, i)
        /\ accounts[AccountOf(r, i)].owner = copies[r][AccountOf(r, i)].owner
  BY <1>0 DEF JournalInv, OutcomeInv, IsIn
<1>3. ASSUME NEW e, e = NewEvent(r)
      PROVE  EventInv(e)'
  <2> DEFINE a == AccountOf(r, step[r])
             row == NewTransaction(r, step[r])
  <2>1. /\ row.account = a /\ row.after = copies[r][a].balance
        /\ row.counterparty = Legs(op[r])[step[r]].counterparty
    BY DEF NewTransaction, AccountOf
  <2>2. row.counterparty # Nil <=> op[r].kind = "transfer"
    BY <1>1, <2>1, Counterparties DEF LegCount
  <2>3. /\ e.transaction = row /\ e.balance = copies[r][a].balance
        /\ e.owner = copies[r][a].owner /\ e.operation = op[r].kind
    BY <1>3 DEF NewEvent, Leg, AccountOf
  <2>4. /\ \E k \in 1..Len(journal) : journal[k] = row
        /\ accounts[a].owner = copies[r][a].owner
    BY <1>1, <1>2
  <2> HIDE DEF row, a
  <2>5. /\ \E k \in 1..Len(journal) : journal[k] = e.transaction
        /\ e.balance = e.transaction.after
        /\ e.owner = accounts[e.transaction.account].owner
        /\ e.operation = "transfer" <=> e.transaction.counterparty # Nil
    BY <2>1, <2>2, <2>3, <2>4
  <2> QED BY <1>0, <2>5 DEF EventInv, IsIn
<1>4. \A e \in published' : e \in published \/ EventInv(e)'
  BY <1>0, <1>3
<1>5. Grows /\ AddsRowsOf({r})
  BY <1>0, SameTablesGrow DEF AddsRowsOf
<1>6. CASE Return({r}, "ok")
  <2>1. Complete(r)'
    <3>1. ASSUME NEW i \in 1..LegCount(r)
          PROVE  \E k \in RowsOf(r) : journal[k] = NewTransaction(r, i)
      <4>1. PICK k \in 1..Len(journal) : journal[k] = NewTransaction(r, i)
        BY <1>2
      <4>2. NewTransaction(r, i).id[1] = r
        BY DEF NewTransaction
      <4> HIDE DEF NewTransaction
      <4> QED BY <4>1, <4>2 DEF RowsOf
    <3>2. \A i : /\ NewTransaction(r, i).type = Legs(op[r])[i].type
                 /\ NewTransaction(r, i).account = Legs(op[r])[i].account
                 /\ NewTransaction(r, i).counterparty = Legs(op[r])[i].counterparty
                 /\ NewTransaction(r, i).amount = op[r].amount
      BY DEF NewTransaction
    <3> HIDE DEF NewTransaction
    <3>3. PICK k \in RowsOf(r) : journal[k] = NewTransaction(r, 1)
      BY <1>1, <3>1
    <3>4. CASE Legs(op[r])[1].type \in {"deposit", "withdrawal"}
      BY <1>0, <3>2, <3>3, <3>4 DEF Complete, RowsOf
    <3>5. CASE /\ Legs(op[r])[1].type = "transfer_out"
               /\ 2 \in 1..LegCount(r)
               /\ Legs(op[r])[2].type = "transfer_in"
               /\ Legs(op[r])[2].account = Legs(op[r])[1].counterparty
      <4>1. PICK j \in RowsOf(r) : journal[j] = NewTransaction(r, 2)
        BY <3>1, <3>5
      <4> QED BY <1>0, <3>2, <3>3, <3>5, <4>1 DEF Complete, RowsOf
    <3> QED BY <1>1, <3>4, <3>5, LegsMakeAnOperation DEF LegCount
  <2>2. pc'[r] = "done" /\ reply'[r] = "ok"
    BY <1>6, ReturnMoves
  <2>3. RequestOutcome(r)'
    BY <2>1, <2>2, EndedOutcome DEF Refusals
  <2> QED BY <1>0, <1>4, <1>5, <1>6, <2>3, ReturnMoves, SameTime, SomeMove
<1>7. CASE /\ step' = [step EXCEPT ![r] = @ + 1]
           /\ UNCHANGED <<pc, op, copies, stamp, reply>>
  <2>1. \A u \in Request \ {r} : Same(u)
    BY <1>7 DEF Same, Inv, TypeOK
  <2>2. /\ LegCount(r)' = LegCount(r)
        /\ \A i : AccountOf(r, i)' = AccountOf(r, i)
        /\ \A i : NewTransaction(r, i)' = NewTransaction(r, i)
    BY <1>7 DEF LegCount, AccountOf, NewTransaction
  <2>3. reply'[r] = "none" /\ pc'[r] = "publish"
    BY <1>0, <1>7 DEF JournalInv, OutcomeInv
  <2>4. OutcomeInv(r)'
    BY <1>0, <1>2, <1>7, <2>2, <2>3 DEF OutcomeInv, IsIn, Inside, Refusals
  <2>5. CheckedInv(r)' /\ StampInv(r)'
    BY <2>3 DEF CheckedInv, StampInv
  <2> QED BY <1>0, <1>4, <1>5, <2>1, <2>4, <2>5, SameTime, SomeMove DEF RequestOutcome
<1> QED BY <1>6, <1>7 DEF Publish
-----------------------------------------------------------------------------
\* A new account is one that was not there; nothing else changes in the tables.
LEMMA CreateAccountOpens ==
  ASSUME NEW r \in Request, CreateAccount(r)
  PROVE  \/ UNCHANGED <<accounts, journal>>
         \/ \E a \in Account, actor \in Actor, currency \in Currency :
              /\ accounts[a] = Nil
              /\ accounts' = [accounts EXCEPT
                   ![a] = [owner |-> actor.user, currency |-> currency, balance |-> 0]]
              /\ journal' = journal
BY DEF CreateAccount, InsertAccount, dbVars

LEMMA CreateAccountGrows ==
  ASSUME Inv, NEW r \in Request, CreateAccount(r)
  PROVE  Grows /\ AddsRowsOf({r})
<1>1. journal' = journal
  BY DEF CreateAccount, InsertAccount, dbVars
<1>2. \A a \in Account : accounts[a] # Nil => accounts'[a].owner = accounts[a].owner
  <2>1. CASE UNCHANGED <<accounts, journal>>
    BY <2>1
  <2>2. ASSUME NEW x \in Account, NEW row, accounts[x] = Nil,
               accounts' = [accounts EXCEPT ![x] = row]
        PROVE  \A a \in Account : accounts[a] # Nil => accounts'[a].owner = accounts[a].owner
    BY <2>2 DEF Inv, TypeOK, PostgresTypeOK
  <2> QED BY <2>1, <2>2, CreateAccountOpens
<1> QED BY <1>1, <1>2 DEF Grows, AddsRowsOf, Inv, TypeOK, PostgresTypeOK

LEMMA CreateAccountKeepsJournal ==
  ASSUME Inv, HistoryInv, JournalInv, NEW r \in Request, CreateAccount(r)
  PROVE  JournalInv'
<1>1. /\ pc[r] = "idle" /\ UNCHANGED <<published, clock>> /\ journal' = journal
      /\ \E status \in {"bad_request", "internal", "created"} : Return({r}, status)
  BY DEF CreateAccount, InsertAccount, dbVars
<1>2. Grows /\ AddsRowsOf({r})
  BY CreateAccountGrows
<1>3. PICK status \in {"bad_request", "internal", "created"} : Return({r}, status)
  BY <1>1
<1>4. pc'[r] = "done" /\ reply'[r] = status /\ \A u \in Request \ {r} : Same(u)
  BY <1>3, ReturnMoves
<1>5. \A k \in 1..Len(journal') : journal'[k].id[1] # r
  BY <1>1 DEF JournalInv, OutcomeInv
<1>6. RequestOutcome(r)'
  BY <1>4, <1>5, EndedOutcome
<1> QED BY <1>1, <1>2, <1>4, <1>6, SameTime, SomeMove

LEMMA FailuresKeepJournal ==
  ASSUME Inv, HistoryInv, JournalInv, NEW r \in Request,
         StatementFails(r) \/ BreakDeadlock(r)
  PROVE  JournalInv'
<1>1. Fail(r, "internal") /\ pc[r] \in {"begin"} \cup Inside
  BY DEF StatementFails, BreakDeadlock, Deadlocked, Waiting, Inside
<1> QED BY <1>1, FailKeepsJournal

LEMMA CrashKeepsJournal ==
  ASSUME Inv, HistoryInv, JournalInv, Crash
  PROVE  JournalInv'
<1> DEFINE inFlight == {r \in Request : pc[r] \notin {"idle", "done"}}
<1>1. /\ Return(inFlight, "none")
      /\ UNCHANGED <<accounts, journal, published, clock>>
  BY DEF Crash, RollbackTx
<1> HIDE DEF inFlight
<1>2. inFlight \in SUBSET Request
  BY DEF inFlight
<1> QED BY <1>1, <1>2, EndKeepsJournal DEF Refusals

LEMMA IdleStepKeepsJournal ==
  ASSUME Inv, HistoryInv, JournalInv, UNCHANGED <<accounts, journal, published>>,
         \A u \in Request : Same(u), TimeGoesOn
  PROVE  JournalInv'
<1>1. Grows /\ AddsRowsOf({})
  BY SameTablesGrow
<1> QED BY <1>1, SomeMove

\* Every step of the ledger preserves JournalInv.
LEMMA NextKeepsJournal ==
  ASSUME Inv, HistoryInv, JournalInv, [Next]_vars
  PROVE  JournalInv'
<1>1. ASSUME NEW r \in Request, Advance(r)
      PROVE  JournalInv'
  BY <1>1, LockingKeepsJournal, DepositKeepsJournal, WithdrawKeepsJournal,
     TransferKeepsJournal, UpdateKeepsJournal, CreateTransactionKeepsJournal,
     CommitKeepsJournal, PublishKeepsJournal DEF Advance
<1>2. ASSUME NEW r \in Request,
             \/ Receive(r) \/ CreateAccount(r)
             \/ CommitUnacknowledged(r) \/ StatementFails(r) \/ BreakDeadlock(r)
      PROVE  JournalInv'
  BY <1>2, ReceiveKeepsJournal, CreateAccountKeepsJournal,
     CommitUnacknowledgedKeepsJournal, FailuresKeepJournal
<1>3. CASE Tick
  <2>1. UNCHANGED <<accounts, journal, published>> /\ \A u \in Request : Same(u)
    BY <1>3 DEF Tick, dbVars, Same
  <2>2. TimeGoesOn
    BY <1>3, ClockAssumption DEF Tick, TimeGoesOn, Inv, TypeOK, ClockAssumption
  <2> QED BY <2>1, <2>2, IdleStepKeepsJournal
<1>4. CASE AllDone \/ UNCHANGED vars
  <2>1. UNCHANGED <<accounts, journal, published, clock>> /\ \A u \in Request : Same(u)
    BY <1>4 DEF AllDone, vars, Same
  <2> QED BY <2>1, SameTime, IdleStepKeepsJournal
<1> QED BY <1>1, <1>2, <1>3, <1>4, CrashKeepsJournal DEF Next

LEMMA InitJournal == Init => JournalInv
<1> SUFFICES ASSUME Init
             PROVE  JournalInv
  OBVIOUS
<1>1. /\ Len(journal) = 0 /\ clock = 0 /\ published = {}
      /\ \A r \in Request : pc[r] = "idle" /\ reply[r] = "none"
  BY DEF Init, PostgresInit
<1>2. \A i \in 1..0 : FALSE
  OBVIOUS
<1>3. \A r \in Request : OutcomeInv(r) /\ CheckedInv(r) /\ StampInv(r)
  BY <1>1, <1>2 DEF OutcomeInv, CheckedInv, StampInv, Refusals
<1> QED BY <1>1, <1>2, <1>3, ClockAssumption DEF JournalInv, ClockAssumption

\* The three invariants of the ledger together.
LedgerInv == Inv /\ HistoryInv /\ JournalInv

LEMMA LedgerInvHolds == Spec => []LedgerInv
<1>1. Init => LedgerInv
  BY InitInv, InitHistory, InitJournal DEF LedgerInv
<1>2. LedgerInv /\ [Next]_vars => LedgerInv'
  BY NextKeepsInv, NextKeepsHistory, NextKeepsJournal DEF LedgerInv
<1> QED BY <1>1, <1>2, PTL DEF Spec

\* What clients are told is true of the journal: 200 means that the operation's rows are
\* there, a refusal that none is, whatever fails between COMMIT and the answer.
THEOREM RepliesAreTrue == Spec => []RepliesAreTruthful
<1>1. LedgerInv => RepliesAreTruthful
  BY DEF LedgerInv, JournalInv, OutcomeInv, RepliesAreTruthful, RowsOf, Refusals
<1> QED BY <1>1, LedgerInvHolds, PTL

\* So is every event: its row was committed before it was published.
THEOREM EventsAreTrue == Spec => []EventsAreTruthful
<1>1. LedgerInv => EventsAreTruthful
  BY DEF LedgerInv, JournalInv, EventInv, IsIn, EventsAreTruthful
<1> QED BY <1>1, LedgerInvHolds, PTL
-----------------------------------------------------------------------------
\* The rows a request commits are the first of that request, and as late as any of their
\* accounts.
LEMMA CommitIsNew ==
  ASSUME LedgerInv, NEW r \in Request, pc[r] = "commit", CommitTx(r)
  PROVE  /\ Atomic!Unused(r)
         /\ \A i \in 1..LegCount(r) :
              /\ stamp[r][i] \in 0..MaxClock
              /\ Atomic!LaterThanAll(AccountOf(r, i), stamp[r][i])
              /\ \A j \in 1..i : stamp[r][j] <= stamp[r][i]
<1>1. Atomic!Unused(r)
  BY DEF LedgerInv, JournalInv, OutcomeInv, Inside, Atomic!Unused
<1>2. ASSUME NEW i \in 1..LegCount(r)
      PROVE  /\ stamp[r][i] \in Nat /\ stamp[r][i] <= clock
             /\ \A k \in 1..Len(journal) :
                  journal[k].account = AccountOf(r, i) => journal[k].at <= stamp[r][i]
             /\ \A j \in 1..i : stamp[r][j] <= stamp[r][i]
  BY DEF LedgerInv, JournalInv, StampInv, Inv, RequestInv, InsertsInv
<1>3. clock \in Nat /\ clock <= MaxClock /\ MaxClock \in Nat
  BY ClockAssumption DEF LedgerInv, Inv, TypeOK, JournalInv, ClockAssumption
<1> QED BY <1>1, <1>2, <1>3 DEF Atomic!LaterThanAll

\* COMMIT of a deposit or a withdrawal is one step of the atomic ledger.
LEMMA CommitMovesAtomically ==
  ASSUME LedgerInv, NEW r \in Request, pc[r] = "commit", CommitTx(r),
         op[r].kind # "transfer"
  PROVE  Atomic!Next
<1> DEFINE a == AccountOf(r, 1)
           type == op[r].kind
           amount == op[r].amount
           actor == op[r].actor
           at == stamp[r][1]
           signed == IF type = "deposit" THEN amount ELSE -amount
           after == accounts[a].balance + signed
           row == [id |-> <<r, 1>>, account |-> a, counterparty |-> Nil, type |-> type,
                   amount |-> amount, after |-> after, by |-> actor.user, at |-> at]
<1>1. /\ op[r] \in MoneyInput /\ LegCount(r) = 1
      /\ amount \in 1..MaxInt /\ actor \in Actor /\ type \in {"deposit", "withdrawal"}
  <2>1. /\ op[r] \in MoneyInput \cup TransferInput /\ ValidInput(op[r])
        /\ amount \in 1..MaxInt
    BY AdmittedFacts DEF LedgerInv, Admitted, Inside
  <2>2. op[r] \in MoneyInput
    BY <2>1 DEF TransferInput
  <2> QED BY <2>1, <2>2, LegsOfInput DEF MoneyInput, LegCount
<1>2. /\ Legs(op[r])[1].type = type /\ Legs(op[r])[1].counterparty = Nil
      /\ Change(type, amount) = signed
  BY <1>1 DEF Legs, Change
<1>3. /\ a \in Account /\ accounts[a] # Nil /\ accounts[a] \in AccountRow
      /\ after \in 0..MaxInt
      /\ copies[r][a] = [accounts[a] EXCEPT !.balance = after]
      /\ accounts'[a] = [accounts[a] EXCEPT !.balance = after]
  <2>1. 1 \in 1..LegCount(r)
    BY <1>1
  <2> QED BY <1>2, <2>1, CommitMoves DEF LedgerInv
<1>4. accounts' = [accounts EXCEPT ![a].balance = after]
  <2>1. \A b \in Account : b # a => accounts'[b] = accounts[b]
    <3>1. ASSUME NEW b \in Account, b # a
          PROVE  \A i \in 1..LegCount(r) : AccountOf(r, i) # b
      BY <1>1, <3>1
    <3> QED BY <3>1, CommitMoves DEF LedgerInv
  <2>2. /\ accounts \in [Account -> AccountRow \cup {Nil}]
        /\ accounts' = [b \in Account |-> accounts'[b]]
    BY DEF CommitTx, LedgerInv, Inv, TypeOK, PostgresTypeOK
  <2> HIDE DEF after, a
  <2> QED BY <1>3, <2>1, <2>2
<1>5. journal' = Append(journal, row)
  <2>1. NewTransaction(r, 1) = row
    <3>1. copies[r][a].balance = after
      BY <1>3 DEF AccountRow
    <3> QED BY <1>2, <3>1 DEF NewTransaction, AccountOf
  <2>2. /\ inserts[r] \in Seq(TransactionRow) /\ Len(inserts[r]) = 1
        /\ inserts[r][1] = row /\ journal \in Seq(TransactionRow)
        /\ journal' = journal \o inserts[r]
    <3>1. Inv /\ 1 \in 1..LegCount(r)
      BY <1>1 DEF LedgerInv
    <3>2. inserts[r][1] = NewTransaction(r, 1)
      BY <3>1, CommitAppends
    <3> HIDE DEF row
    <3> QED BY <1>1, <2>1, <3>1, <3>2, CommitAppends
  <2> HIDE DEF row
  <2>3. inserts[r] = <<row>> /\ row \in TransactionRow
    BY <2>2
  <2> QED BY <2>2, <2>3
<1>6. CanAccess(actor, accounts[a])
  <2>1. CanAccess(actor, copies[r][a])
    BY DEF LedgerInv, JournalInv, CheckedInv
  <2>2. copies[r][a].owner = accounts[a].owner
    BY <1>3 DEF AccountRow
  <2> QED BY <2>1, <2>2 DEF CanAccess
<1>7. /\ Atomic!Unused(r) /\ Atomic!LaterThanAll(a, at) /\ at \in 0..MaxClock
  BY <1>1, CommitIsNew
<1>8. Atomic!Move(r, a, type, amount)
  <2> HIDE DEF a, type, amount, actor, at, row
  <2>1. Atomic!CanAccess(actor, accounts[a])
    BY <1>6 DEF CanAccess, Atomic!CanAccess
  <2> QED BY <1>1, <1>3, <1>4, <1>5, <1>7, <2>1 DEF Atomic!Move, row
<1> HIDE DEF a, type, amount
<1> QED BY <1>1, <1>3, <1>8 DEF Atomic!Next, Atomic!Present

\* So is COMMIT of a transfer.
LEMMA CommitTransfersAtomically ==
  ASSUME LedgerInv, NEW r \in Request, pc[r] = "commit", CommitTx(r),
         op[r].kind = "transfer"
  PROVE  Atomic!Next
<1> DEFINE a == AccountOf(r, 1)
           b == AccountOf(r, 2)
           amount == op[r].amount
           actor == op[r].actor
           at == stamp[r][1]
           later == stamp[r][2]
           left == accounts[a].balance - amount
           received == accounts[b].balance + amount
           out == [id |-> <<r, 1>>, account |-> a, counterparty |-> b,
                   type |-> "transfer_out", amount |-> amount, after |-> left,
                   by |-> actor.user, at |-> at]
           in == [id |-> <<r, 2>>, account |-> b, counterparty |-> a,
                  type |-> "transfer_in", amount |-> amount, after |-> received,
                  by |-> actor.user, at |-> later]
<1>0. Inv
  BY DEF LedgerInv
<1>1. LegCount(r) = 2 /\ amount \in 1..MaxInt /\ actor \in Actor
  <2>1. /\ op[r] \in MoneyInput \cup TransferInput /\ amount \in 1..MaxInt
    BY <1>0, AdmittedFacts DEF Admitted, Inside
  <2>2. actor \in Actor
    BY <2>1 DEF MoneyInput, TransferInput
  <2> QED BY <2>1, <2>2 DEF LegCount, Legs
<1>2. 1 \in 1..LegCount(r) /\ 2 \in 1..LegCount(r)
  BY <1>1
<1>3. /\ Legs(op[r])[1].type = "transfer_out" /\ Legs(op[r])[2].type = "transfer_in"
      /\ Legs(op[r])[1].counterparty = b /\ Legs(op[r])[2].counterparty = a
      /\ Change("transfer_out", amount) = -amount /\ Change("transfer_in", amount) = amount
  BY DEF Legs, Change, AccountOf
<1>4. /\ a \in Account /\ accounts[a] # Nil /\ accounts[a] \in AccountRow
      /\ left \in 0..MaxInt
      /\ copies[r][a] = [accounts[a] EXCEPT !.balance = left]
      /\ accounts'[a] = [accounts[a] EXCEPT !.balance = left]
  <2>1. /\ a \in Account /\ accounts[a] # Nil /\ accounts[a] \in AccountRow
        /\ accounts[a].balance + (-amount) \in 0..MaxInt
        /\ copies[r][a] = [accounts[a] EXCEPT !.balance = accounts[a].balance + (-amount)]
        /\ accounts'[a] = [accounts[a] EXCEPT !.balance = accounts[a].balance + (-amount)]
    BY <1>0, <1>2, <1>3, CommitMoves
  <2>2. accounts[a].balance + (-amount) = left
    BY <1>1, <2>1 DEF AccountRow
  <2> QED BY <2>1, <2>2
<1>5. /\ b \in Account /\ accounts[b] # Nil /\ accounts[b] \in AccountRow
      /\ received \in 0..MaxInt
      /\ copies[r][b] = [accounts[b] EXCEPT !.balance = received]
      /\ accounts'[b] = [accounts[b] EXCEPT !.balance = received]
      /\ a # b
  BY <1>0, <1>2, <1>3, CommitMoves
<1>6. accounts' = [accounts EXCEPT ![a].balance = left, ![b].balance = received]
  <2>1. \A c \in Account : c # a /\ c # b => accounts'[c] = accounts[c]
    <3>1. ASSUME NEW c \in Account, c # a, c # b
          PROVE  \A i \in 1..LegCount(r) : AccountOf(r, i) # c
      <4>1. \A i \in 1..LegCount(r) : i = 1 \/ i = 2
        BY <1>1
      <4> QED BY <3>1, <4>1
    <3> QED BY <1>0, <3>1, CommitMoves
  <2>2. /\ accounts \in [Account -> AccountRow \cup {Nil}]
        /\ accounts' = [c \in Account |-> accounts'[c]]
    BY <1>0 DEF CommitTx, Inv, TypeOK, PostgresTypeOK
  <2> HIDE DEF left, received, a, b
  <2> QED BY <1>4, <1>5, <2>1, <2>2
<1>7. NewTransaction(r, 1) = out /\ NewTransaction(r, 2) = in
  <2>1. copies[r][a].balance = left /\ copies[r][b].balance = received
    BY <1>4, <1>5 DEF AccountRow
  <2> QED BY <1>3, <2>1 DEF NewTransaction, AccountOf
<1>8. journal' = journal \o <<out, in>>
  <2>1. /\ inserts[r][1] = NewTransaction(r, 1) /\ inserts[r][2] = NewTransaction(r, 2)
        /\ inserts[r] \in Seq(TransactionRow) /\ Len(inserts[r]) = 2
        /\ journal' = journal \o inserts[r]
    BY <1>0, <1>1, <1>2, CommitAppends
  <2> HIDE DEF out, in
  <2>2. inserts[r] = <<out, in>>
    BY <1>7, <2>1
  <2> QED BY <2>1, <2>2
<1>9. CanAccess(actor, accounts[a]) /\ accounts[a].currency = accounts[b].currency
  <2>1. /\ CanAccess(actor, copies[r][a])
        /\ copies[r][a].currency = copies[r][b].currency
    BY DEF LedgerInv, JournalInv, CheckedInv
  <2>2. /\ copies[r][a].owner = accounts[a].owner
        /\ copies[r][a].currency = accounts[a].currency
        /\ copies[r][b].currency = accounts[b].currency
    BY <1>4, <1>5 DEF AccountRow
  <2> QED BY <2>1, <2>2 DEF CanAccess
<1>10. /\ Atomic!Unused(r) /\ at \in 0..MaxClock /\ later \in 0..MaxClock
       /\ Atomic!LaterThanAll(a, at) /\ Atomic!LaterThanAll(b, later)
       /\ at <= later
  <2>1. 1 \in 1..2
    OBVIOUS
  <2> QED BY <1>2, <2>1, CommitIsNew
<1>11. Atomic!Transfer(r, a, b, amount)
  <2> HIDE DEF a, b, amount, actor, at, later, out, in
  <2>1. Atomic!CanAccess(actor, accounts[a])
    BY <1>9 DEF CanAccess, Atomic!CanAccess
  <2>2. left >= 0 /\ received <= MaxInt
    BY <1>4, <1>5, MaxIntAssumption DEF MaxIntAssumption
  <2> QED BY <1>1, <1>6, <1>8, <1>9, <1>10, <2>1, <2>2 DEF Atomic!Transfer, out, in
<1> HIDE DEF a, b, amount
<1> QED BY <1>1, <1>4, <1>5, <1>11 DEF Atomic!Next, Atomic!Present

\* Every step of the handlers is one of the atomic ledger, or changes neither table.
LEMMA StepIsAtomic ==
  ASSUME LedgerInv, [Next]_vars
  PROVE  [Atomic!Next]_<<accounts, journal>>
<1>1. ASSUME NEW r \in Request,
             Advance(r) \/ Receive(r) \/ CommitUnacknowledged(r) \/ StatementFails(r)
               \/ BreakDeadlock(r)
      PROVE  Atomic!Next \/ UNCHANGED <<accounts, journal>>
  BY <1>1, OnlyCommitChangesTables, CommitMovesAtomically, CommitTransfersAtomically
<1>2. ASSUME NEW r \in Request, CreateAccount(r)
      PROVE  Atomic!Next \/ UNCHANGED <<accounts, journal>>
  <2>1. CASE \E a \in Account, actor \in Actor, currency \in Currency :
               /\ accounts[a] = Nil
               /\ accounts' = [accounts EXCEPT
                    ![a] = [owner |-> actor.user, currency |-> currency, balance |-> 0]]
               /\ journal' = journal
    BY <2>1 DEF Atomic!Next, Atomic!Open
  <2> QED BY <1>2, <2>1, CreateAccountOpens
<1>3. CASE Crash \/ Tick \/ AllDone \/ UNCHANGED vars
  BY <1>3 DEF Crash, RollbackTx, Tick, AllDone, vars, dbVars
<1> QED BY <1>1, <1>2, <1>3 DEF Next

\* The concurrent handlers implement the atomic ledger: whatever interleaves, fails or is
\* lost, the two tables go through states that single-step operations explain, each of
\* them authorised, covered and in range.
THEOREM LedgerIsAtomic == Spec => ImplementsAtomicLedger
<1>1. Init => Atomic!Init
  BY DEF Init, PostgresInit, Atomic!Init
<1>2. LedgerInv /\ [Next]_vars => [Atomic!Next]_<<accounts, journal>>
  BY StepIsAtomic
<1> QED BY <1>1, <1>2, LedgerInvHolds, PTL DEF Spec, ImplementsAtomicLedger, Atomic!Spec
-----------------------------------------------------------------------------
\* What the atomic ledger's operations leave in the journal, hence the handlers too.

RowsInv ==
  /\ HistoryIsInCommitOrder
  /\ RowsAreAuthorized
  /\ TransfersArePaired
  /\ \A k \in 1..Len(journal) :
       journal[k].counterparty # Nil => accounts[journal[k].counterparty] # Nil

\* No row goes or changes, nor does the owner or the currency of an account.
Keeps ==
  /\ Len(journal) \in Nat /\ Len(journal') \in Nat
  /\ Len(journal) <= Len(journal')
  /\ \A k \in 1..Len(journal) : journal'[k] = journal[k]
  /\ \A a \in Account : accounts[a] # Nil =>
       /\ accounts'[a] # Nil
       /\ accounts'[a].owner = accounts[a].owner
       /\ accounts'[a].currency = accounts[a].currency

\* Rows that were in order, authorised and paired stay so.
LEMMA OldRowsStay ==
  ASSUME LedgerInv, RowsInv, Keeps, NEW k \in 1..Len(journal)
  PROVE  /\ k \in 1..Len(journal')
         /\ journal'[k] = journal[k]
         /\ \/ accounts'[journal'[k].account].owner = journal'[k].by
            \/ [user |-> journal'[k].by, role |-> "admin"] \in Actor
            \/ journal'[k].type = "transfer_in"
         /\ journal'[k].type = "transfer_out" => \E j \in 1..Len(journal') : Sides(k, j)'
         /\ journal'[k].type = "transfer_in" => \E i \in 1..Len(journal') : Sides(i, k)'
         /\ journal'[k].counterparty # Nil =>
              /\ accounts'[journal'[k].counterparty] # Nil
              /\ journal'[k].counterparty # journal'[k].account
              /\ accounts'[journal'[k].counterparty].currency
                   = accounts'[journal'[k].account].currency
<1>1. k \in 1..Len(journal') /\ journal'[k] = journal[k]
  BY DEF Keeps
<1>2. /\ journal[k].account \in Account /\ accounts[journal[k].account] # Nil
      /\ journal[k].counterparty # Nil => journal[k].counterparty \in Account
  <2>1. journal[k] \in TransactionRow
    BY CommittedRowFacts DEF LedgerInv
  <2>2. journal[k].counterparty # Nil => journal[k].counterparty \in Account
    BY <2>1 DEF TransactionRow
  <2> QED BY <2>2, CommittedRowFacts DEF LedgerInv
<1>3. /\ accounts'[journal[k].account].owner = accounts[journal[k].account].owner
      /\ accounts'[journal[k].account].currency = accounts[journal[k].account].currency
  BY <1>2 DEF Keeps
<1>4. ASSUME NEW i \in 1..Len(journal), NEW j \in 1..Len(journal), Sides(i, j)
      PROVE  Sides(i, j)' /\ i \in 1..Len(journal') /\ j \in 1..Len(journal')
  BY <1>4 DEF Keeps, Sides
<1>5. journal[k].counterparty # Nil =>
              /\ accounts'[journal[k].counterparty] # Nil
              /\ journal[k].counterparty # journal[k].account
              /\ accounts'[journal[k].counterparty].currency
                   = accounts'[journal[k].account].currency
  BY <1>2, <1>3 DEF RowsInv, TransfersArePaired, Keeps
<1>6. /\ journal[k].type = "transfer_out" => \E j \in 1..Len(journal') : Sides(k, j)'
      /\ journal[k].type = "transfer_in" => \E i \in 1..Len(journal') : Sides(i, k)'
  BY <1>4 DEF RowsInv, TransfersArePaired
<1>7. \/ accounts'[journal[k].account].owner = journal[k].by
      \/ [user |-> journal[k].by, role |-> "admin"] \in Actor
      \/ journal[k].type = "transfer_in"
  BY <1>3 DEF RowsInv, RowsAreAuthorized
<1> QED BY <1>1, <1>5, <1>6, <1>7

\* Whoever may act on an account is its owner or an administrator.
LEMMA AccessMeans ==
  ASSUME NEW actor \in Actor, NEW row, Atomic!CanAccess(actor, row)
  PROVE  row.owner = actor.user \/ [user |-> actor.user, role |-> "admin"] \in Actor
<1>1. CASE actor.role = "admin"
  <2>1. actor = [user |-> actor.user, role |-> "admin"]
    BY <1>1, ActorAssumption DEF ActorAssumption
  <2> QED BY <2>1
<1> QED BY <1>1 DEF Atomic!CanAccess

LEMMA OpenKeepsRows ==
  ASSUME LedgerInv, RowsInv, NEW x \in Account, Atomic!Open(x)
  PROVE  RowsInv'
<1>1. /\ journal' = journal /\ accounts[x] = Nil
      /\ \E row : accounts' = [accounts EXCEPT ![x] = row]
  BY DEF Atomic!Open
<1>2. Keeps
  BY <1>1 DEF Keeps, LedgerInv, Inv, TypeOK, PostgresTypeOK
<1>3. HistoryIsInCommitOrder'
  BY <1>1 DEF RowsInv, HistoryIsInCommitOrder
<1>4. RowsAreAuthorized'
  BY <1>1, <1>2, OldRowsStay DEF RowsAreAuthorized
<1>5. TransfersArePaired'
  BY <1>1, <1>2, OldRowsStay DEF TransfersArePaired
<1> QED BY <1>1, <1>2, <1>3, <1>4, <1>5, OldRowsStay DEF RowsInv

\* The row of a deposit or a withdrawal is in order, authorised and no transfer.
LEMMA MoveKeepsRows ==
  ASSUME LedgerInv, RowsInv, NEW r \in Request, NEW a \in Account, accounts[a] # Nil,
         NEW type \in {"deposit", "withdrawal"}, NEW amount \in 1..MaxInt,
         Atomic!Move(r, a, type, amount)
  PROVE  RowsInv'
<1>1. PICK actor \in Actor, at \in 0..MaxClock, after \in 0..MaxInt :
        /\ Atomic!LaterThanAll(a, at)
        /\ Atomic!CanAccess(actor, accounts[a])
        /\ accounts' = [accounts EXCEPT ![a].balance = after]
        /\ journal' = Append(journal,
             [id |-> <<r, 1>>, account |-> a, counterparty |-> Nil, type |-> type,
              amount |-> amount, after |-> after, by |-> actor.user, at |-> at])
  BY DEF Atomic!Move
<1> DEFINE n == Len(journal)
           row == [id |-> <<r, 1>>, account |-> a, counterparty |-> Nil, type |-> type,
                   amount |-> amount, after |-> after, by |-> actor.user, at |-> at]
<1>2. /\ n \in Nat /\ Len(journal') = n + 1 /\ journal'[n + 1] = row
      /\ \A k \in 1..n : journal'[k] = journal[k]
      /\ \A k \in 1..(n + 1) : k \in 1..n \/ k = n + 1
  <2>1. journal \in Seq(TransactionRow)
    BY DEF LedgerInv, Inv, TypeOK, PostgresTypeOK
  <2> QED BY <1>1, <2>1
<1>3. accounts[a] \in AccountRow
  BY DEF LedgerInv, Inv, TypeOK, PostgresTypeOK
<1>4. Keeps
  <2>1. /\ accounts'[a] \in AccountRow
        /\ accounts'[a].owner = accounts[a].owner
        /\ accounts'[a].currency = accounts[a].currency
        /\ \A b \in Account : b # a => accounts'[b] = accounts[b]
    BY <1>1, <1>3 DEF LedgerInv, Inv, TypeOK, PostgresTypeOK, AccountRow
  <2>2. accounts'[a] # Nil
    BY <2>1, NilIsNothingElse DEF AccountRow, AccountCopy
  <2> QED BY <1>2, <2>1, <2>2 DEF Keeps
<1>5. /\ row.account = a /\ row.at = at /\ row.by = actor.user /\ row.type = type
      /\ row.counterparty = Nil
  OBVIOUS
<1>6. \A k \in 1..n : journal[k].account = a => journal[k].at <= at
  BY <1>1 DEF Atomic!LaterThanAll
<1>7. accounts'[a].owner = actor.user \/ [user |-> actor.user, role |-> "admin"] \in Actor
  BY <1>1, <1>4, AccessMeans DEF Keeps
<1> HIDE DEF n, row
<1>8. HistoryIsInCommitOrder'
  <2>1. ASSUME NEW j \in 1..(n + 1), NEW i \in 1..j,
               journal'[i].account = journal'[j].account
        PROVE  journal'[i].at <= journal'[j].at
    <3>1. CASE j \in 1..n
      <4>1. i \in 1..n
        BY <1>2, <3>1
      <4> QED BY <1>2, <2>1, <3>1, <4>1 DEF RowsInv, HistoryIsInCommitOrder, n
    <3>2. CASE j = n + 1 /\ i \in 1..n
      BY <1>2, <1>5, <1>6, <2>1, <3>2
    <3>3. CASE j = n + 1 /\ i = n + 1
      BY <1>2, <1>5, <3>3
    <3>4. i \in 1..(n + 1)
      BY <1>2
    <3> QED BY <1>2, <3>1, <3>2, <3>3, <3>4
  <2> QED BY <1>2, <2>1 DEF HistoryIsInCommitOrder
<1>9. RowsAreAuthorized'
  BY <1>2, <1>4, <1>5, <1>7, OldRowsStay DEF RowsAreAuthorized, n
<1>10. TransfersArePaired'
  BY <1>2, <1>4, <1>5, OldRowsStay DEF TransfersArePaired, n
<1>11. \A k \in 1..Len(journal') :
         journal'[k].counterparty # Nil => accounts'[journal'[k].counterparty] # Nil
  BY <1>2, <1>4, <1>5, OldRowsStay DEF n
<1> QED BY <1>8, <1>9, <1>10, <1>11 DEF RowsInv

\* The rows of a transfer are each other's sides.
LEMMA TransferKeepsRows ==
  ASSUME LedgerInv, RowsInv, NEW r \in Request, NEW a \in Account, accounts[a] # Nil,
         NEW b \in Account, accounts[b] # Nil, a # b, NEW amount \in 1..MaxInt,
         Atomic!Transfer(r, a, b, amount)
  PROVE  RowsInv'
<1>1. PICK actor \in Actor, at \in 0..MaxClock, later \in 0..MaxClock :
        LET left == accounts[a].balance - amount
            received == accounts[b].balance + amount
        IN  /\ at <= later
            /\ Atomic!LaterThanAll(a, at) /\ Atomic!LaterThanAll(b, later)
            /\ Atomic!CanAccess(actor, accounts[a])
            /\ accounts[a].currency = accounts[b].currency
            /\ accounts' = [accounts EXCEPT ![a].balance = left, ![b].balance = received]
            /\ journal' = journal \o
                 <<[id |-> <<r, 1>>, account |-> a, counterparty |-> b,
                    type |-> "transfer_out", amount |-> amount, after |-> left,
                    by |-> actor.user, at |-> at],
                   [id |-> <<r, 2>>, account |-> b, counterparty |-> a,
                    type |-> "transfer_in", amount |-> amount, after |-> received,
                    by |-> actor.user, at |-> later]>>
  BY DEF Atomic!Transfer
<1>0. PICK n \in Nat : n = Len(journal)
  BY DEF LedgerInv, Inv, TypeOK, PostgresTypeOK
<1> DEFINE left == accounts[a].balance - amount
           received == accounts[b].balance + amount
           out == [id |-> <<r, 1>>, account |-> a, counterparty |-> b,
                   type |-> "transfer_out", amount |-> amount, after |-> left,
                   by |-> actor.user, at |-> at]
           in == [id |-> <<r, 2>>, account |-> b, counterparty |-> a,
                  type |-> "transfer_in", amount |-> amount, after |-> received,
                  by |-> actor.user, at |-> later]
<1>2. /\ n \in Nat /\ Len(journal') = n + 2
      /\ journal'[n + 1] = out /\ journal'[n + 2] = in
      /\ \A k \in 1..n : journal'[k] = journal[k]
      /\ \A k \in 1..(n + 2) : k \in 1..n \/ k = n + 1 \/ k = n + 2
      /\ n + 1 \in 1..(n + 2) /\ n + 2 \in 1..(n + 2)
  <2>1. journal \in Seq(TransactionRow) /\ journal' = journal \o <<out, in>>
    BY <1>1 DEF LedgerInv, Inv, TypeOK, PostgresTypeOK
  <2> HIDE DEF out, in
  <2>2. /\ Len(journal') = Len(journal) + 2
        /\ journal'[Len(journal) + 1] = out /\ journal'[Len(journal) + 2] = in
        /\ \A k \in 1..Len(journal) : journal'[k] = journal[k]
    BY <2>1
  <2>3. /\ Len(journal') = n + 2 /\ journal'[n + 1] = out /\ journal'[n + 2] = in
        /\ \A k \in 1..n : journal'[k] = journal[k]
    BY <1>0, <2>2
  <2> QED BY <1>0, <2>3
<1>3. accounts[a] \in AccountRow /\ accounts[b] \in AccountRow
  BY DEF LedgerInv, Inv, TypeOK, PostgresTypeOK
<1>4. /\ Keeps
      /\ accounts'[a] # Nil /\ accounts'[b] # Nil
      /\ accounts'[a].owner = accounts[a].owner
      /\ accounts'[a].currency = accounts'[b].currency
  <2>1. accounts' = [accounts EXCEPT ![a].balance = left, ![b].balance = received]
    BY <1>1
  <2>2. left \in Int /\ received \in Int
    BY <1>3 DEF AccountRow
  <2> HIDE DEF left, received
  <2>3. /\ accounts'[a] = [accounts[a] EXCEPT !.balance = left]
        /\ accounts'[b] = [accounts[b] EXCEPT !.balance = received]
        /\ \A c \in Account : c # a /\ c # b => accounts'[c] = accounts[c]
    BY <2>1 DEF LedgerInv, Inv, TypeOK, PostgresTypeOK
  <2>4. ASSUME NEW row \in AccountRow, NEW balance \in Int
        PROVE  LET moved == [row EXCEPT !.balance = balance]
               IN  /\ moved \in AccountCopy
                   /\ moved.owner = row.owner /\ moved.currency = row.currency
    BY DEF AccountRow, AccountCopy
  <2>7. /\ accounts'[a] \in AccountCopy /\ accounts'[a].owner = accounts[a].owner
        /\ accounts'[a].currency = accounts[a].currency
    BY <1>3, <2>2, <2>3, <2>4
  <2>8. /\ accounts'[b] \in AccountCopy /\ accounts'[b].owner = accounts[b].owner
        /\ accounts'[b].currency = accounts[b].currency
    BY <1>3, <2>2, <2>3, <2>4
  <2>5. accounts'[a] # Nil /\ accounts'[b] # Nil
    BY <2>7, <2>8, NilIsNothingElse
  <2>6. accounts[a].currency = accounts[b].currency
    BY <1>1
  <2>9. Len(journal) \in Nat /\ Len(journal') \in Nat /\ Len(journal) <= Len(journal')
    BY <1>0, <1>2
  <2>10. \A k \in 1..Len(journal) : journal'[k] = journal[k]
    BY <1>0, <1>2
  <2> QED BY <2>3, <2>5, <2>6, <2>7, <2>8, <2>9, <2>10 DEF Keeps
<1>5. /\ out.account = a /\ out.at = at /\ out.by = actor.user /\ out.type = "transfer_out"
      /\ out.counterparty = b /\ out.id[1] = r /\ out.amount = amount
      /\ in.account = b /\ in.at = later /\ in.by = actor.user /\ in.type = "transfer_in"
      /\ in.counterparty = a /\ in.id[1] = r /\ in.amount = amount
  OBVIOUS
<1>6. /\ \A k \in 1..n : journal[k].account = a => journal[k].at <= at
      /\ \A k \in 1..n : journal[k].account = b => journal[k].at <= later
      /\ at <= later
  BY <1>0, <1>1 DEF Atomic!LaterThanAll
<1>7. accounts'[a].owner = actor.user \/ [user |-> actor.user, role |-> "admin"] \in Actor
  BY <1>1, <1>4, AccessMeans
<1> HIDE DEF out, in, left, received
<1>8. HistoryIsInCommitOrder'
  <2>1. ASSUME NEW j \in 1..(n + 2), NEW i \in 1..j,
               journal'[i].account = journal'[j].account
        PROVE  journal'[i].at <= journal'[j].at
    <3>0. i \in 1..(n + 2) /\ i <= j
      BY <1>2
    <3>1. CASE j \in 1..n
      <4>1. i \in 1..n
        BY <1>2, <3>1
      <4> QED BY <1>0, <1>2, <2>1, <3>1, <4>1 DEF RowsInv, HistoryIsInCommitOrder
    <3>2. CASE j \notin 1..n /\ i \in 1..n
      BY <1>2, <1>5, <1>6, <2>1, <3>2
    <3>3. CASE i = j
      <4>1. journal'[j].at \in {at, later} \/ j \in 1..n
        BY <1>2, <1>5
      <4> QED BY <3>1, <3>3, <4>1
    <3>4. CASE i = n + 1 /\ j = n + 2
      BY <1>2, <1>5, <2>1, <3>4
    <3> QED BY <1>2, <3>0, <3>1, <3>2, <3>3, <3>4
  <2> QED BY <1>2, <2>1 DEF HistoryIsInCommitOrder
<1>9. RowsAreAuthorized'
  <2>1. ASSUME NEW k \in 1..(n + 2)
        PROVE  journal'[k].type # "transfer_in" =>
                 \/ accounts'[journal'[k].account].owner = journal'[k].by
                 \/ [user |-> journal'[k].by, role |-> "admin"] \in Actor
    <3>1. CASE k \in 1..n
      BY <1>0, <1>4, <3>1, OldRowsStay
    <3>2. CASE k = n + 1
      BY <1>2, <1>5, <1>7, <3>2
    <3>3. CASE k = n + 2
      BY <1>2, <1>5, <3>3
    <3> QED BY <1>2, <3>1, <3>2, <3>3
  <2> QED BY <1>2, <2>1 DEF RowsAreAuthorized
<1>10. Sides(n + 1, n + 2)'
  BY <1>2, <1>5, <1>6 DEF Sides
<1>11. TransfersArePaired'
  <2>1. ASSUME NEW k \in 1..(n + 2)
        PROVE  /\ journal'[k].type = "transfer_out" =>
                    \E j \in 1..(n + 2) : Sides(k, j)'
               /\ journal'[k].type = "transfer_in" =>
                    \E i \in 1..(n + 2) : Sides(i, k)'
               /\ journal'[k].counterparty # Nil =>
                    /\ journal'[k].counterparty # journal'[k].account
                    /\ accounts'[journal'[k].counterparty].currency
                         = accounts'[journal'[k].account].currency
    <3>1. CASE k \in 1..n
      BY <1>0, <1>2, <1>4, <3>1, OldRowsStay
    <3>2. CASE k = n + 1
      <4>1. journal'[k].type = "transfer_out" /\ Sides(k, n + 2)' /\ n + 2 \in 1..(n + 2)
        BY <1>2, <1>5, <1>10, <3>2
      <4>2. /\ journal'[k].counterparty = b /\ journal'[k].account = a
            /\ journal'[k].type # "transfer_in"
        BY <1>2, <1>5, <3>2
      <4> QED BY <1>4, <4>1, <4>2
    <3>3. CASE k = n + 2
      <4>1. journal'[k].type = "transfer_in" /\ Sides(n + 1, k)' /\ n + 1 \in 1..(n + 2)
        BY <1>2, <1>5, <1>10, <3>3
      <4>2. /\ journal'[k].counterparty = a /\ journal'[k].account = b
            /\ journal'[k].type # "transfer_out"
        BY <1>2, <1>5, <3>3
      <4> QED BY <1>4, <4>1, <4>2
    <3> QED BY <1>2, <3>1, <3>2, <3>3
  <2> QED BY <1>2, <2>1 DEF TransfersArePaired
<1>12. \A k \in 1..Len(journal') :
         journal'[k].counterparty # Nil => accounts'[journal'[k].counterparty] # Nil
  BY <1>0, <1>2, <1>4, <1>5, OldRowsStay
<1> QED BY <1>8, <1>9, <1>11, <1>12 DEF RowsInv

LEMMA AtomicStepKeepsRows ==
  ASSUME LedgerInv, RowsInv, [Atomic!Next]_<<accounts, journal>>
  PROVE  RowsInv'
<1>1. CASE UNCHANGED <<accounts, journal>>
  BY <1>1 DEF RowsInv, HistoryIsInCommitOrder, RowsAreAuthorized, TransfersArePaired, Sides
<1>2. CASE Atomic!Next
  BY <1>2, OpenKeepsRows, MoveKeepsRows, TransferKeepsRows DEF Atomic!Next, Atomic!Present
<1> QED BY <1>1, <1>2

LEMMA RowsInvHolds == Spec => []RowsInv
<1>1. Init => RowsInv
  <2> SUFFICES ASSUME Init
               PROVE  RowsInv
    OBVIOUS
  <2>1. Len(journal) = 0 /\ \A i \in 1..0 : FALSE
    BY DEF Init, PostgresInit
  <2> QED BY <2>1 DEF RowsInv, HistoryIsInCommitOrder, RowsAreAuthorized, TransfersArePaired
<1>2. LedgerInv /\ RowsInv /\ [Next]_vars => RowsInv'
  BY StepIsAtomic, AtomicStepKeepsRows
<1> QED BY <1>1, <1>2, LedgerInvHolds, PTL DEF Spec

\* The two rows of a transfer are in the journal together or not at all, and agree.
THEOREM TransfersAreWhole == Spec => []TransfersArePaired
<1>1. RowsInv => TransfersArePaired
  BY DEF RowsInv
<1> QED BY <1>1, RowsInvHolds, PTL

\* The times of an account's rows are in the order in which they were committed.
THEOREM HistoryIsOrdered == Spec => []HistoryIsInCommitOrder
<1>1. RowsInv => HistoryIsInCommitOrder
  BY DEF RowsInv
<1> QED BY <1>1, RowsInvHolds, PTL

\* No row tells of money that somebody without access took from an account.
THEOREM MovementsAreAuthorized == Spec => []RowsAreAuthorized
<1>1. RowsInv => RowsAreAuthorized
  BY DEF RowsInv
<1> QED BY <1>1, RowsInvHolds, PTL
-----------------------------------------------------------------------------
\* Sums over finite sets.  SumFunctionOnSet is a recursive function on the subsets of a
\* set; the inductions below look at a smallest counterexample.

\* Among sets of subsets of a finite set there is one that contains no other.
LEMMA SmallestSet ==
  ASSUME NEW S, IsFiniteSet(S), NEW P \in SUBSET (SUBSET S), P # {}
  PROVE  \E U \in P : \A V \in P : V \subseteq U => V = U
<1> DEFINE less == OpToRel(<, Nat)
           sizes == {Cardinality(U) : U \in P}
<1>1. \A U \in P : IsFiniteSet(U) /\ Cardinality(U) \in Nat
  BY FS_Subset, FS_CardinalityType
<1>2. sizes \in SUBSET Nat /\ sizes # {}
  BY <1>1
<1>3. IsWellFoundedOn(less, Nat)
  BY NatLessThanWellFounded, Zenon
<1>4. \A m, k \in Nat : <<m, k>> \in less <=> m < k
  BY DEF OpToRel
<1> HIDE DEF less
<1>5. PICK n \in sizes : \A m \in sizes : ~(<<m, n>> \in less)
  <2> HIDE DEF sizes
  <2> QED BY <1>2, <1>3, WFMin
<1>6. PICK U \in P : n = Cardinality(U)
  OBVIOUS
<1>7. ASSUME NEW V \in P, V \subseteq U, V # U
      PROVE  FALSE
  <2>1. Cardinality(V) \in sizes /\ Cardinality(V) \in Nat /\ n \in Nat
    BY <1>1, <1>6
  <2>2. ~(Cardinality(V) < n)
    BY <1>4, <1>5, <2>1
  <2>3. Cardinality(V) <= n /\ (Cardinality(V) = n => V = U)
    BY <1>1, <1>6, <1>7, FS_Subset
  <2> QED BY <1>7, <2>1, <2>2, <2>3
<1> QED BY <1>7

\* The recursive function that sums f over the subsets of S.
Summing(f, S, g) ==
  g = [s \in SUBSET S |-> IF s = {} THEN 0
                          ELSE f[CHOOSE x \in s : TRUE] + g[s \ {CHOOSE x \in s : TRUE}]]

LEMMA SumUnfolded ==
  ASSUME NEW f, NEW S
  PROVE  SumFunctionOnSet(f, S) = (CHOOSE g : Summing(f, S, g))[S]
BY DEF SumFunctionOnSet, FoldFunctionOnSet, MapThenFoldSet, Summing

\* Two such functions agree where both are defined.
LEMMA SummingIsUnique ==
  ASSUME NEW f, NEW S, NEW T, NEW U \in SUBSET S, U \in SUBSET T, IsFiniteSet(U),
         NEW g, Summing(f, S, g), NEW h, Summing(f, T, h)
  PROVE  g[U] = h[U]
<1> DEFINE P == {V \in SUBSET U : g[V] # h[V]}
<1> SUFFICES ASSUME P # {}
             PROVE  FALSE
  OBVIOUS
<1>1. PICK V \in P : \A W \in P : W \subseteq V => W = V
  <2>1. P \in SUBSET (SUBSET U)
    OBVIOUS
  <2> HIDE DEF P
  <2> QED BY <2>1, SmallestSet
<1>2. V \in SUBSET S /\ V \in SUBSET T
  OBVIOUS
<1>3. CASE V = {}
  <2>1. g[V] = 0 /\ h[V] = 0
    BY <1>2, <1>3 DEF Summing
  <2> QED BY <2>1
<1>4. CASE V # {}
  <2>1. PICK x \in V : x = CHOOSE y \in V : TRUE
    BY <1>4
  <2>2. V \ {x} \in SUBSET V /\ V \ {x} # V
    BY <2>1
  <2>3. g[V \ {x}] = h[V \ {x}]
    BY <1>1, <2>2
  <2>4. g[V] = f[x] + g[V \ {x}] /\ h[V] = f[x] + h[V \ {x}]
    BY <1>2, <1>4, <2>1 DEF Summing
  <2> QED BY <2>3, <2>4
<1> QED BY <1>3, <1>4

LEMMA SummingExists ==
  ASSUME NEW f, NEW S, IsFiniteSet(S)
  PROVE  \E g : Summing(f, S, g)
<1> DEFINE P == {V \in SUBSET S : ~\E g : Summing(f, V, g)}
<1> SUFFICES ASSUME P # {}
             PROVE  FALSE
  OBVIOUS
<1>1. PICK U \in P : \A V \in P : V \subseteq U => V = U
  <2>1. P \in SUBSET (SUBSET S)
    OBVIOUS
  <2> HIDE DEF P
  <2> QED BY <2>1, SmallestSet
<1> DEFINE first(s) == CHOOSE x \in s : TRUE
           below(t) == CHOOSE h : Summing(f, t, h)
           g == [s \in SUBSET U |-> IF s = {} THEN 0
                                    ELSE f[first(s)] + below(s \ {first(s)})[s \ {first(s)}]]
<1>2. \A t \in SUBSET U : t # U => Summing(f, t, below(t))
  <2>1. \A t \in SUBSET U : t # U => \E h : Summing(f, t, h)
    BY <1>1
  <2> QED BY <2>1
<1>3. \A s \in SUBSET U : s # {} => first(s) \in s /\ s \ {first(s)} \in SUBSET U
                                    /\ s \ {first(s)} # U
  OBVIOUS
<1>4. \A t \in SUBSET U : IsFiniteSet(t)
  BY FS_Subset
<1>5. ASSUME NEW t \in SUBSET U, t # U
      PROVE  g[t] = below(t)[t]
  <2>1. Summing(f, t, below(t))
    BY <1>2, <1>5
  <2>2. PICK h : h = below(t)
    OBVIOUS
  <2>3. CASE t = {}
    <3>1. h[t] = 0
      BY <2>1, <2>2, <2>3 DEF Summing
    <3>2. g[t] = 0
      BY <2>3
    <3> QED BY <2>2, <3>1, <3>2
  <2>4. CASE t # {}
    <3>1. PICK u \in SUBSET t : u = t \ {first(t)}
      OBVIOUS
    <3>2. h[t] = f[first(t)] + h[u]
      BY <2>1, <2>2, <2>4, <3>1 DEF Summing
    <3>3. u # U /\ u \in SUBSET U /\ Summing(f, u, below(u)) /\ IsFiniteSet(u)
      BY <1>2, <1>3, <1>4, <2>4, <3>1
    <3>4. h[u] = below(u)[u]
      <4> HIDE DEF below
      <4> QED BY <2>1, <2>2, <3>3, SummingIsUnique
    <3>5. g[t] = f[first(t)] + below(u)[u]
      BY <2>4, <3>1
    <3> QED BY <2>2, <3>2, <3>4, <3>5
  <2> QED BY <2>3, <2>4
<1>6. g = [s \in SUBSET U |-> IF s = {} THEN 0 ELSE f[first(s)] + g[s \ {first(s)}]]
  <2>1. \A s \in SUBSET U : s # {} =>
          g[s \ {first(s)}] = below(s \ {first(s)})[s \ {first(s)}]
    BY <1>3, <1>5
  <2> HIDE DEF below, first
  <2> QED BY <2>1
<1>7. Summing(f, U, g)
  <2>1. PICK k : k = g
    OBVIOUS
  <2>2. k = [s \in SUBSET U |-> IF s = {} THEN 0 ELSE f[first(s)] + k[s \ {first(s)}]]
    <3> HIDE DEF g, first, below
    <3> QED BY <1>6, <2>1, Zenon
  <2>3. Summing(f, U, k)
    BY <2>2 DEF Summing
  <2> QED BY <2>1, <2>3
<1> QED BY <1>7

\* The sum does not depend on the set in which it is taken.
LEMMA SumIsSumming ==
  ASSUME NEW f, NEW S, IsFiniteSet(S)
  PROVE  \E g : /\ Summing(f, S, g)
                /\ \A U \in SUBSET S : SumFunctionOnSet(f, U) = g[U]
<1>1. PICK g : Summing(f, S, g)
  BY SummingExists
<1>2. ASSUME NEW U \in SUBSET S
      PROVE  SumFunctionOnSet(f, U) = g[U]
  <2>1. IsFiniteSet(U)
    BY FS_Subset
  <2>2. PICK h : h = CHOOSE k : Summing(f, U, k)
    OBVIOUS
  <2>3. Summing(f, U, h)
    BY <2>1, <2>2, SummingExists
  <2>4. h[U] = g[U]
    BY <1>1, <2>1, <2>3, SummingIsUnique
  <2> QED BY <2>2, <2>4, SumUnfolded
<1> QED BY <1>1, <1>2

LEMMA SumOfNothing == ASSUME NEW f PROVE SumFunctionOnSet(f, {}) = 0
<1>1. IsFiniteSet({}) /\ {} \in SUBSET {}
  BY FS_EmptySet
<1>2. PICK g : Summing(f, {}, g) /\ \A U \in SUBSET {} : SumFunctionOnSet(f, U) = g[U]
  BY <1>1, SumIsSumming
<1>3. g[{}] = 0
  BY <1>2 DEF Summing
<1> QED BY <1>1, <1>2, <1>3

\* Some element can be taken out, the same one whatever is summed.
LEMMA SumOfFirst ==
  ASSUME NEW S, IsFiniteSet(S), S # {}
  PROVE  \E x \in S : \A f :
           SumFunctionOnSet(f, S) = f[x] + SumFunctionOnSet(f, S \ {x})
<1>1. PICK x \in S : x = CHOOSE y \in S : TRUE
  OBVIOUS
<1>2. ASSUME NEW f
      PROVE  SumFunctionOnSet(f, S) = f[x] + SumFunctionOnSet(f, S \ {x})
  <2>1. PICK g : Summing(f, S, g) /\ \A U \in SUBSET S : SumFunctionOnSet(f, U) = g[U]
    BY SumIsSumming
  <2>2. g[S] = f[x] + g[S \ {x}]
    BY <1>1, <2>1 DEF Summing
  <2> QED BY <2>1, <2>2
<1> QED BY <1>2

LEMMA SumIsInteger ==
  ASSUME NEW f, NEW S, IsFiniteSet(S), \A x \in S : f[x] \in Int
  PROVE  SumFunctionOnSet(f, S) \in Int
<1> DEFINE P == {V \in SUBSET S : SumFunctionOnSet(f, V) \notin Int}
<1> SUFFICES ASSUME P # {}
             PROVE  FALSE
  OBVIOUS
<1>1. PICK V \in P : \A W \in P : W \subseteq V => W = V
  <2>1. P \in SUBSET (SUBSET S)
    OBVIOUS
  <2> HIDE DEF P
  <2> QED BY <2>1, SmallestSet
<1>2. V # {}
  BY SumOfNothing
<1>3. IsFiniteSet(V)
  BY FS_Subset
<1>4. PICK x \in V : \A k : SumFunctionOnSet(k, V) = k[x] + SumFunctionOnSet(k, V \ {x})
  BY <1>2, <1>3, SumOfFirst
<1>5. SumFunctionOnSet(f, V \ {x}) \in Int /\ f[x] \in Int
  BY <1>1
<1> QED BY <1>4, <1>5

\* Any element may be taken out.
LEMMA SumWithout ==
  ASSUME NEW f, NEW S, IsFiniteSet(S), \A x \in S : f[x] \in Int, NEW y \in S
  PROVE  SumFunctionOnSet(f, S) = f[y] + SumFunctionOnSet(f, S \ {y})
<1> DEFINE P == {V \in SUBSET S :
                   \E z \in V : SumFunctionOnSet(f, V) # f[z] + SumFunctionOnSet(f, V \ {z})}
<1> SUFFICES ASSUME P # {}
             PROVE  FALSE
  OBVIOUS
<1>1. PICK V \in P : \A W \in P : W \subseteq V => W = V
  <2>1. P \in SUBSET (SUBSET S)
    OBVIOUS
  <2> HIDE DEF P
  <2> QED BY <2>1, SmallestSet
<1>2. PICK z \in V : SumFunctionOnSet(f, V) # f[z] + SumFunctionOnSet(f, V \ {z})
  OBVIOUS
<1>3. IsFiniteSet(V) /\ V # {}
  BY FS_Subset
<1>4. PICK x \in V : \A k : SumFunctionOnSet(k, V) = k[x] + SumFunctionOnSet(k, V \ {x})
  BY <1>3, SumOfFirst
<1>5. x # z
  BY <1>2, <1>4
<1> DEFINE rest == (V \ {x}) \ {z}
<1>6. V \ {x} \in SUBSET S /\ V \ {z} \in SUBSET S /\ z \in V \ {x} /\ x \in V \ {z}
      /\ rest = (V \ {z}) \ {x}
  BY <1>5
<1>7. V \ {x} \notin P /\ V \ {z} \notin P
  BY <1>1, <1>2
<1>8. SumFunctionOnSet(f, V \ {x}) = f[z] + SumFunctionOnSet(f, rest)
  BY <1>6, <1>7
<1>9. SumFunctionOnSet(f, V \ {z}) = f[x] + SumFunctionOnSet(f, rest)
  BY <1>6, <1>7
<1>10. IsFiniteSet(rest) /\ \A v \in rest : f[v] \in Int
  BY <1>3, FS_Subset
<1>11. SumFunctionOnSet(f, rest) \in Int /\ f[x] \in Int /\ f[z] \in Int
  <2> HIDE DEF rest
  <2> QED BY <1>10, SumIsInteger
<1> HIDE DEF rest, P
<1> QED BY <1>2, <1>4, <1>8, <1>9, <1>11

\* Only the values on the set count.
LEMMA SumsAgree ==
  ASSUME NEW f, NEW h, NEW S, IsFiniteSet(S), \A x \in S : f[x] = h[x]
  PROVE  SumFunctionOnSet(f, S) = SumFunctionOnSet(h, S)
<1> DEFINE P == {V \in SUBSET S : SumFunctionOnSet(f, V) # SumFunctionOnSet(h, V)}
<1> SUFFICES ASSUME P # {}
             PROVE  FALSE
  OBVIOUS
<1>1. PICK V \in P : \A W \in P : W \subseteq V => W = V
  <2>1. P \in SUBSET (SUBSET S)
    OBVIOUS
  <2> HIDE DEF P
  <2> QED BY <2>1, SmallestSet
<1>2. V # {}
  BY SumOfNothing
<1>3. IsFiniteSet(V)
  BY FS_Subset
<1>4. PICK x \in V : \A k : SumFunctionOnSet(k, V) = k[x] + SumFunctionOnSet(k, V \ {x})
  BY <1>2, <1>3, SumOfFirst
<1>5. SumFunctionOnSet(f, V \ {x}) = SumFunctionOnSet(h, V \ {x}) /\ f[x] = h[x]
  BY <1>1
<1>6. /\ SumFunctionOnSet(f, V) = f[x] + SumFunctionOnSet(f, V \ {x})
      /\ SumFunctionOnSet(h, V) = h[x] + SumFunctionOnSet(h, V \ {x})
  BY <1>4
<1>7. V \notin P
  BY <1>5, <1>6
<1> QED BY <1>7

\* One value changes.
LEMMA SumOfChange ==
  ASSUME NEW S, IsFiniteSet(S), NEW f \in [S -> Int], NEW h \in [S -> Int], NEW y \in S,
         \A x \in S : x # y => f[x] = h[x]
  PROVE  SumFunctionOnSet(h, S) = SumFunctionOnSet(f, S) + (h[y] - f[y])
<1> DEFINE rest == S \ {y}
<1>1. IsFiniteSet(rest) /\ \A x \in rest : f[x] = h[x] /\ f[x] \in Int
  BY FS_Subset
<1>2. SumFunctionOnSet(f, rest) = SumFunctionOnSet(h, rest)
  <2> HIDE DEF rest
  <2> QED BY <1>1, SumsAgree
<1>3. SumFunctionOnSet(f, rest) \in Int
  <2> HIDE DEF rest
  <2> QED BY <1>1, SumIsInteger
<1>4. \A x \in S : f[x] \in Int /\ h[x] \in Int
  OBVIOUS
<1>5. SumFunctionOnSet(f, S) = f[y] + SumFunctionOnSet(f, rest)
  BY <1>4, SumWithout
<1>6. SumFunctionOnSet(h, S) = h[y] + SumFunctionOnSet(h, rest)
  BY <1>4, SumWithout
<1>7. f[y] \in Int /\ h[y] \in Int
  OBVIOUS
<1> HIDE DEF rest
<1> QED BY <1>2, <1>3, <1>5, <1>6, <1>7

\* Two values change.
LEMMA SumOfTwoChanges ==
  ASSUME NEW S, IsFiniteSet(S), NEW f \in [S -> Int], NEW h \in [S -> Int],
         NEW y \in S, NEW z \in S, y # z,
         \A x \in S : x # y /\ x # z => f[x] = h[x]
  PROVE  SumFunctionOnSet(h, S)
           = SumFunctionOnSet(f, S) + (h[y] - f[y]) + (h[z] - f[z])
<1>1. PICK g \in [S -> Int] : g = [x \in S |-> IF x = y THEN h[y] ELSE f[x]]
  OBVIOUS
<1>2. SumFunctionOnSet(g, S) = SumFunctionOnSet(f, S) + (g[y] - f[y])
  <2>1. \A x \in S : x # y => f[x] = g[x]
    BY <1>1
  <2> QED BY ONLY IsFiniteSet(S), f \in [S -> Int], g \in [S -> Int], y \in S, <2>1,
             SumOfChange
<1>3. SumFunctionOnSet(h, S) = SumFunctionOnSet(g, S) + (h[z] - g[z])
  <2>1. \A x \in S : x # z => g[x] = h[x]
    BY <1>1
  <2> QED BY ONLY IsFiniteSet(S), g \in [S -> Int], h \in [S -> Int], z \in S, <2>1,
             SumOfChange
<1>4. g[y] = h[y] /\ g[z] = f[z]
  BY <1>1
<1>5. f[y] \in Int /\ h[y] \in Int /\ f[z] \in Int /\ h[z] \in Int
  OBVIOUS
<1>6. SumFunctionOnSet(f, S) \in Int
  <2>1. \A x \in S : f[x] \in Int
    OBVIOUS
  <2> QED BY <2>1, SumIsInteger
<1> QED BY <1>2, <1>3, <1>4, <1>5, <1>6

-----------------------------------------------------------------------------
\* Money.

\* What a row of accounts holds is an integer.
LEMMA HeldIsInteger ==
  ASSUME NEW rows \in [Account -> AccountRow \cup {Nil}], NEW c \in Currency
  PROVE  /\ Total(rows, c) = SumFunctionOnSet(Held(rows, c), Account)
         /\ Held(rows, c) \in [Account -> Int]
         /\ \A a \in Account : rows[a] # Nil =>
              Held(rows, c)[a] = IF rows[a].currency = c THEN rows[a].balance ELSE 0
         /\ \A a \in Account : rows[a] = Nil => Held(rows, c)[a] = 0
         /\ Total(rows, c) \in Int
<1>1. Total(rows, c) = SumFunctionOnSet(Held(rows, c), Account)
  BY DEF Total, SumFunction, Held
<1>2. /\ \A a \in Account : rows[a] # Nil =>
           Held(rows, c)[a] = IF rows[a].currency = c THEN rows[a].balance ELSE 0
      /\ \A a \in Account : rows[a] = Nil => Held(rows, c)[a] = 0
  BY DEF Held
<1>3. \A a \in Account : rows[a] # Nil => rows[a].balance \in Int
  BY DEF AccountRow
<1>4. Held(rows, c) \in [Account -> Int]
  BY <1>3 DEF Held
<1>5. Total(rows, c) \in Int
  BY <1>1, <1>4, SumIsInteger, AccountAssumption DEF AccountAssumption
<1> QED BY <1>1, <1>2, <1>4, <1>5

\* An account that is opened empty adds nothing.
LEMMA OpenAddsNothing ==
  ASSUME NEW rows \in [Account -> AccountRow \cup {Nil}],
         NEW later \in [Account -> AccountRow \cup {Nil}],
         NEW c \in Currency, NEW a \in Account, rows[a] = Nil, later[a].balance = 0,
         \A b \in Account : b # a => later[b] = rows[b]
  PROVE  Total(later, c) = Total(rows, c)
<1> DEFINE f == Held(rows, c)
           h == Held(later, c)
<1>1. f[a] = 0 /\ h[a] = 0
  BY HeldIsInteger
<1>2. \A b \in Account : b # a => f[b] = h[b]
  BY DEF Held
<1>3. \A b \in Account : f[b] = h[b]
  BY <1>1, <1>2
<1>4. SumFunctionOnSet(f, Account) = SumFunctionOnSet(h, Account)
  <2> HIDE DEF f, h
  <2> QED BY <1>3, SumsAgree, AccountAssumption DEF AccountAssumption
<1> QED BY <1>4, HeldIsInteger

\* A balance that moves moves the total of its currency.
LEMMA MoveChangesTotal ==
  ASSUME NEW rows \in [Account -> AccountRow \cup {Nil}],
         NEW later \in [Account -> AccountRow \cup {Nil}],
         NEW c \in Currency, NEW a \in Account, rows[a] # Nil, later[a] # Nil,
         later[a].currency = rows[a].currency,
         \A b \in Account : b # a => later[b] = rows[b]
  PROVE  Total(later, c)
           = Total(rows, c) + (IF rows[a].currency = c
                               THEN later[a].balance - rows[a].balance ELSE 0)
<1> DEFINE f == Held(rows, c)
           h == Held(later, c)
<1>1. \A b \in Account : b # a => f[b] = h[b]
  BY DEF Held
<1>2. f \in [Account -> Int] /\ h \in [Account -> Int]
  BY HeldIsInteger
<1>3. SumFunctionOnSet(h, Account) = SumFunctionOnSet(f, Account) + (h[a] - f[a])
  <2> HIDE DEF f, h
  <2> QED BY <1>1, <1>2, SumOfChange, AccountAssumption DEF AccountAssumption
<1>4. /\ f[a] = IF rows[a].currency = c THEN rows[a].balance ELSE 0
      /\ h[a] = IF later[a].currency = c THEN later[a].balance ELSE 0
  BY HeldIsInteger
<1>5. rows[a].balance \in Int /\ later[a].balance \in Int
  BY DEF AccountRow
<1>6. /\ Total(rows, c) = SumFunctionOnSet(f, Account)
      /\ Total(later, c) = SumFunctionOnSet(h, Account)
  BY HeldIsInteger
<1> HIDE DEF f, h
<1> QED BY <1>3, <1>4, <1>5, <1>6

\* What leaves one account of a currency for another stays in it.
LEMMA TransferKeepsTotal ==
  ASSUME NEW rows \in [Account -> AccountRow \cup {Nil}],
         NEW later \in [Account -> AccountRow \cup {Nil}],
         NEW c \in Currency, NEW a \in Account, NEW b \in Account, a # b,
         rows[a] # Nil, later[a] # Nil, rows[b] # Nil, later[b] # Nil,
         later[a].currency = rows[a].currency, later[b].currency = rows[b].currency,
         rows[a].currency = rows[b].currency,
         later[a].balance + later[b].balance = rows[a].balance + rows[b].balance,
         \A d \in Account : d # a /\ d # b => later[d] = rows[d]
  PROVE  Total(later, c) = Total(rows, c)
<1> DEFINE f == Held(rows, c)
           h == Held(later, c)
<1>1. \A d \in Account : d # a /\ d # b => f[d] = h[d]
  BY DEF Held
<1>2. f \in [Account -> Int] /\ h \in [Account -> Int]
  BY HeldIsInteger
<1>3. SumFunctionOnSet(h, Account)
        = SumFunctionOnSet(f, Account) + (h[a] - f[a]) + (h[b] - f[b])
  <2>1. IsFiniteSet(Account)
    BY AccountAssumption DEF AccountAssumption
  <2> HIDE DEF f, h
  <2> QED BY ONLY a \in Account, b \in Account, a # b, <1>1, <1>2, <2>1, SumOfTwoChanges
<1>4. /\ f[a] = IF rows[a].currency = c THEN rows[a].balance ELSE 0
      /\ h[a] = IF rows[a].currency = c THEN later[a].balance ELSE 0
      /\ f[b] = IF rows[a].currency = c THEN rows[b].balance ELSE 0
      /\ h[b] = IF rows[a].currency = c THEN later[b].balance ELSE 0
  BY HeldIsInteger
<1>5. /\ rows[a].balance \in Int /\ later[a].balance \in Int
      /\ rows[b].balance \in Int /\ later[b].balance \in Int
  BY DEF AccountRow
<1>6. /\ Total(rows, c) = SumFunctionOnSet(f, Account)
      /\ Total(later, c) = SumFunctionOnSet(h, Account)
      /\ Total(rows, c) \in Int
  BY HeldIsInteger
<1> HIDE DEF f, h
<1> QED BY <1>3, <1>4, <1>5, <1>6

\* One more value at the end of a history adds itself.
LEMMA SumOfLonger ==
  ASSUME NEW n \in Nat, NEW f \in [1..n -> Int], NEW g \in [1..(n + 1) -> Int],
         \A k \in 1..n : g[k] = f[k]
  PROVE  SumFunction(g) = SumFunction(f) + g[n + 1]
<1>1. IsFiniteSet(1..n) /\ IsFiniteSet(1..(n + 1))
  BY FS_Interval
<1>2. n + 1 \in 1..(n + 1) /\ (1..(n + 1)) \ {n + 1} = 1..n
  OBVIOUS
<1>3. \A k \in 1..(n + 1) : g[k] \in Int
  OBVIOUS
<1>4. SumFunctionOnSet(g, 1..(n + 1)) = g[n + 1] + SumFunctionOnSet(g, 1..n)
  <2>1. SumFunctionOnSet(g, 1..(n + 1))
          = g[n + 1] + SumFunctionOnSet(g, (1..(n + 1)) \ {n + 1})
    BY <1>1, <1>2, <1>3, SumWithout
  <2> QED BY <1>2, <2>1
<1>5. SumFunctionOnSet(g, 1..n) = SumFunctionOnSet(f, 1..n)
  BY <1>1, SumsAgree
<1>6. SumFunctionOnSet(f, 1..n) \in Int /\ g[n + 1] \in Int
  BY <1>1, <1>2, <1>3, SumIsInteger
<1>7. /\ SumFunction(g) = SumFunctionOnSet(g, 1..(n + 1))
      /\ SumFunction(f) = SumFunctionOnSet(f, 1..n)
  BY DEF SumFunction
<1> QED BY <1>4, <1>5, <1>6, <1>7

LEMMA BroughtIsInteger ==
  ASSUME LedgerInv, NEW c \in Currency
  PROVE  /\ Len(journal) \in Nat
         /\ Brought(c) \in [1..Len(journal) -> Int]
         /\ Flow(c) = SumFunction(Brought(c))
         /\ Flow(c) \in Int
<1>1. Len(journal) \in Nat
  BY DEF LedgerInv, Inv, TypeOK, PostgresTypeOK
<1>2. \A k \in 1..Len(journal) : Signed(journal[k]) \in Int
  <2>1. \A row \in TransactionRow : row.amount \in Int
    BY MaxIntAssumption DEF TransactionRow, MaxIntAssumption
  <2>2. \A k \in 1..Len(journal) : journal[k] \in TransactionRow
    BY CommittedRowFacts DEF LedgerInv
  <2> QED BY <2>1, <2>2 DEF Signed, Change
<1>3. Brought(c) \in [1..Len(journal) -> Int]
  BY <1>2 DEF Brought
<1>4. SumFunctionOnSet(Brought(c), 1..Len(journal)) \in Int
  <2>1. IsFiniteSet(1..Len(journal))
    BY <1>1, FS_Interval
  <2> QED BY <1>3, <2>1, SumIsInteger
<1>5. Flow(c) = SumFunction(Brought(c))
  BY DEF Flow
<1>6. SumFunction(Brought(c)) = SumFunctionOnSet(Brought(c), 1..Len(journal))
  BY <1>3 DEF SumFunction
<1> QED BY <1>1, <1>3, <1>4, <1>5, <1>6

\* What an old row has brought stays: no account changes its currency.
LEMMA OldRowsBringTheSame ==
  ASSUME LedgerInv, Keeps, NEW c \in Currency, NEW k \in 1..Len(journal)
  PROVE  Brought(c)'[k] = Brought(c)[k]
<1>1. k \in 1..Len(journal') /\ journal'[k] = journal[k]
  BY DEF Keeps
<1>2. accounts'[journal[k].account].currency = accounts[journal[k].account].currency
  BY CommittedRowFacts DEF Keeps, LedgerInv
<1> QED BY <1>1, <1>2 DEF Brought, Signed, Change

\* The tables of a state, by name.
LEMMA MoneyTypes ==
  ASSUME LedgerInv
  PROVE  /\ accounts \in [Account -> AccountRow \cup {Nil}]
         /\ journal \in Seq(TransactionRow)
         /\ Len(journal) \in Nat
BY DEF LedgerInv, Inv, TypeOK, PostgresTypeOK

\* As long as the journal only repeats itself, nothing more has been brought.
LEMMA SameRowsBringTheSame ==
  ASSUME LedgerInv, Keeps, journal' = journal, NEW c \in Currency
  PROVE  Flow(c)' = Flow(c)
<1>1. PICK f : f = Brought(c)
  OBVIOUS
<1>2. PICK g : g = Brought(c)'
  OBVIOUS
<1>3. f \in [1..Len(journal) -> Int]
  BY <1>1, BroughtIsInteger
<1>4. g = [k \in 1..Len(journal) |-> g[k]]
  BY <1>2 DEF Brought
<1>5. \A k \in 1..Len(journal) : g[k] = f[k]
  BY <1>1, <1>2, OldRowsBringTheSame
<1>6. g = f
  BY <1>3, <1>4, <1>5
<1>7. Flow(c)' = SumFunction(g)
  BY <1>2 DEF Flow
<1> QED BY <1>1, <1>6, <1>7 DEF Flow

LEMMA OpenKeepsMoney ==
  ASSUME LedgerInv, LedgerInv', MoneyIsConserved, NEW x \in Account, Atomic!Open(x)
  PROVE  MoneyIsConserved'
<1>1. /\ journal' = journal /\ accounts[x] = Nil
      /\ accounts'[x].balance = 0
      /\ \A b \in Account : b # x => accounts'[b] = accounts[b]
  BY MoneyTypes DEF Atomic!Open
<1>2. Keeps
  BY <1>1, MoneyTypes DEF Keeps
<1>3. PICK rows : rows = accounts
  OBVIOUS
<1>4. PICK later : later = accounts'
  OBVIOUS
<1>5. /\ rows \in [Account -> AccountRow \cup {Nil}]
      /\ later \in [Account -> AccountRow \cup {Nil}]
  <2>1. accounts' \in [Account -> AccountRow \cup {Nil}]
    BY DEF LedgerInv, Inv, TypeOK, PostgresTypeOK
  <2> QED BY <1>3, <1>4, <2>1, MoneyTypes
<1>6. ASSUME NEW c \in Currency
      PROVE  Total(later, c) = Total(rows, c)
  BY <1>1, <1>3, <1>4, <1>5, OpenAddsNothing
<1>7. ASSUME NEW c \in Currency
      PROVE  Total(accounts, c)' = Total(Opening, c) + Flow(c)'
  BY <1>1, <1>2, <1>3, <1>4, <1>6, SameRowsBringTheSame DEF MoneyIsConserved
<1> QED BY <1>7 DEF MoneyIsConserved

LEMMA MoveKeepsMoney ==
  ASSUME LedgerInv, LedgerInv', MoneyIsConserved,
         NEW r \in Request, NEW a \in Account, accounts[a] # Nil,
         NEW type \in {"deposit", "withdrawal"}, NEW amount \in 1..MaxInt,
         Atomic!Move(r, a, type, amount)
  PROVE  MoneyIsConserved'
<1>1. PICK rows : rows = accounts
  OBVIOUS
<1>2. PICK later : later = accounts'
  OBVIOUS
<1>3. /\ rows \in [Account -> AccountRow \cup {Nil}]
      /\ later \in [Account -> AccountRow \cup {Nil}]
  <2>1. accounts' \in [Account -> AccountRow \cup {Nil}]
    BY DEF LedgerInv, Inv, TypeOK, PostgresTypeOK
  <2> QED BY <1>1, <1>2, <2>1, MoneyTypes
<1>4. PICK n \in Nat : n = Len(journal)
  BY MoneyTypes
<1>5. amount \in Int
  BY MaxIntAssumption DEF MaxIntAssumption
<1> DEFINE signed == IF type = "deposit" THEN amount ELSE -amount
<1>6. PICK after \in 0..MaxInt :
        /\ after = accounts[a].balance + signed
        /\ accounts' = [accounts EXCEPT ![a].balance = after]
        /\ \E row : /\ journal' = Append(journal, row)
                    /\ row.account = a /\ row.counterparty = Nil
                    /\ row.type = type /\ row.amount = amount
  <2>1. PICK actor \in Actor, at \in 0..MaxClock :
          /\ accounts[a].balance + signed \in 0..MaxInt
          /\ accounts' = [accounts EXCEPT ![a].balance = accounts[a].balance + signed]
          /\ journal' = Append(journal,
               [id |-> <<r, 1>>, account |-> a, counterparty |-> Nil, type |-> type,
                amount |-> amount, after |-> accounts[a].balance + signed,
                by |-> actor.user, at |-> at])
    BY DEF Atomic!Move
  <2>2. PICK row : row = [id |-> <<r, 1>>, account |-> a, counterparty |-> Nil,
                type |-> type, amount |-> amount, after |-> accounts[a].balance + signed,
                by |-> actor.user, at |-> at]
    OBVIOUS
  <2>3. /\ row.account = a /\ row.counterparty = Nil
        /\ row.type = type /\ row.amount = amount
    BY <2>2
  <2> HIDE DEF signed
  <2> QED BY <2>1, <2>2, <2>3
<1>7. PICK row : /\ journal' = Append(journal, row)
                 /\ row.account = a /\ row.counterparty = Nil
                 /\ row.type = type /\ row.amount = amount
  BY <1>6
<1>8. /\ Len(journal') = n + 1 /\ journal'[n + 1] = row
      /\ \A k \in 1..n : journal'[k] = journal[k]
  BY <1>4, <1>7, MoneyTypes
<1>9. rows[a] \in AccountRow /\ rows[a] # Nil
  BY <1>1, <1>3
<1>10. /\ later[a] # Nil /\ later[a] \in AccountRow
       /\ later[a].owner = rows[a].owner /\ later[a].currency = rows[a].currency
       /\ later[a].balance = rows[a].balance + signed
       /\ \A b \in Account : b # a => later[b] = rows[b]
  <2>1. later[a] = [rows[a] EXCEPT !.balance = after]
    BY <1>1, <1>2, <1>3, <1>6
  <2>2. later[a] \in AccountRow
    BY <1>9, <2>1 DEF AccountRow
  <2>3. later[a] # Nil
    BY <1>6, <1>9, <2>1, NilIsNothingElse DEF AccountRow, AccountCopy
  <2>4. later[a].balance = after
    BY <1>9, <2>1 DEF AccountRow
  <2>5. \A b \in Account : b # a => later[b] = rows[b]
    BY <1>1, <1>2, <1>3, <1>6
  <2>6. later[a].owner = rows[a].owner /\ later[a].currency = rows[a].currency
    BY <1>9, <2>1 DEF AccountRow
  <2> HIDE DEF signed
  <2> QED BY <1>1, <1>6, <2>2, <2>3, <2>4, <2>5, <2>6
<1>11. Keeps
  <2>1. Len(journal) \in Nat /\ Len(journal') \in Nat /\ Len(journal) <= Len(journal')
    BY <1>4, <1>8
  <2>2. \A k \in 1..Len(journal) : journal'[k] = journal[k]
    BY <1>4, <1>8
  <2>3. \A b \in Account : accounts[b] # Nil =>
          /\ accounts'[b] # Nil
          /\ accounts'[b].owner = accounts[b].owner
          /\ accounts'[b].currency = accounts[b].currency
    BY <1>1, <1>2, <1>10
  <2> QED BY <2>1, <2>2, <2>3 DEF Keeps
<1>12. ASSUME NEW c \in Currency
       PROVE  Flow(c)' = Flow(c) + (IF rows[a].currency = c THEN signed ELSE 0)
  <2>1. PICK f : f = Brought(c)
    OBVIOUS
  <2>2. PICK g : g = Brought(c)'
    OBVIOUS
  <2>3. f \in [1..n -> Int] /\ Flow(c) = SumFunction(f)
    BY <1>4, <2>1, BroughtIsInteger
  <2>4. g = [k \in 1..(n + 1) |-> g[k]] /\ Flow(c)' = SumFunction(g)
    <3>1. g = [k \in 1..Len(journal') |-> g[k]]
      BY <2>2 DEF Brought
    <3> QED BY <1>8, <2>2, <3>1 DEF Flow
  <2>5. \A k \in 1..n : g[k] = f[k]
    BY <1>4, <1>11, <2>1, <2>2, OldRowsBringTheSame
  <2>6. g[n + 1] = IF rows[a].currency = c THEN signed ELSE 0
    <3>1. n + 1 \in 1..Len(journal')
      BY <1>8
    <3>2. g[n + 1] = IF row.counterparty = Nil /\ accounts'[row.account].currency = c
                     THEN Signed(row) ELSE 0
      BY <1>8, <2>2, <3>1 DEF Brought, Signed, Change
    <3>3. Signed(row) = signed
      BY <1>7 DEF Signed, Change
    <3> HIDE DEF signed
    <3> QED BY <1>2, <1>7, <1>10, <3>2, <3>3
  <2>7. g \in [1..(n + 1) -> Int]
    <3>1. signed \in Int
      BY <1>5
    <3> HIDE DEF signed
    <3>2. g[n + 1] \in Int
      BY <2>6, <3>1
    <3>3. \A k \in 1..(n + 1) : k \in 1..n \/ k = n + 1
      OBVIOUS
    <3>4. \A k \in 1..(n + 1) : g[k] \in Int
      BY <2>3, <2>5, <3>2, <3>3
    <3> QED BY <2>4, <3>4
  <2>8. SumFunction(g) = SumFunction(f) + g[n + 1]
    BY <2>3, <2>5, <2>7, SumOfLonger
  <2> HIDE DEF signed
  <2> QED BY <2>3, <2>4, <2>6, <2>8
<1>13. ASSUME NEW c \in Currency
       PROVE  Total(later, c) = Total(rows, c) + (IF rows[a].currency = c THEN signed ELSE 0)
  <2>1. Total(later, c) = Total(rows, c) + (IF rows[a].currency = c
                               THEN later[a].balance - rows[a].balance ELSE 0)
    BY <1>3, <1>9, <1>10, MoveChangesTotal
  <2>2. later[a].balance - rows[a].balance = signed
    BY <1>5, <1>9, <1>10 DEF AccountRow
  <2> HIDE DEF signed
  <2> QED BY <2>1, <2>2
<1>14. ASSUME NEW c \in Currency
       PROVE  Total(accounts, c)' = Total(Opening, c) + Flow(c)'
  <2>1. /\ Total(accounts, c) = Total(Opening, c) + Flow(c)
        /\ Total(Opening, c) \in Int /\ Flow(c) \in Int
    BY HeldIsInteger, BroughtIsInteger, OpeningAssumption
       DEF MoneyIsConserved, OpeningAssumption
  <2>2. PICK moved \in Int : moved = IF rows[a].currency = c THEN signed ELSE 0
    BY <1>5
  <2>3. Total(accounts, c)' = Total(accounts, c) + moved /\ Flow(c)' = Flow(c) + moved
    <3> HIDE DEF signed
    <3> QED BY <1>1, <1>2, <1>12, <1>13, <2>2
  <2> QED BY <2>1, <2>2, <2>3
<1> QED BY <1>14 DEF MoneyIsConserved

LEMMA TransferKeepsMoney ==
  ASSUME LedgerInv, LedgerInv', MoneyIsConserved,
         NEW r \in Request, NEW a \in Account, accounts[a] # Nil,
         NEW b \in Account, accounts[b] # Nil, a # b, NEW amount \in 1..MaxInt,
         Atomic!Transfer(r, a, b, amount)
  PROVE  MoneyIsConserved'
<1>1. PICK rows : rows = accounts
  OBVIOUS
<1>2. PICK later : later = accounts'
  OBVIOUS
<1>3. /\ rows \in [Account -> AccountRow \cup {Nil}]
      /\ later \in [Account -> AccountRow \cup {Nil}]
  <2>1. accounts' \in [Account -> AccountRow \cup {Nil}]
    BY DEF LedgerInv, Inv, TypeOK, PostgresTypeOK
  <2> QED BY <1>1, <1>2, <2>1, MoneyTypes
<1>4. PICK n \in Nat : n = Len(journal)
  BY MoneyTypes
<1>5. amount \in Int /\ rows[a] \in AccountRow /\ rows[b] \in AccountRow
      /\ rows[a] # Nil /\ rows[b] # Nil
  BY <1>1, <1>3, MaxIntAssumption DEF MaxIntAssumption
<1>6. PICK left \in Int, received \in Int :
        /\ left = rows[a].balance - amount /\ received = rows[b].balance + amount
        /\ rows[a].currency = rows[b].currency
        /\ later = [rows EXCEPT ![a].balance = left, ![b].balance = received]
        /\ \E out, in : /\ journal' = journal \o <<out, in>>
                        /\ out.counterparty = b /\ in.counterparty = a
  <2>1. PICK actor \in Actor, at \in 0..MaxClock, until \in 0..MaxClock :
          /\ accounts[a].currency = accounts[b].currency
          /\ accounts' = [accounts EXCEPT ![a].balance = accounts[a].balance - amount,
                                          ![b].balance = accounts[b].balance + amount]
          /\ journal' = journal \o
               <<[id |-> <<r, 1>>, account |-> a, counterparty |-> b,
                  type |-> "transfer_out", amount |-> amount,
                  after |-> accounts[a].balance - amount,
                  by |-> actor.user, at |-> at],
                 [id |-> <<r, 2>>, account |-> b, counterparty |-> a,
                  type |-> "transfer_in", amount |-> amount,
                  after |-> accounts[b].balance + amount,
                  by |-> actor.user, at |-> until]>>
    BY DEF Atomic!Transfer
  <2>2. PICK out : out = [id |-> <<r, 1>>, account |-> a, counterparty |-> b,
                  type |-> "transfer_out", amount |-> amount,
                  after |-> accounts[a].balance - amount,
                  by |-> actor.user, at |-> at]
    OBVIOUS
  <2>3. PICK in : in = [id |-> <<r, 2>>, account |-> b, counterparty |-> a,
                  type |-> "transfer_in", amount |-> amount,
                  after |-> accounts[b].balance + amount,
                  by |-> actor.user, at |-> until]
    OBVIOUS
  <2>4. out.counterparty = b /\ in.counterparty = a
    BY <2>2, <2>3
  <2>5. rows[a].balance - amount \in Int /\ rows[b].balance + amount \in Int
    BY <1>5 DEF AccountRow
  <2> QED BY <1>1, <1>2, <2>1, <2>2, <2>3, <2>4, <2>5
<1>7. PICK out, in : /\ journal' = journal \o <<out, in>>
                     /\ out.counterparty = b /\ in.counterparty = a
  BY <1>6
<1>8. /\ Len(journal') = n + 2 /\ journal'[n + 1] = out /\ journal'[n + 2] = in
      /\ \A k \in 1..n : journal'[k] = journal[k]
  <2>1. /\ Len(journal') = Len(journal) + 2
        /\ journal'[Len(journal) + 1] = out /\ journal'[Len(journal) + 2] = in
        /\ \A k \in 1..Len(journal) : journal'[k] = journal[k]
    BY <1>7, MoneyTypes
  <2> QED BY <1>4, <2>1
<1>9. /\ later[a] = [rows[a] EXCEPT !.balance = left]
      /\ later[b] = [rows[b] EXCEPT !.balance = received]
      /\ \A d \in Account : d # a /\ d # b => later[d] = rows[d]
  BY <1>3, <1>6
<1>10. ASSUME NEW d \in {a, b}, NEW balance \in Int,
              later[d] = [rows[d] EXCEPT !.balance = balance]
       PROVE  /\ later[d] # Nil /\ later[d].balance = balance
              /\ later[d].owner = rows[d].owner /\ later[d].currency = rows[d].currency
  <2>1. rows[d] \in AccountRow
    BY <1>5
  <2>2. later[d] \in AccountCopy
    BY <1>10, <2>1 DEF AccountRow, AccountCopy
  <2>3. later[d] # Nil
    BY <2>2, NilIsNothingElse
  <2> QED BY <1>10, <2>1, <2>3 DEF AccountRow
<1>11. /\ later[a] # Nil /\ later[a].balance = left
       /\ later[a].owner = rows[a].owner /\ later[a].currency = rows[a].currency
       /\ later[b] # Nil /\ later[b].balance = received
       /\ later[b].owner = rows[b].owner /\ later[b].currency = rows[b].currency
  BY <1>9, <1>10
<1>12. Keeps
  <2>1. Len(journal) \in Nat /\ Len(journal') \in Nat /\ Len(journal) <= Len(journal')
    BY <1>4, <1>8
  <2>2. \A k \in 1..Len(journal) : journal'[k] = journal[k]
    BY <1>4, <1>8
  <2>3. \A d \in Account : accounts[d] # Nil =>
          /\ accounts'[d] # Nil
          /\ accounts'[d].owner = accounts[d].owner
          /\ accounts'[d].currency = accounts[d].currency
    BY <1>1, <1>2, <1>9, <1>11
  <2> QED BY <2>1, <2>2, <2>3 DEF Keeps
<1>13. ASSUME NEW c \in Currency
       PROVE  Flow(c)' = Flow(c)
  <2>1. PICK f : f = Brought(c)
    OBVIOUS
  <2>2. PICK g : g = Brought(c)'
    OBVIOUS
  <2>3. f \in [1..n -> Int] /\ Flow(c) = SumFunction(f) /\ Flow(c) \in Int
    BY <1>4, <2>1, BroughtIsInteger
  <2>4. g = [k \in 1..(n + 2) |-> g[k]] /\ Flow(c)' = SumFunction(g)
    <3>1. g = [k \in 1..Len(journal') |-> g[k]]
      BY <2>2 DEF Brought
    <3> QED BY <1>8, <2>2, <3>1 DEF Flow
  <2>5. \A k \in 1..n : g[k] = f[k]
    BY <1>4, <1>12, <2>1, <2>2, OldRowsBringTheSame
  <2>6. g[n + 1] = 0 /\ g[n + 2] = 0
    <3>1. n + 1 \in 1..Len(journal') /\ n + 2 \in 1..Len(journal')
      BY <1>8
    <3>2. a # Nil /\ b # Nil
      BY NilIsNothingElse
    <3> QED BY <1>7, <1>8, <2>2, <3>1, <3>2 DEF Brought
  <2>7. PICK h \in [1..(n + 1) -> Int] : \A k \in 1..(n + 1) : h[k] = g[k]
    <3>1. \A k \in 1..(n + 1) : k \in 1..n \/ k = n + 1
      OBVIOUS
    <3>2. \A k \in 1..(n + 1) : g[k] \in Int
      BY <2>3, <2>5, <2>6, <3>1
    <3>3. [k \in 1..(n + 1) |-> g[k]] \in [1..(n + 1) -> Int]
      BY <3>2
    <3> QED BY <3>3
  <2>8. g \in [1..((n + 1) + 1) -> Int]
    <3>1. \A k \in 1..(n + 2) : k \in 1..(n + 1) \/ k = n + 2
      OBVIOUS
    <3>2. \A k \in 1..(n + 2) : g[k] \in Int
      BY <2>6, <2>7, <3>1
    <3> QED BY <2>4, <3>2
  <2>9. SumFunction(h) = SumFunction(f) + h[n + 1]
    <3>1. \A k \in 1..n : k \in 1..(n + 1)
      OBVIOUS
    <3>2. \A k \in 1..n : h[k] = f[k]
      BY ONLY <2>5, <2>7, <3>1
    <3> QED BY ONLY n \in Nat, h \in [1..(n + 1) -> Int], <2>3, <3>2, SumOfLonger
  <2>10. SumFunction(g) = SumFunction(h) + g[(n + 1) + 1]
    <3>1. PICK m \in Nat : m = n + 1
      OBVIOUS
    <3>2. h \in [1..m -> Int] /\ g \in [1..(m + 1) -> Int] /\ \A k \in 1..m : g[k] = h[k]
      BY <2>7, <2>8, <3>1
    <3>3. SumFunction(g) = SumFunction(h) + g[m + 1]
      BY ONLY m \in Nat, <3>2, SumOfLonger
    <3> QED BY <3>1, <3>3
  <2>11. h[n + 1] = 0 /\ g[(n + 1) + 1] = 0
    BY <2>6, <2>7
  <2> QED BY <2>3, <2>4, <2>9, <2>10, <2>11
<1>14. ASSUME NEW c \in Currency
       PROVE  Total(later, c) = Total(rows, c)
  <2>1. later[a].balance + later[b].balance = rows[a].balance + rows[b].balance
    BY <1>5, <1>6, <1>11 DEF AccountRow
  <2>2. /\ rows[a] # Nil /\ later[a] # Nil /\ rows[b] # Nil /\ later[b] # Nil
        /\ later[a].currency = rows[a].currency /\ later[b].currency = rows[b].currency
        /\ rows[a].currency = rows[b].currency
        /\ \A d \in Account : d # a /\ d # b => later[d] = rows[d]
    BY <1>5, <1>6, <1>9, <1>11
  <2> QED BY ONLY c \in Currency, a \in Account, b \in Account, a # b, <1>3, <2>1, <2>2,
             TransferKeepsTotal
<1>15. ASSUME NEW c \in Currency
       PROVE  Total(accounts, c)' = Total(Opening, c) + Flow(c)'
  BY <1>1, <1>2, <1>13, <1>14 DEF MoneyIsConserved
<1> QED BY <1>15 DEF MoneyIsConserved

LEMMA AtomicStepKeepsMoney ==
  ASSUME LedgerInv, LedgerInv', MoneyIsConserved, [Atomic!Next]_<<accounts, journal>>
  PROVE  MoneyIsConserved'
<1>1. CASE UNCHANGED <<accounts, journal>>
  <2>1. Keeps
    BY <1>1, MoneyTypes DEF Keeps
  <2>2. ASSUME NEW c \in Currency
        PROVE  Total(accounts, c)' = Total(Opening, c) + Flow(c)'
    BY <1>1, <2>1, SameRowsBringTheSame DEF MoneyIsConserved
  <2> QED BY <2>2 DEF MoneyIsConserved
<1>2. CASE Atomic!Next
  BY <1>2, OpenKeepsMoney, MoveKeepsMoney, TransferKeepsMoney DEF Atomic!Next, Atomic!Present
<1> QED BY <1>1, <1>2

\* Transfers neither create nor destroy money: for any accounts, currencies, callers,
\* amounts and numbers of requests, whatever interleaves, fails or crashes.
THEOREM MoneyIsKept == Spec => []MoneyIsConserved
<1>1. Init => MoneyIsConserved
  <2> SUFFICES ASSUME Init, NEW c \in Currency
               PROVE  Total(accounts, c) = Total(Opening, c) + Flow(c)
    BY DEF MoneyIsConserved
  <2>1. accounts = Opening /\ Len(journal) = 0
    BY DEF Init, PostgresInit
  <2>2. 1..Len(journal) = {}
    BY <2>1
  <2>3. Flow(c) = SumFunctionOnSet(Brought(c), {})
    BY <2>2 DEF Flow, SumFunction, Brought
  <2>4. Flow(c) = 0
    BY <2>3, SumOfNothing
  <2>5. Total(Opening, c) \in Int
    BY HeldIsInteger, OpeningAssumption DEF OpeningAssumption
  <2> QED BY <2>1, <2>4, <2>5
<1>2. LedgerInv /\ LedgerInv' /\ MoneyIsConserved /\ [Next]_vars => MoneyIsConserved'
  BY StepIsAtomic, AtomicStepKeepsMoney
<1> QED BY <1>1, <1>2, LedgerInvHolds, PTL DEF Spec
=============================================================================
