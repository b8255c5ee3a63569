---------------------------- MODULE ReportsProofs ----------------------------
(***************************************************************************)
(* Proofs that ReportsInv and AnswersInv are inductive, for any ledger,    *)
(* any number of writers and any number of readers, and of what they imply.*)
(***************************************************************************)
EXTENDS ReportsProperties, WellFoundedInduction, FiniteSetTheorems, TLAPS

LEMMA NilIsNoRow == Nil \notin AccountRow
<1>1. \A row \in AccountRow : row \in AccountCopy
  BY MaxIntAssumption DEF AccountRow, AccountCopy
<1> QED BY <1>1, NilAssumption

\* The accounts there are stay, with the owners they have.
OwnersStay ==
  \A a \in Account : accounts[a] # Nil =>
    accounts'[a] # Nil /\ accounts'[a].owner = accounts[a].owner

LEMMA OpenIsGood ==
  ASSUME accounts \in [Account -> AccountRow \cup {Nil}], NEW a \in Account, Open(a)
  PROVE  accounts' \in [Account -> AccountRow \cup {Nil}] /\ OwnersStay
<1>1. PICK actor \in Actor, currency \in Currency :
        accounts' = [accounts EXCEPT
                       ![a] = [owner |-> actor.user, currency |-> currency, balance |-> 0]]
  BY DEF Open
<1>2. [owner |-> actor.user, currency |-> currency, balance |-> 0] \in AccountRow
  BY <1>1, ActorAssumption, MaxIntAssumption DEF AccountRow
<1>3. accounts[a] = Nil
  BY DEF Open
<1> QED BY <1>1, <1>2, <1>3 DEF OwnersStay

\* A new balance makes a row of the same owner.
LEMMA NewBalance ==
  ASSUME NEW row \in AccountRow, NEW b \in 0..MaxInt
  PROVE  /\ [row EXCEPT !.balance = b] \in AccountRow
         /\ [row EXCEPT !.balance = b].owner = row.owner
BY DEF AccountRow

LEMMA MoveIsGood ==
  ASSUME accounts \in [Account -> AccountRow \cup {Nil}], NEW r, NEW a \in Present,
         NEW type, NEW amount \in 1..MaxInt, Move(r, a, type, amount)
  PROVE  accounts' \in [Account -> AccountRow \cup {Nil}] /\ OwnersStay
<1>1. a \in Account /\ accounts[a] \in AccountRow
  BY DEF Present
<1>2. PICK after \in 0..MaxInt : accounts' = [accounts EXCEPT ![a].balance = after]
  BY DEF Move
<1>3. [accounts[a] EXCEPT !.balance = after] \in AccountRow
      /\ [accounts[a] EXCEPT !.balance = after].owner = accounts[a].owner
  BY <1>1, <1>2, NewBalance
<1>4. accounts' = [accounts EXCEPT ![a] = [accounts[a] EXCEPT !.balance = after]]
  BY <1>1, <1>2
<1> QED BY <1>1, <1>3, <1>4, NilIsNoRow DEF OwnersStay

LEMMA TransferIsGood ==
  ASSUME accounts \in [Account -> AccountRow \cup {Nil}], NEW r, NEW a \in Present,
         NEW b \in Present \ {a}, NEW amount \in 1..MaxInt, Transfer(r, a, b, amount)
  PROVE  accounts' \in [Account -> AccountRow \cup {Nil}] /\ OwnersStay
<1>1. /\ a \in Account /\ accounts[a] \in AccountRow
      /\ b \in Account /\ accounts[b] \in AccountRow /\ a # b
  BY DEF Present
<1> DEFINE left == accounts[a].balance - amount
           received == accounts[b].balance + amount
<1>2. /\ left >= 0 /\ received <= MaxInt
      /\ accounts' = [accounts EXCEPT ![a].balance = left, ![b].balance = received]
  BY DEF Transfer
<1>3. left \in 0..MaxInt /\ received \in 0..MaxInt
  <2>1. accounts[a].balance \in 0..MaxInt /\ accounts[b].balance \in 0..MaxInt
    BY <1>1 DEF AccountRow
  <2> QED BY <1>2, <2>1, MaxIntAssumption
<1> HIDE DEF left, received
<1> DEFINE rowA == [accounts[a] EXCEPT !.balance = left]
           rowB == [accounts[b] EXCEPT !.balance = received]
<1>4. /\ rowA \in AccountRow /\ rowA.owner = accounts[a].owner
      /\ rowB \in AccountRow /\ rowB.owner = accounts[b].owner
  BY <1>1, <1>3, NewBalance
<1>5. accounts' = [accounts EXCEPT ![a] = rowA, ![b] = rowB]
  BY <1>1, <1>2
<1> HIDE DEF rowA, rowB
<1> QED BY <1>1, <1>4, <1>5, NilIsNoRow DEF OwnersStay

\* Whatever the writers do.
LEMMA WritersKeepOwners ==
  ASSUME accounts \in [Account -> AccountRow \cup {Nil}], Next
  PROVE  accounts' \in [Account -> AccountRow \cup {Nil}] /\ OwnersStay
<1>1. CASE \E a \in Account : Open(a)
  BY <1>1, OpenIsGood
<1>2. CASE \E r \in Request, a \in Present, amount \in 1..MaxInt,
              type \in {"deposit", "withdrawal"} : Move(r, a, type, amount)
  BY <1>2, MoveIsGood
<1>3. CASE \E r \in Request, a \in Present, amount \in 1..MaxInt :
             \E b \in Present \ {a} : Transfer(r, a, b, amount)
  BY <1>3, TransferIsGood
<1> QED BY <1>1, <1>2, <1>3 DEF Next
-----------------------------------------------------------------------------
LEMMA InitIsGood == ReportsInit => ReportsInv
BY OpeningAssumption DEF ReportsInit, Init, ReportsInv, ReadersAreAuthorized, Shown

\* Neither the writers nor the clock disturb a reader: who may see an account stays.
LEMMA EnvironmentKeeps ==
  ASSUME ReportsInv, Write \/ Tick
  PROVE  ReportsInv'
<1>1. accounts' \in [Account -> AccountRow \cup {Nil}] /\ OwnersStay /\ UNCHANGED readerVars
  BY WritersKeepOwners DEF Write, Tick, ReportsInv, OwnersStay
<1>2. \A a : Exists(a) => Exists(a)' /\ accounts'[a].owner = accounts[a].owner
  BY <1>1 DEF Exists, OwnersStay
<1>3. \A actor, a : Exists(a) /\ CanAccess(actor, accounts[a]) => CanAccess(actor, accounts'[a])
  BY <1>2 DEF CanAccess
<1>4. ReadersAreAuthorized'
  BY <1>1, <1>2, <1>3 DEF ReportsInv, ReadersAreAuthorized, Shown, readerVars
<1> QED BY <1>1, <1>2, <1>3, <1>4 DEF ReportsInv, readerVars

\* A reader answers, with rows it may show.
LEMMA AnswerIsGood ==
  ASSUME ReportsInv, NEW q \in Reader, NEW content, stage[q] \in {"check", "read"},
         NEW code \in {"ok", "not_found", "forbidden", "internal"}, Answer(q, code, content),
         code = "ok" => stage[q] = "read",
         code = "ok" /\ query[q].kind = "accounts" =>
           \A a \in DOMAIN content : Exists(a) /\ accounts[a].owner = query[q].actor.user
  PROVE  ReportsInv'
<1>1. /\ stage' = [stage EXCEPT ![q] = "done"] /\ status' = [status EXCEPT ![q] = code]
      /\ body' = [body EXCEPT ![q] = content]
      /\ UNCHANGED <<accounts, journal, now, query, began>>
  BY DEF Answer
<1>2. /\ stage' \in [Reader -> {"idle", "check", "read", "done"}]
      /\ status' \in [Reader -> {"none", "ok", "not_found", "forbidden", "internal"}]
      /\ UNCHANGED <<accounts, query>> /\ DOMAIN body' = Reader
  BY <1>1 DEF ReportsInv
<1>3. \A p \in Reader :
        /\ p = q => stage'[p] = "done" /\ status'[p] = code /\ body'[p] = content
        /\ p # q => stage'[p] = stage[p] /\ status'[p] = status[p] /\ body'[p] = body[p]
  BY <1>1 DEF ReportsInv
<1>4. ReadersAreAuthorized'
  <2> SUFFICES ASSUME NEW p \in Reader
               PROVE  /\ Shown(p, "history")' \/ Shown(p, "months")' =>
                           /\ Exists(query[p].account)
                           /\ CanAccess(query[p].actor, accounts[query[p].account])
                      /\ Shown(p, "accounts")' => \A a \in DOMAIN body'[p] :
                           Exists(a) /\ accounts[a].owner = query[p].actor.user
    BY <1>2 DEF ReadersAreAuthorized, Exists
  <2>1. CASE p = q
    BY <1>2, <1>3, <2>1 DEF ReportsInv, Shown
  <2>2. CASE p # q
    BY <1>2, <1>3, <2>2 DEF ReportsInv, ReadersAreAuthorized, Shown
  <2> QED BY <2>1, <2>2
<1> QED BY <1>2, <1>3, <1>4 DEF ReportsInv, Exists

\* A reader goes on to another stage, with a query it may make.
LEMMA GoesOn ==
  ASSUME ReportsInv, NEW q \in Reader, stage[q] \in {"idle", "check"},
         NEW place \in {"check", "read"}, stage' = [stage EXCEPT ![q] = place],
         NEW in \in AccountsQuery \cup BalanceQuery \cup RowsQuery,
         query' = [query EXCEPT ![q] = in],
         UNCHANGED <<accounts, journal, now, status, body>>,
         place = "check" => in \in RowsQuery,
         place = "read" /\ in.kind \in {"history", "months"} =>
           in \in RowsQuery /\ Exists(in.account) /\ CanAccess(in.actor, accounts[in.account])
  PROVE  ReportsInv'
<1>1. /\ query' \in [Reader -> AccountsQuery \cup BalanceQuery \cup RowsQuery \cup {Nil}]
      /\ stage' \in [Reader -> {"idle", "check", "read", "done"}]
  BY DEF ReportsInv
<1>2. \A p \in Reader :
        /\ p = q => stage'[p] = place /\ query'[p] = in
        /\ p # q => stage'[p] = stage[p] /\ query'[p] = query[p]
  BY DEF ReportsInv
<1>3. status[q] = "none"
  BY DEF ReportsInv
<1>4. ReadersAreAuthorized'
  BY <1>2, <1>3 DEF ReportsInv, ReadersAreAuthorized, Shown, Exists
<1> QED BY <1>1, <1>2, <1>3, <1>4 DEF ReportsInv, Exists

LEMMA AskKeeps == ASSUME ReportsInv, NEW q \in Reader, Ask(q) PROVE ReportsInv'
<1>1. PICK in \in AccountsQuery \cup BalanceQuery \cup RowsQuery :
        /\ query' = [query EXCEPT ![q] = in]
        /\ stage' = [stage EXCEPT ![q] = IF in.kind \in {"history", "months"}
                                         THEN "check" ELSE "read"]
  BY DEF Ask
<1>2. in.kind \in {"history", "months"} => in \in RowsQuery
  BY DEF AccountsQuery, BalanceQuery, RowsQuery
<1> QED BY <1>1, <1>2, GoesOn DEF Ask

LEMMA ReaderStepKeeps == ASSUME ReportsInv, NEW q \in Reader, ReaderStep(q) PROVE ReportsInv'
<1>1. CASE QueryFails(q)
  BY <1>1, AnswerIsGood DEF QueryFails
<1>2. CASE GetAccount(q)
  <2>1. CASE \E code \in {"not_found", "forbidden"} : stage[q] = "check" /\ Answer(q, code, Nil)
    BY <2>1, AnswerIsGood
  <2>2. CASE /\ stage[q] = "check" /\ Exists(query[q].account)
             /\ CanAccess(query[q].actor, accounts[query[q].account])
             /\ stage' = [stage EXCEPT ![q] = "read"]
             /\ UNCHANGED <<accounts, journal, now, query, status, body, began>>
    <3>1. query[q] \in RowsQuery /\ query' = [query EXCEPT ![q] = query[q]]
      BY <2>2 DEF ReportsInv
    <3> QED BY <2>2, <3>1, GoesOn
  <2> QED BY <1>2, <2>1, <2>2 DEF GetAccount
<1>3. CASE ListTransactions(q)
  BY <1>3, AnswerIsGood DEF ListTransactions, Reads
<1>4. CASE MonthlyBalances(q)
  BY <1>4, AnswerIsGood DEF MonthlyBalances, Reads
<1>5. CASE ListAccounts(q)
  BY <1>5, AnswerIsGood DEF ListAccounts, Reads, Exists
<1>6. CASE GetAccountBalance(q)
  BY <1>6, AnswerIsGood DEF GetAccountBalance, Reads
<1> QED BY <1>1, <1>2, <1>3, <1>4, <1>5, <1>6 DEF ReaderStep

LEMMA StepKeeps == ReportsInv /\ [ReportsNext]_reportVars => ReportsInv'
<1> SUFFICES ASSUME ReportsInv, [ReportsNext]_reportVars PROVE ReportsInv'
  OBVIOUS
<1>1. CASE UNCHANGED reportVars
  BY <1>1 DEF reportVars, readerVars, ReportsInv, ReadersAreAuthorized, Shown, Exists
<1>2. CASE ReportsNext
  BY <1>2, EnvironmentKeeps, AskKeeps, ReaderStepKeeps DEF ReportsNext
<1> QED BY <1>1, <1>2

\* ReportsInv holds in every state of the read side.
THEOREM ReportsInvHolds == ReportsSpec => []ReportsInv
BY InitIsGood, StepKeeps, PTL DEF ReportsSpec

\* Nobody is shown the accounts, rows or balances of somebody else, although access is
\* checked by one query and the rows are read by another.
THEOREM OnlyOwnersRead == ReportsSpec => []ReadersAreAuthorized
<1>1. ReportsInv => ReadersAreAuthorized
  BY DEF ReportsInv
<1> QED BY <1>1, ReportsInvHolds, PTL
-----------------------------------------------------------------------------
\* The journal and the accounts agree: steps of AtomicLedger.

\* A set of numbers with a bound has a greatest one.
LEMMA GreatestNumber ==
  ASSUME NEW n \in Nat, NEW T \in SUBSET (1..n), T # {}
  PROVE  \E i \in T : IsLast(T, i)
<1> DEFINE less == OpToRel(<, Nat)
           U == {n - i : i \in T}
<1>1. \A m, k \in Nat : <<m, k>> \in less <=> m < k
  BY DEF OpToRel
<1>2. IsWellFoundedOn(less, Nat)
  BY NatLessThanWellFounded, Zenon
<1>3. U \in SUBSET Nat /\ U # {}
  <2>1. \A i \in T : i \in 1..n
    OBVIOUS
  <2>2. \A i \in 1..n : n - i \in Nat
    OBVIOUS
  <2> QED BY <2>1, <2>2
<1> HIDE DEF less
<1>4. PICK m \in U : \A k \in U : ~(<<k, m>> \in less)
  <2> HIDE DEF U
  <2> QED BY <1>2, <1>3, WFMin
<1>5. PICK i \in T : m = n - i
  BY <1>4
<1>6. \A j \in T : j <= i
  <2> SUFFICES ASSUME NEW j \in T
               PROVE  j <= i
    OBVIOUS
  <2>1. n - j \in U /\ n - j \in Nat /\ m \in Nat
    BY <1>3, <1>4
  <2>2. ~(n - j < m)
    BY <1>1, <1>4, <2>1
  <2> QED BY <1>5, <2>1, <2>2
<1> QED BY <1>5, <1>6 DEF IsLast

LEMMA OpeningBalanceType == \A a \in Account : OpeningBalance(a) \in Int
BY OpeningAssumption, MaxIntAssumption DEF OpeningBalance, AccountRow

\* Of a set of numbers at most one is the last.
LEMMA OneLast ==
  ASSUME NEW K \in SUBSET Int, NEW i, NEW j, IsLast(K, i), IsLast(K, j)
  PROVE  i = j
BY DEF IsLast

\* A row is appended that is later than its account's, and carries its new balance.
LEMMA AppendKeepsBook ==
  ASSUME NEW J, NEW acc \in [Account -> AccountRow \cup {Nil}], Book(J, acc),
         NEW row \in TransactionRow, NEW after \in AccountRow,
         acc[row.account] # Nil,
         row.after = acc[row.account].balance + Signed(row),
         after.balance = row.after,
         \A i \in 1..Len(J) : J[i].account = row.account => J[i].at <= row.at
  PROVE  Book(Append(J, row), [acc EXCEPT ![row.account] = after])
<1> DEFINE n == Len(J)
           b == row.account
           J2 == Append(J, row)
           acc2 == [acc EXCEPT ![b] = after]
<1>1. J \in Seq(TransactionRow) /\ n \in Nat /\ b \in Account
  BY DEF Book, TransactionRow
<1>2. /\ J2 \in Seq(TransactionRow) /\ Len(J2) = n + 1
      /\ \A i \in 1..n : J2[i] = J[i]
      /\ J2[n + 1] = row
      /\ 1..(n + 1) = 1..n \cup {n + 1}
  BY <1>1
<1>3. /\ after # Nil /\ acc2[b] = after
      /\ \A a \in Account \ {b} : acc2[a] = acc[a]
      /\ \A a \in Account : acc[a] # Nil => acc2[a] # Nil
  BY <1>1, NilIsNoRow
<1>4. \A i \in 1..n : J[i] \in TransactionRow /\ J[i].account \in Account
  <2>1. \A i \in 1..n : J[i] \in TransactionRow
    BY <1>1
  <2> QED BY <2>1 DEF TransactionRow
<1> HIDE DEF n, J2, acc2
<1>5. \A i \in 1..Len(J2) : acc2[J2[i].account] # Nil
  <2> SUFFICES ASSUME NEW i \in 1..Len(J2)
               PROVE  acc2[J2[i].account] # Nil
    OBVIOUS
  <2>1. CASE i \in 1..n
    BY <1>2, <1>3, <1>4, <2>1 DEF Book, n
  <2>2. CASE i = n + 1
    BY <1>2, <1>3, <2>2
  <2> QED BY <1>2, <2>1, <2>2
<1>6. \A a \in Account : Opening[a] # Nil => acc2[a] # Nil
  BY <1>3 DEF Book
<1>7. ASSUME NEW i \in 1..Len(J2), NEW j \in 1..Len(J2), i < j,
             J2[i].account = J2[j].account
      PROVE  J2[i].at <= J2[j].at
  <2>1. i \in 1..n
    BY <1>1, <1>2, <1>7
  <2>2. CASE j \in 1..n
    BY <1>2, <1>7, <2>1, <2>2 DEF Book, n
  <2>3. CASE j = n + 1
    BY <1>2, <1>7, <2>1, <2>3 DEF n
  <2> QED BY <1>2, <2>2, <2>3
<1>8. ASSUME NEW k \in 0..n, NEW a, NEW c, Leaves(J, k, a, c)
      PROVE  Leaves(J2, k, a, c)
  <2>1. \A i \in 1..k : i \in 1..n /\ J2[i] = J[i]
    BY <1>1, <1>2
  <2>2. RowsOf(J2, k, a) = RowsOf(J, k, a)
    BY <2>1 DEF RowsOf
  <2>3. \A i \in RowsOf(J, k, a) : J2[i] = J[i]
    BY <2>1 DEF RowsOf
  <2> QED BY <1>8, <2>2, <2>3 DEF Leaves
<1>9. ASSUME NEW j \in 1..Len(J2)
      PROVE  Leaves(J2, j - 1, J2[j].account, J2[j].after - Signed(J2[j]))
  <2>1. CASE j \in 1..n
    <3>1. Leaves(J, j - 1, J[j].account, J[j].after - Signed(J[j])) /\ j - 1 \in 0..n
      BY <1>1, <2>1 DEF Book, n
    <3> QED BY <1>2, <1>8, <2>1, <3>1
  <2>2. CASE j = n + 1
    <3>1. J2[j] = row /\ j - 1 = n /\ n \in 0..n
      BY <1>1, <1>2, <2>2
    <3>2. Leaves(J, n, b, acc[b].balance)
      BY <1>1 DEF Book, n
    <3>3. acc[b].balance \in Int /\ Signed(row) \in Int
      BY <1>1, MaxIntAssumption DEF AccountRow, TransactionRow, Signed
    <3>4. row.after - Signed(row) = acc[b].balance
      BY <3>3
    <3>5. Leaves(J2, n, b, acc[b].balance)
      BY <1>8, <3>1, <3>2
    <3> QED BY <3>1, <3>4, <3>5
  <2> QED BY <1>2, <2>1, <2>2
<1>10. ASSUME NEW a \in Account, acc2[a] # Nil
       PROVE  Leaves(J2, Len(J2), a, acc2[a].balance)
  <2>1. CASE a = b
    <3>1. n + 1 \in RowsOf(J2, n + 1, b)
      BY <1>1, <1>2 DEF RowsOf
    <3>2. \A i \in RowsOf(J2, n + 1, b) : IsLast(RowsOf(J2, n + 1, b), i) => i = n + 1
      BY <1>1, <3>1 DEF IsLast, RowsOf
    <3> QED BY <1>2, <1>3, <2>1, <3>1, <3>2 DEF Leaves
  <2>2. CASE a # b
    <3>1. acc2[a] = acc[a] /\ Leaves(J, n, a, acc[a].balance)
      BY <1>3, <1>10, <2>2 DEF Book, n
    <3>2. Leaves(J2, n, a, acc[a].balance) /\ n \in 0..n
      BY <1>1, <1>8, <3>1
    <3>3. RowsOf(J2, n + 1, a) = RowsOf(J2, n, a)
      BY <1>1, <1>2, <2>2 DEF RowsOf
    <3> QED BY <1>2, <3>1, <3>2, <3>3 DEF Leaves
  <2> QED BY <2>1, <2>2
<1>11. Book(J2, acc2)
  BY <1>2, <1>5, <1>6, <1>7, <1>9, <1>10 DEF Book
<1> QED BY <1>11 DEF J2, acc2

LEMMA OpenKeepsBook ==
  ASSUME accounts \in [Account -> AccountRow \cup {Nil}], Book(journal, accounts),
         NEW a \in Account, Open(a)
  PROVE  Book(journal', accounts')
<1>1. PICK actor \in Actor, currency \in Currency :
        accounts' = [accounts EXCEPT
                       ![a] = [owner |-> actor.user, currency |-> currency, balance |-> 0]]
  BY DEF Open
<1>2. accounts[a] = Nil /\ journal' = journal
  BY DEF Open
<1> DEFINE row == [owner |-> actor.user, currency |-> currency, balance |-> 0]
<1>3. row \in AccountRow /\ row.balance = 0
  BY <1>1, ActorAssumption, MaxIntAssumption DEF AccountRow
<1> HIDE DEF row
<1>4. /\ accounts'[a] = row /\ row # Nil
      /\ \A b \in Account \ {a} : accounts'[b] = accounts[b]
  BY <1>1, <1>3, NilIsNoRow DEF row
<1>5. \A b \in Account : accounts[b] # Nil => accounts'[b] # Nil
  BY <1>4
<1>6. \A i \in 1..Len(journal) : journal[i].account \in Account /\ journal[i].account # a
  <2>1. \A i \in 1..Len(journal) : journal[i] \in TransactionRow
    BY DEF Book
  <2> QED BY <1>2, <2>1 DEF Book, TransactionRow
<1>7. OpeningBalance(a) = 0
  BY <1>2 DEF Book, OpeningBalance
<1>8. ASSUME NEW b \in Account, accounts'[b] # Nil
      PROVE  Leaves(journal, Len(journal), b, accounts'[b].balance)
  <2>1. CASE b = a
    <3>1. RowsOf(journal, Len(journal), a) = {}
      BY <1>6 DEF RowsOf
    <3> QED BY <1>3, <1>4, <1>7, <2>1, <3>1 DEF Leaves
  <2>2. CASE b # a
    BY <1>4, <1>8, <2>2 DEF Book
  <2> QED BY <2>1, <2>2
<1>9. Book(journal, accounts')
  BY <1>5, <1>6, <1>8 DEF Book
<1> QED BY <1>2, <1>9

LEMMA MoveKeepsBook ==
  ASSUME accounts \in [Account -> AccountRow \cup {Nil}], Book(journal, accounts),
         NEW r \in Request, NEW a \in Present, NEW type \in {"deposit", "withdrawal"},
         NEW amount \in 1..MaxInt, Move(r, a, type, amount)
  PROVE  Book(journal', accounts')
<1>1. a \in Account /\ accounts[a] \in AccountRow /\ accounts[a] # Nil
  BY DEF Present
<1> DEFINE after == accounts[a].balance + (IF type = "deposit" THEN amount ELSE -amount)
<1>2. PICK actor \in Actor, at \in 0..MaxClock :
        /\ LaterThanAll(a, at) /\ after \in 0..MaxInt
        /\ accounts' = [accounts EXCEPT ![a].balance = after]
        /\ journal' = Append(journal,
             [id |-> <<r, 1>>, account |-> a, counterparty |-> Nil, type |-> type,
              amount |-> amount, after |-> after, by |-> actor.user, at |-> at])
  BY DEF Move
<1> DEFINE row == [id |-> <<r, 1>>, account |-> a, counterparty |-> Nil, type |-> type,
                   amount |-> amount, after |-> after, by |-> actor.user, at |-> at]
           moved == [accounts[a] EXCEPT !.balance = after]
<1>3. after = accounts[a].balance + Signed(row)
  BY DEF Signed
<1> HIDE DEF after
<1>4. row \in TransactionRow
  <2>1. actor.user \in User /\ at \in Nat
    BY <1>2, ActorAssumption
  <2> QED BY <1>1, <1>2, <2>1 DEF TransactionRow, TransactionType
<1>5. /\ row.account = a /\ row.after = after /\ row.at = at
      /\ moved \in AccountRow /\ moved.balance = after
  BY <1>1, <1>2, NewBalance DEF AccountRow
<1>6. accounts' = [accounts EXCEPT ![a] = moved] /\ journal' = Append(journal, row)
  BY <1>1, <1>2
<1>7. \A i \in 1..Len(journal) : journal[i].account = a => journal[i].at <= at
  BY <1>2 DEF LaterThanAll
<1> HIDE DEF row, moved
<1>8. Book(Append(journal, row), [accounts EXCEPT ![row.account] = moved])
  BY <1>1, <1>3, <1>4, <1>5, <1>7, AppendKeepsBook
<1> QED BY <1>5, <1>6, <1>8

LEMMA TransferKeepsBook ==
  ASSUME accounts \in [Account -> AccountRow \cup {Nil}], Book(journal, accounts),
         NEW r \in Request, NEW a \in Present, NEW b \in Present \ {a},
         NEW amount \in 1..MaxInt, Transfer(r, a, b, amount)
  PROVE  Book(journal', accounts')
<1>1. /\ a \in Account /\ accounts[a] \in AccountRow /\ accounts[a] # Nil
      /\ b \in Account /\ accounts[b] \in AccountRow /\ accounts[b] # Nil /\ a # b
  BY DEF Present
<1> DEFINE left == accounts[a].balance - amount
           received == accounts[b].balance + amount
<1>2. PICK actor \in Actor, at \in 0..MaxClock, later \in 0..MaxClock :
        /\ LaterThanAll(a, at) /\ LaterThanAll(b, later)
        /\ left >= 0 /\ received <= MaxInt
        /\ accounts' = [accounts EXCEPT ![a].balance = left, ![b].balance = received]
        /\ journal' = journal \o
             <<[id |-> <<r, 1>>, account |-> a, counterparty |-> b,
                type |-> "transfer_out", amount |-> amount, after |-> left,
                by |-> actor.user, at |-> at],
               [id |-> <<r, 2>>, account |-> b, counterparty |-> a,
                type |-> "transfer_in", amount |-> amount, after |-> received,
                by |-> actor.user, at |-> later]>>
  BY DEF Transfer
<1> DEFINE out == [id |-> <<r, 1>>, account |-> a, counterparty |-> b,
                   type |-> "transfer_out", amount |-> amount, after |-> left,
                   by |-> actor.user, at |-> at]
           in == [id |-> <<r, 2>>, account |-> b, counterparty |-> a,
                  type |-> "transfer_in", amount |-> amount, after |-> received,
                  by |-> actor.user, at |-> later]
<1>3. left \in 0..MaxInt /\ received \in 0..MaxInt
  <2>1. accounts[a].balance \in 0..MaxInt /\ accounts[b].balance \in 0..MaxInt
    BY <1>1 DEF AccountRow
  <2> QED BY <1>2, <2>1, MaxIntAssumption
<1>4. left = accounts[a].balance + Signed(out) /\ received = accounts[b].balance + Signed(in)
  <2>1. accounts[a].balance \in Int /\ accounts[b].balance \in Int
    BY <1>1 DEF AccountRow
  <2> QED BY <2>1, MaxIntAssumption DEF Signed
<1> HIDE DEF left, received
<1>5. out \in TransactionRow /\ in \in TransactionRow
  <2>1. actor.user \in User /\ at \in Nat /\ later \in Nat
    BY <1>2, ActorAssumption
  <2> QED BY <1>1, <1>3, <2>1 DEF TransactionRow, TransactionType
<1>6. /\ out.account = a /\ out.after = left /\ out.at = at
      /\ in.account = b /\ in.after = received /\ in.at = later
  OBVIOUS
<1> DEFINE rowA == [accounts[a] EXCEPT !.balance = left]
           rowB == [accounts[b] EXCEPT !.balance = received]
           half == [accounts EXCEPT ![a] = rowA]
<1>7. /\ rowA \in AccountRow /\ rowA.balance = left
      /\ rowB \in AccountRow /\ rowB.balance = received
  BY <1>1, <1>3, NewBalance DEF AccountRow
<1>8. accounts' = [accounts EXCEPT ![a] = rowA, ![b] = rowB] /\ journal' = journal \o <<out, in>>
  BY <1>1, <1>2
<1> HIDE DEF out, in, rowA, rowB
<1>9. journal \in Seq(TransactionRow) /\ Len(journal) \in Nat
  BY DEF Book
<1>10. journal' = Append(Append(journal, out), in)
  BY <1>5, <1>8, <1>9
<1>11. half[b] = accounts[b] /\ accounts' = [half EXCEPT ![b] = rowB]
       /\ half \in [Account -> AccountRow \cup {Nil}]
  BY <1>1, <1>7, <1>8
<1> HIDE DEF half
<1>12. Book(Append(journal, out), half)
  <2>1. \A i \in 1..Len(journal) : journal[i].account = a => journal[i].at <= at
    BY <1>2 DEF LaterThanAll
  <2>2. Book(Append(journal, out), [accounts EXCEPT ![out.account] = rowA])
    BY <1>1, <1>4, <1>5, <1>6, <1>7, <2>1, AppendKeepsBook
  <2> QED BY <1>6, <2>2 DEF half
<1>13. \A i \in 1..Len(Append(journal, out)) :
         Append(journal, out)[i].account = b => Append(journal, out)[i].at <= later
  <2> SUFFICES ASSUME NEW i \in 1..(Len(journal) + 1)
               PROVE  Append(journal, out)[i].account = b => Append(journal, out)[i].at <= later
    BY <1>5, <1>9
  <2>1. CASE i = Len(journal) + 1
    BY <1>1, <1>5, <1>6, <1>9, <2>1
  <2>2. CASE i \in 1..Len(journal)
    <3>1. Append(journal, out)[i] = journal[i]
      BY <1>5, <1>9, <2>2
    <3> QED BY <1>2, <2>2, <3>1 DEF LaterThanAll
  <2> QED BY <1>9, <2>1, <2>2
<1>14. Book(Append(Append(journal, out), in), [half EXCEPT ![in.account] = rowB])
  BY <1>1, <1>4, <1>5, <1>6, <1>7, <1>11, <1>12, <1>13, AppendKeepsBook
<1> QED BY <1>6, <1>10, <1>11, <1>14

LEMMA WritersKeepBook ==
  ASSUME accounts \in [Account -> AccountRow \cup {Nil}], Book(journal, accounts), Next
  PROVE  Book(journal', accounts')
<1>1. CASE \E a \in Account : Open(a)
  BY <1>1, OpenKeepsBook
<1>2. CASE \E r \in Request, a \in Present, amount \in 1..MaxInt,
              type \in {"deposit", "withdrawal"} : Move(r, a, type, amount)
  BY <1>2, MoveKeepsBook
<1>3. CASE \E r \in Request, a \in Present, amount \in 1..MaxInt :
             \E b \in Present \ {a} : Transfer(r, a, b, amount)
  BY <1>3, TransferKeepsBook
<1> QED BY <1>1, <1>2, <1>3 DEF Next

\* Rows are only added to the journal.
JournalGrows ==
  /\ Len(journal) <= Len(journal')
  /\ \A i \in 1..Len(journal) : journal'[i] = journal[i]

LEMMA WritersAppend ==
  ASSUME journal \in Seq(TransactionRow), Next
  PROVE  JournalGrows
<1>1. CASE UNCHANGED journal
  BY <1>1 DEF JournalGrows
<1>2. CASE \E row : journal' = Append(journal, row)
  BY <1>2 DEF JournalGrows
<1>3. CASE \E out, in : journal' = journal \o <<out, in>>
  BY <1>3 DEF JournalGrows
<1>4. \A r, a, type, amount : Move(r, a, type, amount) => \E row : journal' = Append(journal, row)
  BY DEF Move
<1>5. \A r, a, b, amount :
        Transfer(r, a, b, amount) => \E out, in : journal' = journal \o <<out, in>>
  <2> SUFFICES ASSUME NEW r, NEW a, NEW b, NEW amount, Transfer(r, a, b, amount)
               PROVE  \E out, in : journal' = journal \o <<out, in>>
    OBVIOUS
  <2>1. \E actor \in Actor, at, later \in 0..MaxClock :
          journal' = journal \o
            <<[id |-> <<r, 1>>, account |-> a, counterparty |-> b,
               type |-> "transfer_out", amount |-> amount,
               after |-> accounts[a].balance - amount, by |-> actor.user, at |-> at],
              [id |-> <<r, 2>>, account |-> b, counterparty |-> a,
               type |-> "transfer_in", amount |-> amount,
               after |-> accounts[b].balance + amount, by |-> actor.user, at |-> later]>>
    BY DEF Transfer
  <2> QED BY <2>1, Zenon
<1> QED BY <1>1, <1>2, <1>3, <1>4, <1>5 DEF Next, Open
-----------------------------------------------------------------------------
\* Rows that are added take nothing from what has been answered.

LEMMA GrowthFrame ==
  ASSUME JournalGrows, Len(journal) \in Nat, Len(journal') \in Nat
  PROVE  /\ \A k \in 0..Len(journal) : \A a : RowsOf(journal', k, a) = RowsOf(journal, k, a)
         /\ \A k \in 0..Len(journal) : \A a : BalanceAfter(k, a)' = BalanceAfter(k, a)
         /\ \A a, at : Alone(a, at)' => Alone(a, at)
<1>1. \A k \in 0..Len(journal) : \A a : RowsOf(journal', k, a) = RowsOf(journal, k, a)
  BY DEF JournalGrows, RowsOf
<1>2. ASSUME NEW k \in 0..Len(journal), NEW a
      PROVE  BalanceAfter(k, a)' = BalanceAfter(k, a)
  <2> DEFINE K == RowsOf(journal, k, a)
             last == LastIn(K)
  <2>1. BalanceAfter(k, a) = IF K = {} THEN OpeningBalance(a) ELSE journal[last].after
    BY DEF BalanceAfter, Among
  <2>2. BalanceAfter(k, a)' = IF K = {} THEN OpeningBalance(a) ELSE journal'[last].after
    BY <1>1 DEF BalanceAfter, Among, OpeningBalance
  <2>3. CASE K = {}
    BY <2>1, <2>2, <2>3
  <2>4. CASE K # {}
    <3>1. K \in SUBSET (1..k) /\ k \in Nat
      BY DEF RowsOf
    <3>2. \E i \in K : IsLast(K, i)
      BY <2>4, <3>1, GreatestNumber
    <3>3. last \in 1..Len(journal)
      <4>1. last \in K
        BY <3>2 DEF LastIn
      <4> HIDE DEF last, K
      <4>2. last \in 1..k
        BY <3>1, <4>1
      <4> QED BY <4>2
    <3>4. journal'[last] = journal[last]
      BY <3>3 DEF JournalGrows
    <3> QED BY <2>1, <2>2, <3>4
  <2> QED BY <2>3, <2>4
<1>3. ASSUME NEW a, NEW at, Alone(a, at)'
      PROVE  Alone(a, at)
  <2> DEFINE S == {i \in RowsOf(journal, Len(journal), a) : journal[i].at = at}
             T == {i \in RowsOf(journal', Len(journal'), a) : journal'[i].at = at}
  <2>1. S \in SUBSET T
    BY DEF JournalGrows, RowsOf
  <2>2. IsFiniteSet(T)
    <3>1. IsFiniteSet(1..Len(journal'))
      BY FS_Interval
    <3>2. T \in SUBSET (1..Len(journal'))
      BY DEF RowsOf
    <3> HIDE DEF T
    <3> QED BY <3>1, <3>2, FS_Subset
  <2>3. /\ Cardinality(S) \in Nat /\ Cardinality(T) \in Nat
        /\ Cardinality(S) <= Cardinality(T)
    <3> HIDE DEF S, T
    <3> QED BY <2>1, <2>2, FS_Subset, FS_CardinalityType
  <2>4. Cardinality(T) <= 1
    BY <1>3 DEF Alone, Among
  <2>5. Cardinality(S) <= 1
    BY <2>3, <2>4
  <2> QED BY <2>5 DEF Alone, Among
<1> QED BY <1>1, <1>2, <1>3

\* Of rows with a time of their own there is one.
LEMMA AloneIsOne ==
  ASSUME Len(journal) \in Nat, NEW a, NEW at, Alone(a, at),
         NEW i \in RowsOf(journal, Len(journal), a), journal[i].at = at,
         NEW j \in RowsOf(journal, Len(journal), a), journal[j].at = at
  PROVE  i = j
<1> DEFINE S == {k \in RowsOf(journal, Len(journal), a) : journal[k].at = at}
<1>1. IsFiniteSet(S)
  <2>1. IsFiniteSet(1..Len(journal))
    BY FS_Interval
  <2>2. S \in SUBSET (1..Len(journal))
    BY DEF RowsOf
  <2> HIDE DEF S
  <2> QED BY <2>1, <2>2, FS_Subset
<1>2. Cardinality(S) <= 1 /\ i \in S /\ j \in S
  BY DEF Alone, Among
<1> HIDE DEF S
<1>3. Cardinality(S) \in Nat /\ S # {}
  BY <1>1, <1>2, FS_CardinalityType
<1>4. Cardinality(S) # 0
  BY <1>1, <1>3, FS_EmptySet
<1>5. Cardinality(S) = 1
  BY <1>2, <1>3, <1>4
<1>6. PICK x : S = {x}
  BY <1>1, <1>5, FS_Singleton
<1> QED BY <1>2, <1>6

\* What q has been shown is as true as it was.
LEMMA AnswerStays ==
  ASSUME JournalGrows, Len(journal) \in Nat, Len(journal') \in Nat, NEW q \in Reader,
         began[q].rows \in 0..Len(journal), began[q].at \in 0..now,
         now \in Nat, now' \in Nat, now <= now',
         body'[q] = body[q], status'[q] = status[q], query'[q] = query[q], began'[q] = began[q]
  PROVE  /\ \A kind : Shown(q, kind)' = Shown(q, kind)
         /\ \A i : AddsUp(q, i) => AddsUp(q, i)'
         /\ \A k \in Since(q) : k \in Since(q)'
         /\ \A t \in TimesSince(q) : t \in TimesSince(q)'
         /\ \A k \in Since(q) : IsNewest(q, k) => IsNewest(q, k)'
         /\ \A k \in Since(q) : \A t : IsClosing(q, ToldOf(q, k, t)) =>
                                           IsClosing(q, ToldOf(q, k, t))'
<1>1. \A kind : Shown(q, kind)' = Shown(q, kind)
  BY DEF Shown
<1>2. Limit(q)' = Limit(q) /\ Months(q)' = Months(q)
  BY DEF Limit, Months, Promised
<1>3. \A i : AddsUp(q, i) => AddsUp(q, i)'
  BY <1>2, GrowthFrame DEF AddsUp, OpeningBalance, Signed
<1>4. \A k \in Since(q) : k \in Since(q)' /\ k \in 0..Len(journal)
  BY DEF Since, JournalGrows
<1>8. \A t \in TimesSince(q) : t \in TimesSince(q)'
  BY DEF TimesSince
<1>5. ASSUME NEW k \in Since(q)
      PROVE  /\ Among(k, query[q].account)' = Among(k, query[q].account)
             /\ \A i \in Among(k, query[q].account) : journal'[i] = journal[i]
  <2>1. k \in 0..Len(journal)
    BY <1>4
  <2>2. Among(k, query[q].account)' = Among(k, query[q].account)
    BY <2>1, GrowthFrame DEF Among
  <2>3. \A i \in Among(k, query[q].account) : i \in 1..Len(journal)
    BY <2>1 DEF Among, RowsOf
  <2> QED BY <2>2, <2>3 DEF JournalGrows
<1>6. ASSUME NEW k \in Since(q), IsNewest(q, k)
      PROVE  IsNewest(q, k)'
  <2>1. {journal'[i] : i \in Among(k, query[q].account)'} =
        {journal[i] : i \in Among(k, query[q].account)}
    BY <1>5
  <2> QED BY <1>2, <1>6, <2>1 DEF IsNewest
<1>7. ASSUME NEW k \in Since(q), NEW t, IsClosing(q, ToldOf(q, k, t))
      PROVE  IsClosing(q, ToldOf(q, k, t))'
  <2> DEFINE K == ToldOf(q, k, t)
             OfMonth(m) == {i \in K : Month(journal[i].at) = m}
             OfMonthNext(m) == {i \in K : Month(journal'[i].at) = m}
             AloneNext(i) ==
               Cardinality({j \in RowsOf(journal', Len(journal'), query'[q].account) :
                              journal'[j].at = journal'[i].at}) <= 1
  <2>1. ToldOf(q, k, t)' = K /\ \A i \in K : journal'[i] = journal[i]
    BY <1>2, <1>5 DEF ToldOf, Month
  <2>2. \A m : OfMonthNext(m) = OfMonth(m)
    BY <2>1
  <2>3. /\ DOMAIN body[q] = {Month(journal[i].at) : i \in K}
        /\ \A m \in DOMAIN body[q] : \E i \in OfMonth(m) :
             /\ body[q][m] = journal[i].after
             /\ IsLast(OfMonth(m), i) \/ ~Alone(query[q].account, journal[i].at)
    BY <1>7, Zenon DEF IsClosing, RowsOfMonth
  <2>4. /\ DOMAIN body[q] = {Month(journal'[i].at) : i \in K}
        /\ \A m \in DOMAIN body[q] : \E i \in OfMonthNext(m) :
             /\ body[q][m] = journal'[i].after
             /\ IsLast(OfMonthNext(m), i) \/ ~AloneNext(i)
    <3>1. \A a, at : ~Alone(a, at) => ~Alone(a, at)'
      BY GrowthFrame
    <3>2. ASSUME NEW m \in DOMAIN body[q]
          PROVE  \E i \in OfMonthNext(m) :
             /\ body[q][m] = journal'[i].after
             /\ IsLast(OfMonthNext(m), i) \/ ~AloneNext(i)
      <4>1. PICK i \in OfMonth(m) :
             /\ body[q][m] = journal[i].after
             /\ IsLast(OfMonth(m), i) \/ ~Alone(query[q].account, journal[i].at)
        BY <2>3
      <4>2. i \in K /\ journal'[i] = journal[i] /\ i \in OfMonthNext(m)
        BY <2>1, <2>2, <4>1
      <4>3. ~Alone(query[q].account, journal[i].at) => ~AloneNext(i)
        <5>1. PICK a, at : a = query[q].account /\ at = journal[i].at
          OBVIOUS
        <5>2. AloneNext(i) => Alone(a, at)'
          BY <4>2, <5>1 DEF Alone, Among
        <5>3. Alone(a, at) => Alone(query[q].account, journal[i].at)
          BY <5>1
        <5> QED BY <3>1, <5>2, <5>3
      <4> QED BY <2>2, <4>1, <4>2, <4>3
    <3>3. {Month(journal'[i].at) : i \in K} = {Month(journal[i].at) : i \in K}
      BY <2>1
    <3>4. DOMAIN body[q] = {Month(journal'[i].at) : i \in K}
      BY <2>3, <3>3, Zenon
    <3> HIDE DEF K, OfMonthNext, AloneNext
    <3> QED BY <3>2, <3>4, Zenon
  <2>5. PICK S : S = ToldOf(q, k, t)' /\ S = K
    BY <2>1
  <2>6. IsClosing(q, ToldOf(q, k, t))' <=>
        /\ DOMAIN body'[q] = {Month(journal'[i].at) : i \in S}
        /\ \A m \in DOMAIN body'[q] : \E i \in {i \in S : Month(journal'[i].at) = m} :
             /\ body'[q][m] = journal'[i].after
             /\ \/ IsLast({j \in S : Month(journal'[j].at) = m}, i)
                \/ ~AloneNext(i)
    BY <2>5, Zenon DEF IsClosing, RowsOfMonth, Alone, Among
  <2>7. \A m : {i \in S : Month(journal'[i].at) = m} = OfMonthNext(m)
    BY <2>5
  <2> HIDE DEF K, OfMonthNext, AloneNext
  <2>8. DOMAIN body'[q] = {Month(journal'[i].at) : i \in S}
    BY <2>4, <2>5
  <2>9. ASSUME NEW m \in DOMAIN body'[q]
        PROVE  \E i \in {i \in S : Month(journal'[i].at) = m} :
                 /\ body'[q][m] = journal'[i].after
                 /\ \/ IsLast({j \in S : Month(journal'[j].at) = m}, i)
                    \/ ~AloneNext(i)
    BY <2>4, <2>7
  <2> QED BY <2>6, <2>8, <2>9
<1> QED BY <1>1, <1>3, <1>4, <1>6, <1>7, <1>8
-----------------------------------------------------------------------------
\* What the queries compute from a journal and accounts that agree.

LEMMA BookTypes ==
  ASSUME Book(journal, accounts)
  PROVE  /\ journal \in Seq(TransactionRow) /\ Len(journal) \in Nat
         /\ \A i \in 1..Len(journal) : journal[i] \in TransactionRow
         /\ \A i \in 1..Len(journal) :
              /\ journal[i].at \in Nat /\ journal[i].after \in Int
              /\ Signed(journal[i]) \in Int
<1>1. /\ journal \in Seq(TransactionRow) /\ Len(journal) \in Nat
      /\ \A i \in 1..Len(journal) : journal[i] \in TransactionRow
  BY DEF Book
<1>2. \A row \in TransactionRow : row.at \in Nat /\ row.after \in Int /\ Signed(row) \in Int
  BY MaxIntAssumption DEF TransactionRow, Signed
<1> QED BY <1>1, <1>2

\* An account's balance is what its rows have left it.
LEMMA BalanceNow ==
  ASSUME Book(journal, accounts), NEW a \in Account, accounts[a] # Nil
  PROVE  accounts[a].balance = BalanceAfter(Len(journal), a)
<1> DEFINE K == RowsOf(journal, Len(journal), a)
<1>1. Leaves(journal, Len(journal), a, accounts[a].balance)
  BY DEF Book
<1>2. K \in SUBSET (1..Len(journal))
  BY DEF RowsOf
<1>3. CASE K = {}
  BY <1>1, <1>3 DEF Leaves, BalanceAfter, Among
<1>4. CASE K # {}
  <2>1. \E i \in K : IsLast(K, i)
    BY <1>2, <1>4, BookTypes, GreatestNumber
  <2>2. LastIn(K) \in K /\ IsLast(K, LastIn(K))
    BY <2>1 DEF LastIn
  <2> QED BY <1>1, <1>4, <2>2 DEF Leaves, BalanceAfter, Among
<1> QED BY <1>3, <1>4

\* A page has each of the newest rows once, and all the rows if it is not full.
LEMMA PageFacts ==
  ASSUME Book(journal, accounts), NEW a, NEW limit \in Nat,
         NEW K \in Newest(a, limit), NEW page \in Sorted(K)
  PROVE  /\ Cardinality(K) \in Nat /\ K \subseteq Entries(a)
         /\ page \in [1..Cardinality(K) -> K]
         /\ \A k \in K : \E i \in 1..Cardinality(K) : page[i] = k
         /\ (K = Entries(a) \/ Cardinality(K) = limit) /\ Cardinality(K) <= limit
         /\ \A k \in K : \A j \in Entries(a) \ K : journal[k].at >= journal[j].at
         /\ \A i, j \in 1..Cardinality(K) :
              i < j => page[i] # page[j] /\ journal[page[i]].at >= journal[page[j]].at
<1>1. /\ K \in SUBSET Entries(a)
      /\ Cardinality(K) = IF Cardinality(Entries(a)) < limit THEN Cardinality(Entries(a))
                          ELSE limit
      /\ \A k \in K : \A j \in Entries(a) \ K : journal[k].at >= journal[j].at
  BY DEF Newest
<1>2. IsFiniteSet(Entries(a))
  <2>1. IsFiniteSet(1..Len(journal))
    BY BookTypes, FS_Interval
  <2>2. Entries(a) \in SUBSET (1..Len(journal))
    BY DEF Entries
  <2> QED BY <2>1, <2>2, FS_Subset
<1>3. /\ IsFiniteSet(K) /\ Cardinality(K) \in Nat
      /\ Cardinality(Entries(a)) = Cardinality(K) => Entries(a) = K
  BY <1>1, <1>2, FS_Subset, FS_CardinalityType
<1>4. (K = Entries(a) \/ Cardinality(K) = limit) /\ Cardinality(K) <= limit
  <2>1. Cardinality(Entries(a)) \in Nat
    BY <1>2, FS_CardinalityType
  <2> QED BY <1>1, <1>3, <2>1
<1> DEFINE n == Cardinality(K)
<1>5. /\ page \in [1..n -> K]
      /\ \A i, j \in 1..n :
           i < j => page[i] # page[j] /\ journal[page[i]].at >= journal[page[j]].at
  BY DEF Sorted
<1>6. IsFiniteSet(1..n) /\ Cardinality(1..n) = n
  <2>1. n \in Nat
    BY <1>3
  <2> HIDE DEF n
  <2> QED BY <2>1, FS_Interval
<1>7. page \in Injection(1..n, K)
  <2>1. ASSUME NEW i \in 1..n, NEW j \in 1..n, page[i] = page[j]
        PROVE  i = j
    <3>1. ~(i < j) /\ ~(j < i)
      BY <1>5, <2>1
    <3> QED BY <1>3, <3>1
  <2> QED BY <1>5, <2>1 DEF Injection, IsInjective
<1>8. page \in Surjection(1..n, K)
  BY <1>3, <1>6, <1>7, FS_Injection
<1>9. \A k \in K : \E i \in 1..n : page[i] = k
  BY <1>8 DEF Surjection
<1> QED BY <1>1, <1>3, <1>4, <1>5, <1>9

\* The page as it is sent.
LEMMA PageContent ==
  ASSUME Book(journal, accounts), NEW a, NEW limit \in Nat,
         NEW K \in Newest(a, limit), NEW page \in Sorted(K),
         NEW content, content = [i \in DOMAIN page |-> journal[page[i]]]
  PROVE  /\ DOMAIN content = 1..Cardinality(K) /\ Len(content) = Cardinality(K)
         /\ \A i \in 1..Cardinality(K) :
              /\ content[i] = journal[page[i]]
              /\ page[i] \in K /\ page[i] \in 1..Len(journal)
              /\ journal[page[i]].account = a
<1> DEFINE n == Cardinality(K)
<1>1. n \in Nat /\ page \in [1..n -> K] /\ K \subseteq Entries(a)
  BY PageFacts
<1> HIDE DEF n
<1>2. \A i \in 1..n : page[i] \in K /\ page[i] \in 1..Len(journal)
                      /\ journal[page[i]].account = a
  BY <1>1 DEF Entries
<1>3. content \in [1..n -> TransactionRow]
  BY <1>1, <1>2, BookTypes
<1>4. content \in Seq(TransactionRow)
  BY <1>1, <1>3
<1>5. DOMAIN content = 1..Len(content) /\ Len(content) \in Nat /\ DOMAIN content = 1..n
  <2>1. DOMAIN content = 1..n
    BY <1>3
  <2>2. DOMAIN content = 1..Len(content) /\ Len(content) \in Nat
    BY <1>4
  <2> QED BY <2>1, <2>2
<1>6. Len(content) = n
  BY <1>1, <1>5
<1>7. \A i \in 1..n : content[i] = journal[page[i]]
  BY <1>1
<1> QED BY <1>2, <1>5, <1>6, <1>7 DEF n

\* It reads as a statement.
LEMMA PageAddsUp ==
  ASSUME Book(journal, accounts), NEW a \in Account, NEW limit \in Nat,
         NEW K \in Newest(a, limit), NEW page \in Sorted(K),
         NEW i \in 1..Cardinality(K), Alone(a, journal[page[i]].at)
  PROVE  /\ i < Cardinality(K) /\ Alone(a, journal[page[i + 1]].at) =>
              journal[page[i]].after = journal[page[i + 1]].after + Signed(journal[page[i]])
         /\ i = Cardinality(K) /\ i < limit =>
              journal[page[i]].after = OpeningBalance(a) + Signed(journal[page[i]])
<1> DEFINE n == Cardinality(K)
           k == page[i]
<1>1. /\ n \in Nat /\ page \in [1..n -> K]
      /\ \A x \in K : \E p \in 1..n : page[p] = x
      /\ K = Entries(a) \/ n = limit
      /\ \A x \in K : \A j \in Entries(a) \ K : journal[x].at >= journal[j].at
      /\ \A p, x \in 1..n : p < x => page[p] # page[x] /\ journal[page[p]].at >= journal[page[x]].at
  BY PageFacts
<1>2. /\ K \subseteq Entries(a) /\ k \in Entries(a) /\ Entries(a) = RowsOf(journal, Len(journal), a)
  BY <1>1, PageFacts DEF Entries, RowsOf
<1>3. /\ Len(journal) \in Nat
      /\ \A j \in Entries(a) : j \in 1..Len(journal) /\ journal[j].account = a
      /\ \A j \in Entries(a) : journal[j].at \in Nat /\ journal[j].after \in Int
                               /\ Signed(journal[j]) \in Int
  BY BookTypes DEF Entries
<1>4. \A j, l \in Entries(a) : j < l => journal[j].at <= journal[l].at
  BY <1>3 DEF Book
<1>5. \A j \in Entries(a) : journal[j].at = journal[k].at => j = k
  BY <1>2, <1>3, AloneIsOne
<1> DEFINE earlier == RowsOf(journal, k - 1, a)
<1>6. Leaves(journal, k - 1, a, journal[k].after - Signed(journal[k]))
  BY <1>2, <1>3 DEF Book
<1>7. /\ \A j \in earlier : j \in Entries(a) /\ j < k
      /\ \A j \in Entries(a) : j < k => j \in earlier
  BY <1>2, <1>3 DEF RowsOf, Entries
<1>8. \A j \in earlier : journal[j].at < journal[k].at
  <2> SUFFICES ASSUME NEW j \in earlier
               PROVE  journal[j].at < journal[k].at
    OBVIOUS
  <2>1. journal[j].at <= journal[k].at /\ j # k /\ j \in Entries(a)
    BY <1>2, <1>3, <1>4, <1>7
  <2> QED BY <1>2, <1>3, <1>5, <2>1
<1>9. \A p \in 1..n : page[p] \in earlier => i < p
  <2> SUFFICES ASSUME NEW p \in 1..n, page[p] \in earlier, ~(i < p)
               PROVE  FALSE
    OBVIOUS
  <2>1. journal[page[p]].at < journal[k].at
    BY <1>8
  <2>2. p # i
    BY <1>2, <1>3, <2>1
  <2>3. p < i
    BY <1>1, <2>2
  <2>4. journal[page[p]].at >= journal[k].at
    BY <1>1, <2>3
  <2> QED BY <1>2, <1>3, <1>7, <2>1, <2>4
<1> HIDE DEF n, k, earlier
<1>10. ASSUME i < n, Alone(a, journal[page[i + 1]].at)
       PROVE  journal[k].after = journal[page[i + 1]].after + Signed(journal[k])
  <2> DEFINE l == page[i + 1]
  <2>1. i \in 1..n /\ i + 1 \in 1..n /\ i < i + 1
    BY <1>1, <1>10 DEF n
  <2>2. l \in K /\ l \in Entries(a) /\ l # k /\ journal[k].at >= journal[l].at
    BY <1>1, <1>2, <2>1 DEF k
  <2> HIDE DEF l
  <2>3. \A j \in Entries(a) : journal[j].at = journal[l].at => j = l
    BY <1>2, <1>3, <1>10, <2>2, AloneIsOne DEF l
  <2>4. l \in earlier
    <3>1. journal[l].at < journal[k].at
      BY <1>2, <1>3, <1>5, <2>2
    <3>2. ~(k < l)
      BY <1>2, <1>3, <1>4, <2>2, <3>1
    <3>3. l < k
      BY <1>2, <1>3, <2>2, <3>2
    <3> QED BY <1>7, <2>2, <3>3
  <2>5. ASSUME NEW j \in earlier
        PROVE  j <= l
    <3> SUFFICES ASSUME l < j
                 PROVE  FALSE
      BY <1>3, <1>7, <2>4
    <3>1. j \in Entries(a) /\ journal[l].at <= journal[j].at /\ j # l
      BY <1>3, <1>4, <1>7, <2>2
    <3>2. journal[l].at < journal[j].at
      BY <1>3, <2>2, <2>3, <3>1
    <3>3. CASE j \in K
      <4>1. PICK p \in 1..n : page[p] = j
        BY <1>1, <3>3
      <4>2. i < p /\ p # i + 1
        BY <1>9, <3>1, <4>1 DEF l
      <4>3. i + 1 < p
        BY <1>1, <2>1, <4>2
      <4>4. journal[l].at >= journal[j].at
        BY <1>1, <2>1, <4>1, <4>3 DEF l
      <4> QED BY <1>3, <2>2, <3>1, <3>2, <4>4
    <3>4. CASE j \notin K
      <4>1. journal[l].at >= journal[j].at
        BY <1>1, <2>2, <3>1, <3>4
      <4> QED BY <1>3, <2>2, <3>1, <3>2, <4>1
    <3> QED BY <3>3, <3>4
  <2>6. IsLast(earlier, l)
    BY <2>4, <2>5 DEF IsLast
  <2>7. journal[k].after - Signed(journal[k]) = journal[l].after
    BY <1>6, <2>4, <2>6 DEF Leaves, earlier
  <2> QED BY <1>2, <1>3, <2>2, <2>7 DEF l
<1>11. ASSUME i = n, i < limit
       PROVE  journal[k].after = OpeningBalance(a) + Signed(journal[k])
  <2>1. K = Entries(a)
    BY <1>1, <1>11
  <2>2. earlier = {}
    <3> SUFFICES ASSUME NEW j \in earlier
                 PROVE  FALSE
      OBVIOUS
    <3>1. PICK p \in 1..n : page[p] = j
      BY <1>1, <1>7, <2>1
    <3>2. i < p
      BY <1>9, <3>1
    <3> QED BY <1>1, <1>11, <3>2
  <2>3. journal[k].after - Signed(journal[k]) = OpeningBalance(a)
    BY <1>6, <2>2 DEF Leaves, earlier
  <2> QED BY <1>2, <1>3, <2>3, OpeningBalanceType
<1> QED BY <1>10, <1>11 DEF n, k

\* The report of the months in the window.
LEMMA ReportIsClosing ==
  ASSUME Book(journal, accounts), now \in Nat, NEW a, NEW w \in Int,
         NEW months, NEW kept \in [months -> InWindow(a, w)],
         \A m \in months : kept[m] \in LastOf(InWindow(a, w), m)
  PROVE  \A m \in months :
           /\ kept[m] \in RowsOfMonth(InWindow(a, w), m)
           /\ \/ IsLast(RowsOfMonth(InWindow(a, w), m), kept[m])
              \/ ~Alone(a, journal[kept[m]].at)
<1>1. PICK K, E : K = InWindow(a, w) /\ E = Entries(a)
  OBVIOUS
<1>2. E = RowsOf(journal, Len(journal), a)
  BY <1>1 DEF Entries, RowsOf
<1>3. /\ Len(journal) \in Nat
      /\ \A i \in E : i \in 1..Len(journal) /\ journal[i].account = a /\ journal[i].at \in Nat
  BY <1>2, BookTypes DEF RowsOf
<1>4. K \subseteq E
  BY <1>1 DEF InWindow
<1>5. ASSUME NEW m \in months, ~IsLast(RowsOfMonth(K, m), kept[m])
      PROVE  ~Alone(a, journal[kept[m]].at)
  <2>1. kept[m] \in K /\ Month(journal[kept[m]].at) = m
        /\ \A j \in K : Month(journal[j].at) = m => journal[j].at <= journal[kept[m]].at
    BY <1>1 DEF LastOf
  <2>2. kept[m] \in RowsOfMonth(K, m)
    BY <2>1 DEF RowsOfMonth
  <2>3. PICK j \in RowsOfMonth(K, m) : ~(j <= kept[m])
    BY <1>5, <2>2 DEF IsLast
  <2>4. j \in E /\ Month(journal[j].at) = m /\ j \in K
    BY <1>4, <2>3 DEF RowsOfMonth
  <2>5. journal[j].at <= journal[kept[m]].at /\ kept[m] \in E
    BY <1>4, <2>1, <2>4
  <2>6. kept[m] < j /\ journal[kept[m]].at <= journal[j].at
    <3>1. kept[m] < j
      BY <1>3, <2>3, <2>4, <2>5
    <3> QED BY <1>3, <2>4, <2>5, <3>1 DEF Book
  <2>7. journal[j].at = journal[kept[m]].at /\ j # kept[m]
    BY <1>3, <2>4, <2>5, <2>6
  <2> QED BY <1>2, <1>3, <2>4, <2>5, <2>7, AloneIsOne
<1>6. \A m \in months : kept[m] \in RowsOfMonth(K, m)
  BY <1>1 DEF LastOf, RowsOfMonth
<1> QED BY <1>1, <1>5, <1>6
-----------------------------------------------------------------------------
\* The steps of the read side.

LEMMA NothingShown ==
  ASSUME NEW q, status'[q] # "ok"
  PROVE  Truthful(q)'
BY DEF Truthful, Shown

LEMMA TruthStays ==
  ASSUME JournalGrows, Len(journal) \in Nat, Len(journal') \in Nat, NEW q \in Reader,
         began[q].rows \in 0..Len(journal), began[q].at \in 0..now,
         now \in Nat, now' \in Nat, now <= now', Truthful(q),
         body'[q] = body[q], status'[q] = status[q], query'[q] = query[q], began'[q] = began[q]
  PROVE  Truthful(q)'
<1>1. /\ \A kind : Shown(q, kind)' = Shown(q, kind)
      /\ \A i : AddsUp(q, i) => AddsUp(q, i)'
      /\ \A k \in Since(q) : k \in Since(q)' /\ k \in 0..Len(journal)
      /\ \A t \in TimesSince(q) : t \in TimesSince(q)'
      /\ \A k \in Since(q) : IsNewest(q, k) => IsNewest(q, k)'
      /\ \A k \in Since(q) : \A t : IsClosing(q, ToldOf(q, k, t)) =>
                                       IsClosing(q, ToldOf(q, k, t))'
  BY AnswerStays DEF Since
<1>2. /\ \A a, at : Alone(a, at)' => Alone(a, at)
      /\ \A k \in 0..Len(journal) : \A a : BalanceAfter(k, a)' = BalanceAfter(k, a)
  BY GrowthFrame
<1>3. ASSUME Shown(q, "history")'
      PROVE  /\ \A i \in DOMAIN body'[q] :
                  Alone(query[q].account, body[q][i].at)' => AddsUp(q, i)'
             /\ \E k \in Since(q)' : IsNewest(q, k)'
  <2>1. /\ \A i \in DOMAIN body[q] : Alone(query[q].account, body[q][i].at) => AddsUp(q, i)
        /\ \E k \in Since(q) : IsNewest(q, k)
    BY <1>1, <1>3 DEF Truthful
  <2>2. ASSUME NEW i \in DOMAIN body'[q], Alone(query[q].account, body[q][i].at)'
        PROVE  AddsUp(q, i)'
    <3>1. PICK a, at : a = query[q].account /\ at = body[q][i].at
      OBVIOUS
    <3>2. Alone(a, at)'
      BY <2>2, <3>1 DEF Alone, Among
    <3>3. Alone(query[q].account, body[q][i].at)
      BY <1>2, <3>1, <3>2
    <3> QED BY <1>1, <2>1, <3>3
  <2> QED BY <1>1, <2>1, <2>2
<1>4. ASSUME Shown(q, "accounts")'
      PROVE  \E k \in Since(q)' :
               \A a \in DOMAIN body'[q] : body'[q][a].balance = BalanceAfter(k, a)'
  BY <1>1, <1>2, <1>4 DEF Truthful
<1>5. ASSUME Shown(q, "balance")'
      PROVE  \E k \in Since(q)' : body'[q].balance = BalanceAfter(k, query[q].account)'
  <2>1. PICK k \in Since(q) : body[q].balance = BalanceAfter(k, query[q].account)
    BY <1>1, <1>5 DEF Truthful
  <2>2. PICK a : a = query[q].account
    OBVIOUS
  <2>3. BalanceAfter(k, query[q].account)' = BalanceAfter(k, a)'
    BY <2>2 DEF BalanceAfter, Among, OpeningBalance
  <2>4. BalanceAfter(k, a)' = BalanceAfter(k, query[q].account)
    BY <1>1, <1>2, <2>2
  <2> QED BY <1>1, <2>1, <2>3, <2>4
<1>6. ASSUME Shown(q, "months")'
      PROVE  \E k \in Since(q)', t \in TimesSince(q)' : IsClosing(q, ToldOf(q, k, t))'
  <2>1. PICK k \in Since(q), t \in TimesSince(q) : IsClosing(q, ToldOf(q, k, t))
    BY <1>1, <1>6 DEF Truthful
  <2> QED BY <1>1, <2>1
<1> QED BY <1>3, <1>4, <1>5, <1>6 DEF Truthful

\* A step that leaves the other readers alone and answers q nothing untrue.
LEMMA OneReaderMoves ==
  ASSUME AnswersInv, NEW q \in Reader, UNCHANGED <<accounts, journal, now>>,
         DOMAIN began' = DOMAIN began, began'[q].rows \in 0..Len(journal),
         began'[q].at \in 0..now, Truthful(q)',
         \A p \in Reader \ {q} : /\ body'[p] = body[p] /\ status'[p] = status[p]
                                 /\ query'[p] = query[p] /\ began'[p] = began[p]
  PROVE  AnswersInv'
<1>1. Len(journal) \in Nat
  BY BookTypes DEF AnswersInv
<1>2. JournalGrows
  BY <1>1 DEF JournalGrows
<1>3. \A p \in Reader \ {q} :
        began'[p].rows \in 0..Len(journal) /\ began'[p].at \in 0..now /\ Truthful(p)'
  BY <1>1, <1>2, TruthStays DEF AnswersInv
<1>4. Book(journal', accounts')
  BY DEF AnswersInv
<1> QED BY <1>3, <1>4 DEF AnswersInv

LEMMA EnvironmentKeepsAnswers ==
  ASSUME ReportsInv, AnswersInv, Write \/ Tick
  PROVE  AnswersInv'
<1>1. Book(journal', accounts') /\ JournalGrows /\ UNCHANGED readerVars
      /\ now \in Nat /\ now' \in Nat /\ now <= now'
  <2>1. CASE Write
    BY <2>1, WritersKeepBook, WritersAppend, BookTypes DEF Write, ReportsInv, AnswersInv
  <2>2. CASE Tick
    BY <2>2, BookTypes DEF Tick, AnswersInv, JournalGrows
  <2> QED BY <2>1, <2>2
<1>2. Len(journal) \in Nat /\ Len(journal') \in Nat
  BY <1>1, BookTypes DEF AnswersInv, Book
<1>3. \A q \in Reader :
        began'[q].rows \in 0..Len(journal') /\ began'[q].at \in 0..now' /\ Truthful(q)'
  <2> SUFFICES ASSUME NEW q \in Reader
               PROVE  /\ began'[q].rows \in 0..Len(journal') /\ began'[q].at \in 0..now'
                      /\ Truthful(q)'
    OBVIOUS
  <2>1. /\ began[q].rows \in 0..Len(journal) /\ began[q].at \in 0..now /\ Truthful(q)
        /\ body'[q] = body[q] /\ status'[q] = status[q]
        /\ query'[q] = query[q] /\ began'[q] = began[q]
    BY <1>1 DEF AnswersInv, readerVars
  <2>2. Truthful(q)'
    BY <1>1, <1>2, <2>1, TruthStays
  <2> QED BY <1>1, <1>2, <2>1, <2>2 DEF JournalGrows
<1> QED BY <1>1, <1>3 DEF AnswersInv, readerVars

\* What a reader's answer changes.
LEMMA AnswerEffect ==
  ASSUME ReportsInv, AnswersInv, NEW q \in Reader, NEW code, NEW content,
         Answer(q, code, content)
  PROVE  /\ status'[q] = code /\ body'[q] = content
         /\ UNCHANGED <<accounts, journal, now, query, began>>
         /\ Truthful(q)' => AnswersInv'
<1>1. /\ status' = [status EXCEPT ![q] = code] /\ body' = [body EXCEPT ![q] = content]
      /\ UNCHANGED <<accounts, journal, now, query, began>>
  BY DEF Answer
<1>2. /\ status'[q] = code /\ body'[q] = content
      /\ \A p \in Reader \ {q} : status'[p] = status[p] /\ body'[p] = body[p]
  BY <1>1 DEF ReportsInv
<1>3. began'[q].rows \in 0..Len(journal) /\ began'[q].at \in 0..now
  BY <1>1 DEF AnswersInv
<1> QED BY <1>1, <1>2, <1>3, OneReaderMoves

LEMMA NoAnswerIsTrue ==
  ASSUME ReportsInv, AnswersInv, NEW q \in Reader,
         NEW code \in {"not_found", "forbidden", "internal"}, NEW content,
         Answer(q, code, content)
  PROVE  AnswersInv'
BY AnswerEffect, NothingShown

\* The present is one of the instants since a request.
LEMMA NowIsAnInstant ==
  ASSUME AnswersInv, NEW q \in Reader, UNCHANGED <<journal, now, began>>
  PROVE  Len(journal) \in Since(q)' /\ now \in TimesSince(q)'
<1>1. /\ began[q].rows \in 0..Len(journal) /\ Len(journal) \in Nat
      /\ began[q].at \in 0..now /\ now \in Nat
  BY BookTypes DEF AnswersInv
<1> QED BY <1>1 DEF Since, TimesSince

\* The code keeps to what is promised: its clamp is neither above nor below.
LEMMA LimitsAreKept ==
  ASSUME ReportsInv, NEW q \in Reader, stage[q] = "read",
         query[q].kind \in {"history", "months"}
  PROVE  /\ query[q].account \in Account
         /\ Limit(q) \in Nat /\ Months(q) \in Int
         /\ Clamp(query[q].asked, MaxLimit, DefaultLimit) = Limit(q)
         /\ Clamp(query[q].asked, MaxMonths, DefaultMonths) = Months(q)
<1>1. query[q].account \in Account
  BY DEF ReportsInv, Exists
<1>2. query[q].asked \in Int
  BY ReaderAssumption DEF ReportsInv, AccountsQuery, BalanceQuery, RowsQuery
<1>3. /\ Clamp(query[q].asked, MaxLimit, DefaultLimit) = Limit(q)
      /\ Clamp(query[q].asked, MaxMonths, DefaultMonths) = Months(q)
  BY <1>2, ReaderAssumption DEF Limit, Months, Promised, Clamp
<1>4. Limit(q) \in Nat /\ Months(q) \in Int
  BY <1>2, ReaderAssumption DEF Limit, Months, Promised
<1> QED BY <1>1, <1>3, <1>4

LEMMA HistoryIsTrue ==
  ASSUME ReportsInv, AnswersInv, NEW q \in Reader, ListTransactions(q)
  PROVE  AnswersInv'
<1> DEFINE a == query[q].account
           limit == Limit(q)
<1>1. Reads(q, "history") /\ Book(journal, accounts)
  BY DEF ListTransactions, AnswersInv
<1>2. a \in Account /\ limit \in Nat
  BY <1>1, LimitsAreKept DEF Reads
<1>3. PICK K \in Newest(a, limit) : \E page \in Sorted(K) :
        Answer(q, "ok", [i \in DOMAIN page |-> journal[page[i]]])
  BY <1>1, LimitsAreKept DEF ListTransactions, Reads
<1>4. PICK page \in Sorted(K) : Answer(q, "ok", [i \in DOMAIN page |-> journal[page[i]]])
  BY <1>3
<1>5. PICK content : content = [i \in DOMAIN page |-> journal[page[i]]]
  OBVIOUS
<1> DEFINE n == Cardinality(K)
<1>6. /\ DOMAIN content = 1..n /\ Len(content) = n
      /\ \A i \in 1..n : /\ content[i] = journal[page[i]]
                         /\ page[i] \in K /\ page[i] \in 1..Len(journal)
                         /\ journal[page[i]].account = a
  BY <1>1, <1>2, <1>5, PageContent
<1>7. /\ n \in Nat /\ K \subseteq Entries(a)
      /\ \A k \in K : \E i \in 1..n : page[i] = k
      /\ (K = Entries(a) \/ n = limit) /\ n <= limit
      /\ \A k \in K : \A j \in Entries(a) \ K : journal[k].at >= journal[j].at
  BY <1>1, <1>2, PageFacts
<1> HIDE DEF n
<1>8. ASSUME NEW i \in 1..n, Alone(a, content[i].at)
      PROVE  /\ i < n /\ Alone(a, content[i + 1].at) =>
                  content[i].after = content[i + 1].after + Signed(content[i])
             /\ i = n /\ i < limit => content[i].after = OpeningBalance(a) + Signed(content[i])
  <2>1. content[i] = journal[page[i]] /\ (i < n => content[i + 1] = journal[page[i + 1]])
    <3>1. i < n => i + 1 \in 1..n
      BY <1>7
    <3> QED BY <1>6, <3>1
  <2> HIDE DEF a, limit
  <2> QED BY <1>1, <1>2, <1>8, <2>1, PageAddsUp DEF n
<1>9. /\ {content[i] : i \in DOMAIN content} \subseteq {journal[i] : i \in Entries(a)}
      /\ \A row \in {journal[i] : i \in Entries(a)} \ {content[i] : i \in DOMAIN content} :
           n = limit /\ \A newer \in {content[i] : i \in DOMAIN content} : row.at <= newer.at
  <2>1. \A i \in 1..n : content[i] = journal[page[i]] /\ page[i] \in Entries(a)
    BY <1>6, <1>7
  <2>2. ASSUME NEW j \in Entries(a), journal[j] \notin {content[i] : i \in DOMAIN content}
        PROVE  n = limit /\ \A i \in 1..n : journal[j].at <= content[i].at
    <3>1. ASSUME j \in K PROVE FALSE
      <4>1. PICK i \in 1..n : page[i] = j
        BY <1>7, <3>1
      <4>2. content[i] = journal[j] /\ i \in DOMAIN content
        BY <1>6, <4>1
      <4> QED BY <2>2, <4>2
    <3>2. n = limit
      BY <1>7, <2>2, <3>1
    <3>3. \A i \in 1..n : journal[page[i]].at >= journal[j].at
      BY <1>6, <1>7, <2>2, <3>1
    <3>4. journal[j].at \in Nat /\ \A i \in 1..n : journal[page[i]].at \in Nat
      BY <1>1, <1>6, <2>2, BookTypes DEF Entries
    <3> QED BY <2>1, <3>2, <3>3, <3>4
  <2> QED BY <1>6, <2>1, <2>2
<1>10. /\ status'[q] = "ok" /\ body'[q] = content
       /\ UNCHANGED <<accounts, journal, now, query, began>>
       /\ Truthful(q)' => AnswersInv'
  BY <1>4, <1>5, AnswerEffect
<1>11. \A kind : Shown(q, kind)' => kind = "history"
  BY <1>1, <1>10 DEF Shown, Reads
<1>12. \A i \in DOMAIN body'[q] : Alone(query[q].account, body[q][i].at)' => AddsUp(q, i)'
  BY <1>6, <1>8, <1>10 DEF AddsUp, Alone, Among, Limit, Promised, OpeningBalance
<1>13. IsNewest(q, Len(journal))'
  <2>1. RowsOf(journal, Len(journal), a) = Entries(a)
    BY DEF RowsOf, Entries
  <2>2. IsNewest(q, Len(journal))' <=>
        LET rows == {body'[q][i] : i \in DOMAIN body'[q]}
            there == {journal'[i] : i \in RowsOf(journal', Len(journal'), query'[q].account)}
        IN  /\ rows \subseteq there /\ Len(body'[q]) <= Limit(q)'
            /\ \A row \in there \ rows :
                 /\ Len(body'[q]) = Limit(q)'
                 /\ \A newer \in rows : row.at <= newer.at
    BY Zenon DEF IsNewest, Among
  <2>3. {journal'[i] : i \in RowsOf(journal', Len(journal'), query'[q].account)} =
        {journal[i] : i \in Entries(a)}
    BY <1>10, <2>1
  <2>4. Len(body'[q]) = n /\ Limit(q)' = limit /\ body'[q] = content
    BY <1>6, <1>10 DEF Limit, Promised
  <2>5. PICK lim : lim = Limit(q)' /\ lim = limit
    BY <2>4
  <2>6. /\ {body'[q][i] : i \in DOMAIN body'[q]} = {content[i] : i \in DOMAIN content}
        /\ Len(body'[q]) <= lim
    BY <1>7, <2>4, <2>5
  <2> HIDE DEF limit, a
  <2> QED BY <1>9, <2>2, <2>3, <2>4, <2>5, <2>6
<1>14. \E k \in Since(q)' : IsNewest(q, k)'
  BY <1>10, <1>13, NowIsAnInstant
<1> QED BY <1>10, <1>11, <1>12, <1>14 DEF Truthful

LEMMA MonthsAreTrue ==
  ASSUME ReportsInv, AnswersInv, NEW q \in Reader, MonthlyBalances(q)
  PROVE  AnswersInv'
<1>1. PICK a, w : a = query[q].account /\ w = Months(q)
  OBVIOUS
<1>2. Reads(q, "months") /\ Book(journal, accounts) /\ now \in Nat
  BY DEF MonthlyBalances, AnswersInv
<1>3. a \in Account /\ w \in Int
  BY <1>1, <1>2, LimitsAreKept DEF Reads
<1>4. PICK K : K = InWindow(a, w)
  OBVIOUS
<1>5. PICK months : months = {Month(journal[k].at) : k \in K}
  OBVIOUS
<1>6. PICK kept \in [months -> K] :
        /\ \A m \in months : kept[m] \in LastOf(K, m)
        /\ Answer(q, "ok", [m \in months |-> journal[kept[m]].after])
  BY <1>1, <1>2, <1>4, <1>5, LimitsAreKept DEF MonthlyBalances, Reads
<1>7. PICK content : content = [m \in months |-> journal[kept[m]].after]
  OBVIOUS
<1>8. PICK E : E = Entries(a) /\ E = RowsOf(journal, Len(journal), a)
  BY DEF Entries, RowsOf
<1>9. \A m \in months :
        /\ kept[m] \in RowsOfMonth(K, m)
        /\ IsLast(RowsOfMonth(K, m), kept[m]) \/ ~Alone(a, journal[kept[m]].at)
  <2>1. \A m \in months : kept[m] \in LastOf(K, m)
    BY <1>6
  <2>2. kept \in [months -> InWindow(a, w)]
    BY <1>4
  <2> QED BY <1>2, <1>3, <1>4, <2>1, <2>2, ReportIsClosing
<1>10. /\ status'[q] = "ok" /\ body'[q] = content
       /\ UNCHANGED <<accounts, journal, now, query, began>>
       /\ Truthful(q)' => AnswersInv'
  BY <1>6, <1>7, AnswerEffect
<1>11. \A kind : Shown(q, kind)' => kind = "months"
  BY <1>2, <1>10 DEF Shown, Reads
<1>12. ToldOf(q, Len(journal), now)' = K
  <2>1. journal' = journal /\ now' = now /\ query' = query
    BY <1>10
  <2>2. K = {i \in E : Month(journal[i].at) > Month(now) - w}
    BY <1>4, <1>8 DEF InWindow
  <2> QED BY <1>1, <1>8, <2>1, <2>2 DEF ToldOf, Among, Months, Promised, Month
<1>13. IsClosing(q, ToldOf(q, Len(journal), now))'
  <2>1. PICK S : S = ToldOf(q, Len(journal), now)' /\ S = K
    BY <1>12
  <2>2. IsClosing(q, ToldOf(q, Len(journal), now))' <=>
          /\ DOMAIN body'[q] = {Month(journal'[i].at) : i \in S}
          /\ \A m \in DOMAIN body'[q] :
               \E i \in {i \in S : Month(journal'[i].at) = m} :
                 /\ body'[q][m] = journal'[i].after
                 /\ \/ IsLast({j \in S : Month(journal'[j].at) = m}, i)
                    \/ ~(Cardinality({j \in RowsOf(journal', Len(journal'), query'[q].account) :
                                        journal'[j].at = journal'[i].at}) <= 1)
    BY <2>1, Zenon DEF IsClosing, RowsOfMonth, Alone, Among
  <2>3. journal' = journal /\ DOMAIN body'[q] = months
    BY <1>7, <1>10
  <2>4. PICK R : R = RowsOf(journal', Len(journal'), query'[q].account) /\ R = E
    BY <1>1, <1>8, <1>10
  <2>5. ASSUME NEW m \in months
        PROVE  \E i \in {i \in K : Month(journal[i].at) = m} :
                 /\ body'[q][m] = journal[i].after
                 /\ \/ IsLast({j \in K : Month(journal[j].at) = m}, i)
                    \/ ~(Cardinality({j \in E : journal[j].at = journal[i].at}) <= 1)
    <3>1. {i \in K : Month(journal[i].at) = m} = RowsOfMonth(K, m)
      BY DEF RowsOfMonth
    <3>2. body'[q][m] = journal[kept[m]].after
      BY <1>7, <1>10
    <3>3. ~Alone(a, journal[kept[m]].at) =>
            ~(Cardinality({j \in E : journal[j].at = journal[kept[m]].at}) <= 1)
      BY <1>8, Zenon DEF Alone, Among
    <3> QED BY <1>9, <3>1, <3>2, <3>3
  <2>6. DOMAIN body'[q] = {Month(journal'[i].at) : i \in S}
    BY <1>5, <2>1, <2>3
  <2>7. ASSUME NEW m \in DOMAIN body'[q]
        PROVE  \E i \in {i \in S : Month(journal'[i].at) = m} :
                 /\ body'[q][m] = journal'[i].after
                 /\ \/ IsLast({j \in S : Month(journal'[j].at) = m}, i)
                    \/ ~(Cardinality({j \in R : journal'[j].at = journal'[i].at}) <= 1)
    BY <2>1, <2>3, <2>4, <2>5
  <2> QED BY <2>2, <2>4, <2>6, <2>7
<1>14. \E k \in Since(q)', t \in TimesSince(q)' : IsClosing(q, ToldOf(q, k, t))'
  <2>1. PICK k, t : k = Len(journal) /\ t = now
    OBVIOUS
  <2>2. k \in Since(q)' /\ t \in TimesSince(q)'
    BY <1>10, <2>1, NowIsAnInstant
  <2>3. IsClosing(q, ToldOf(q, k, t))'
    BY <1>10, <1>13, <2>1
  <2> QED BY <2>2, <2>3
<1> QED BY <1>10, <1>11, <1>14 DEF Truthful

\* The balance of an account as it is now.
LEMMA PresentBalance ==
  ASSUME AnswersInv, NEW a \in Account, accounts[a] # Nil, UNCHANGED journal
  PROVE  BalanceAfter(Len(journal), a)' = accounts[a].balance
<1>1. BalanceAfter(Len(journal), a) = accounts[a].balance
  BY BalanceNow DEF AnswersInv
<1> QED BY <1>1 DEF BalanceAfter, Among, OpeningBalance

LEMMA ListIsTrue ==
  ASSUME ReportsInv, AnswersInv, NEW q \in Reader, ListAccounts(q)
  PROVE  AnswersInv'
<1>1. PICK content : content = [a \in {a \in Account : accounts[a] # Nil
                                         /\ accounts[a].owner = query[q].actor.user} |->
                                  accounts[a]]
  OBVIOUS
<1>2. Reads(q, "accounts") /\ Answer(q, "ok", content)
  BY <1>1 DEF ListAccounts
<1>3. /\ status'[q] = "ok" /\ body'[q] = content
      /\ UNCHANGED <<accounts, journal, now, query, began>>
      /\ Truthful(q)' => AnswersInv'
  BY <1>2, AnswerEffect
<1>4. \A kind : Shown(q, kind)' => kind = "accounts"
  BY <1>2, <1>3 DEF Shown, Reads
<1>5. PICK k : k = Len(journal)
  OBVIOUS
<1>6. k \in Since(q)'
  BY <1>3, <1>5, NowIsAnInstant
<1>7. ASSUME NEW a \in DOMAIN body'[q]
      PROVE  body'[q][a].balance = BalanceAfter(k, a)'
  <2>1. a \in Account /\ accounts[a] # Nil /\ body'[q][a] = accounts[a]
    BY <1>1, <1>3, <1>7
  <2>2. BalanceAfter(Len(journal), a)' = accounts[a].balance
    BY <1>3, <2>1, PresentBalance
  <2>3. BalanceAfter(k, a)' = BalanceAfter(Len(journal), a)'
    BY <1>3, <1>5 DEF BalanceAfter, Among
  <2> QED BY <2>1, <2>2, <2>3
<1> QED BY <1>3, <1>4, <1>6, <1>7 DEF Truthful

LEMMA BalanceIsTrue ==
  ASSUME ReportsInv, AnswersInv, NEW q \in Reader, Reads(q, "balance"),
         Exists(query[q].account), Answer(q, "ok", accounts[query[q].account])
  PROVE  AnswersInv'
<1>1. PICK a : a = query[q].account
  OBVIOUS
<1>2. /\ status'[q] = "ok" /\ body'[q] = accounts[a]
      /\ UNCHANGED <<accounts, journal, now, query, began>>
      /\ Truthful(q)' => AnswersInv'
  BY <1>1, AnswerEffect
<1>3. \A kind : Shown(q, kind)' => kind = "balance"
  BY <1>2 DEF Shown, Reads
<1>4. PICK k : k = Len(journal)
  OBVIOUS
<1>5. k \in Since(q)'
  BY <1>2, <1>4, NowIsAnInstant
<1>6. BalanceAfter(Len(journal), a)' = accounts[a].balance
  BY <1>1, <1>2, PresentBalance DEF Exists
<1>7. BalanceAfter(k, query[q].account)' = BalanceAfter(Len(journal), a)'
  BY <1>1, <1>2, <1>4 DEF BalanceAfter, Among, OpeningBalance
<1> QED BY <1>2, <1>3, <1>5, <1>6, <1>7 DEF Truthful

LEMMA ReaderKeepsAnswers ==
  ASSUME ReportsInv, AnswersInv, NEW q \in Reader, Ask(q) \/ ReaderStep(q)
  PROVE  AnswersInv'
<1>1. CASE Ask(q)
  <2>1. status'[q] = "none" /\ UNCHANGED <<accounts, journal, now, status, body>>
    BY <1>1 DEF Ask, ReportsInv
  <2>2. Truthful(q)'
    BY <2>1, NothingShown
  <2>3. Len(journal) \in 0..Len(journal) /\ now \in 0..now
    BY BookTypes DEF AnswersInv
  <2>4. /\ DOMAIN began' = DOMAIN began
        /\ began'[q].rows = Len(journal) /\ began'[q].at = now
        /\ \A p \in Reader \ {q} : query'[p] = query[p] /\ began'[p] = began[p]
    BY <1>1 DEF Ask, ReportsInv, AnswersInv
  <2> QED BY <2>1, <2>2, <2>3, <2>4, OneReaderMoves
<1>2. CASE QueryFails(q)
  BY <1>2, NoAnswerIsTrue DEF QueryFails
<1>3. CASE GetAccount(q)
  <2>1. CASE \E code \in {"not_found", "forbidden"} : Answer(q, code, Nil)
    BY <2>1, NoAnswerIsTrue
  <2>2. CASE UNCHANGED <<accounts, journal, now, query, status, body, began>>
    <3>1. status[q] = "none"
      BY <1>3 DEF GetAccount, ReportsInv
    <3>2. Truthful(q)'
      BY <2>2, <3>1, NothingShown
    <3>3. began'[q].rows \in 0..Len(journal) /\ began'[q].at \in 0..now
      BY <2>2 DEF AnswersInv
    <3> QED BY <2>2, <3>2, <3>3, OneReaderMoves
  <2> QED BY <1>3, <2>1, <2>2 DEF GetAccount
<1>4. CASE GetAccountBalance(q)
  BY <1>4, NoAnswerIsTrue, BalanceIsTrue DEF GetAccountBalance
<1> QED BY <1>1, <1>2, <1>3, <1>4, HistoryIsTrue, MonthsAreTrue, ListIsTrue DEF ReaderStep

LEMMA NothingAskedIsTrue == ReportsInit => AnswersInv
<1> SUFFICES ASSUME ReportsInit PROVE AnswersInv
  OBVIOUS
<1>1. journal = <<>> /\ accounts = Opening /\ now = 0
  BY DEF ReportsInit, Init
<1>2. Book(journal, accounts)
  <2>1. \A a : RowsOf(journal, 0, a) = {}
    BY DEF RowsOf
  <2>2. Len(journal) = 0 /\ journal \in Seq(TransactionRow)
    BY <1>1
  <2>3. \A a \in Account : accounts[a] # Nil => Leaves(journal, 0, a, accounts[a].balance)
    BY <1>1, <2>1 DEF Leaves, OpeningBalance
  <2> QED BY <1>1, <2>2, <2>3 DEF Book
<1>3. DOMAIN began = Reader /\ \A q \in Reader :
        began[q].rows = 0 /\ began[q].at = 0 /\ status[q] = "none"
  BY DEF ReportsInit
<1> QED BY <1>1, <1>2, <1>3 DEF AnswersInv, Truthful, Shown

LEMMA AnswersStep ==
  ReportsInv /\ AnswersInv /\ [ReportsNext]_reportVars => AnswersInv'
<1> SUFFICES ASSUME ReportsInv, AnswersInv, [ReportsNext]_reportVars PROVE AnswersInv'
  OBVIOUS
<1>1. CASE UNCHANGED reportVars
  <2>1. Len(journal) \in Nat /\ JournalGrows
    BY <1>1, BookTypes DEF AnswersInv, JournalGrows, reportVars
  <2>2. \A q \in Reader : Truthful(q)'
    BY <1>1, <2>1, TruthStays DEF AnswersInv, reportVars, readerVars
  <2> QED BY <1>1, <2>2 DEF AnswersInv, reportVars, readerVars
<1>2. CASE ReportsNext
  BY <1>2, EnvironmentKeepsAnswers, ReaderKeepsAnswers DEF ReportsNext
<1> QED BY <1>1, <1>2

\* In every state the books agree, and every answer given was true at an instant since
\* its request.
THEOREM AnswersInvHolds == ReportsSpec => []AnswersInv
BY InitIsGood, StepKeeps, NothingAskedIsTrue, AnswersStep, PTL DEF ReportsSpec

\* A history reads as a statement, down to the opening balance if it is not full, although
\* it is ordered by the clock and not by commit.
THEOREM StatementsAreSound == ReportsSpec => []StatementsAddUp
<1>1. AnswersInv => StatementsAddUp
  BY DEF AnswersInv, Truthful, StatementsAddUp
<1> QED BY <1>1, AnswersInvHolds, PTL

\* Every answer is what one instant after its request would give, although no reader runs
\* in a transaction.
THEOREM AnswersAreConsistent == ReportsSpec => []AnswersAreOfOneInstant
<1>1. AnswersInv => AnswersAreOfOneInstant
  BY DEF AnswersInv, Truthful, AnswersAreOfOneInstant
<1> QED BY <1>1, AnswersInvHolds, PTL

\* The balance reported for a month is that of the last row committed in it, and no month
\* between two reported ones is left out that has a row.
THEOREM ReportsAreClosing == ReportsSpec => []MonthlyBalancesAreClosing
<1>1. AnswersInv => MonthlyBalancesAreClosing
  BY DEF AnswersInv, Truthful, MonthlyBalancesAreClosing
<1> QED BY <1>1, AnswersInvHolds, PTL
=============================================================================
