-------------------------- MODULE ReportsProperties --------------------------
(***************************************************************************)
(* What the answers of the read side tell of a ledger that changes while   *)
(* they are made.                                                          *)
(***************************************************************************)
EXTENDS Reports

\* Reader q has shown its client the answer to a query of this kind.
Shown(q, kind) == status[q] = "ok" /\ query[q].kind = kind

Signed(row) == IF row.type \in {"deposit", "transfer_in"} THEN row.amount ELSE -row.amount

OpeningBalance(a) == IF Opening[a] = Nil THEN 0 ELSE Opening[a].balance

\* The rows of account a among the first k of a journal J, as positions in it.
RowsOf(J, k, a) == {i \in 1..k : J[i].account = a}
Among(k, a) == RowsOf(journal, k, a)

\* Row i is the last of K.
IsLast(K, i) == i \in K /\ \A j \in K : j <= i
LastIn(K) == CHOOSE i \in K : IsLast(K, i)

\* The balance of account a when k rows had been committed.
BalanceAfter(k, a) ==
  IF Among(k, a) = {} THEN OpeningBalance(a)
  ELSE journal[LastIn(Among(k, a))].after

\* No row of the account but one has this time.
Alone(a, at) == Cardinality({i \in Among(Len(journal), a) : journal[i].at = at}) <= 1

\* The instants, counted in committed rows, between a request and now, and by the clock.
Since(q) == began[q].rows..Len(journal)
TimesSince(q) == began[q].at..now

\* How many of something a client is to get that has asked for so many: none, or more
\* than the most allowed, is as good as not having asked.
Promised(asked, most, default) ==
  IF asked < 1 \/ asked > most THEN default ELSE asked

\* The most rows q is to be shown, and the months it is to be told of.
Limit(q) == Promised(query[q].asked, MaxLimit, DefaultLimit)
Months(q) == Promised(query[q].asked, MaxMonths, DefaultMonths)

\* Line i of the history shown to q follows from the line below it, or from the opening.
AddsUp(q, i) ==
  LET page == body[q]
      a == query[q].account
  IN  /\ i < Len(page) /\ Alone(a, page[i + 1].at) =>
           page[i].after = page[i + 1].after + Signed(page[i])
      /\ i = Len(page) /\ i < Limit(q) => page[i].after = OpeningBalance(a) + Signed(page[i])

\* The history shown to q is the newest of what there was after k rows, as much of it as
\* q is to be shown.
IsNewest(q, k) ==
  LET rows == {body[q][i] : i \in DOMAIN body[q]}
      there == {journal[i] : i \in Among(k, query[q].account)}
  IN  /\ rows \subseteq there /\ Len(body[q]) <= Limit(q)
      /\ \A row \in there \ rows :
           /\ Len(body[q]) = Limit(q)
           /\ \A newer \in rows : row.at <= newer.at

\* Those of K in month m.
RowsOfMonth(K, m) == {i \in K : Month(journal[i].at) = m}

\* Of the rows there were after k, those in the months q is to be told of at time t: the
\* present one and those before it.
ToldOf(q, k, t) ==
  {i \in Among(k, query[q].account) : Month(journal[i].at) > Month(t) - Months(q)}

\* The months shown to q are those with a row in K, each with the balance of its last.
IsClosing(q, K) ==
  /\ DOMAIN body[q] = {Month(journal[i].at) : i \in K}
  /\ \A m \in DOMAIN body[q] :
       \E i \in RowsOfMonth(K, m) :
         /\ body[q][m] = journal[i].after
         /\ IsLast(RowsOfMonth(K, m), i) \/ ~Alone(query[q].account, journal[i].at)
-----------------------------------------------------------------------------
\* A history reads as a statement: each row's balance is the one on the line below plus
\* or minus its amount, down to the balance the account was opened with if there are no
\* older rows than those shown.  The rows are ordered by created_at, which a request
\* sets while it holds the account's lock, and not by commit.
StatementsAddUp ==
  \A q \in Reader : Shown(q, "history") =>
    \A i \in DOMAIN body[q] : Alone(query[q].account, body[q][i].at) => AddsUp(q, i)

\* Although a reader runs in no transaction, what it shows was true at one instant after
\* it was asked: the balances of all the accounts listed, a transfer between two of them
\* counted on both sides or neither; the newest rows of a history, none left out between
\* them, as many as the client is to have, whatever number it asked for; nothing already
\* answered to another client is missing.
AnswersAreOfOneInstant ==
  \A q \in Reader :
    /\ Shown(q, "accounts") =>
         \E k \in Since(q) : \A a \in DOMAIN body[q] : body[q][a].balance = BalanceAfter(k, a)
    /\ Shown(q, "balance") =>
         \E k \in Since(q) : body[q].balance = BalanceAfter(k, query[q].account)
    /\ Shown(q, "history") => \E k \in Since(q) : IsNewest(q, k)

\* A report tells of all the months that had a row, of those the client is to be told of
\* at some time since it asked, however many it asked for, and of no other; the balance
\* of a month is the one the account had at its end, or has now: that of the last row
\* committed in it, although the report looks for the last created_at.
MonthlyBalancesAreClosing ==
  \A q \in Reader : Shown(q, "months") =>
    \E k \in Since(q), t \in TimesSince(q) : IsClosing(q, ToldOf(q, k, t))

\* Rows and balances are shown to the owner of the account as it is now, or to an
\* administrator, although access was checked by an earlier query; other services are
\* trusted.
ReadersAreAuthorized ==
  \A q \in Reader :
    /\ Shown(q, "history") \/ Shown(q, "months") =>
         /\ Exists(query[q].account)
         /\ CanAccess(query[q].actor, accounts[query[q].account])
    /\ Shown(q, "accounts") =>
         \A a \in DOMAIN body[q] :
           Exists(a) /\ accounts[a].owner = query[q].actor.user
-----------------------------------------------------------------------------
\* The inductive invariant behind ReadersAreAuthorized: between the two queries of a
\* reader the account it has checked stays the same user's.
ReportsInv ==
  /\ accounts \in [Account -> AccountRow \cup {Nil}]
  /\ query \in [Reader -> AccountsQuery \cup BalanceQuery \cup RowsQuery \cup {Nil}]
  /\ DOMAIN body = Reader
  /\ stage \in [Reader -> {"idle", "check", "read", "done"}]
  /\ status \in [Reader -> {"none", "ok", "not_found", "forbidden", "internal"}]
  /\ \A q \in Reader :
       /\ stage[q] # "done" => status[q] = "none"
       /\ stage[q] = "check" => query[q] \in RowsQuery
       /\ stage[q] = "read" /\ query[q].kind \in {"history", "months"} =>
            /\ query[q] \in RowsQuery
            /\ Exists(query[q].account)
            /\ CanAccess(query[q].actor, accounts[query[q].account])
  /\ ReadersAreAuthorized
-----------------------------------------------------------------------------
\* The inductive invariant behind the other three.

\* The first k rows of J leave account a the balance b.
Leaves(J, k, a, b) ==
  /\ \A i \in RowsOf(J, k, a) : IsLast(RowsOf(J, k, a), i) => b = J[i].after
  /\ RowsOf(J, k, a) = {} => b = OpeningBalance(a)

\* A journal J and accounts that agree: the rows of an account are in the order of their
\* times, each balance follows from the one before, and the last is the account's.
Book(J, acc) ==
  /\ J \in Seq(TransactionRow)
  /\ \A i \in 1..Len(J) : acc[J[i].account] # Nil
  /\ \A a \in Account : Opening[a] # Nil => acc[a] # Nil
  /\ \A i, j \in 1..Len(J) : i < j /\ J[i].account = J[j].account => J[i].at <= J[j].at
  /\ \A j \in 1..Len(J) : Leaves(J, j - 1, J[j].account, J[j].after - Signed(J[j]))
  /\ \A a \in Account : acc[a] # Nil => Leaves(J, Len(J), a, acc[a].balance)

\* What the three say of one reader.
Truthful(q) ==
  /\ Shown(q, "history") =>
       /\ \A i \in DOMAIN body[q] : Alone(query[q].account, body[q][i].at) => AddsUp(q, i)
       /\ \E k \in Since(q) : IsNewest(q, k)
  /\ Shown(q, "accounts") =>
       \E k \in Since(q) : \A a \in DOMAIN body[q] : body[q][a].balance = BalanceAfter(k, a)
  /\ Shown(q, "balance") =>
       \E k \in Since(q) : body[q].balance = BalanceAfter(k, query[q].account)
  /\ Shown(q, "months") =>
       \E k \in Since(q), t \in TimesSince(q) : IsClosing(q, ToldOf(q, k, t))

AnswersInv ==
  /\ now \in Nat
  /\ Book(journal, accounts)
  /\ DOMAIN began = Reader
  /\ \A q \in Reader :
       began[q].rows \in 0..Len(journal) /\ began[q].at \in 0..now /\ Truthful(q)
=============================================================================
