------------------------------- MODULE Reports -------------------------------
(***************************************************************************)
(* The read side of the transaction service: lists of accounts, histories, *)
(* monthly balances and the gRPC balance, answered while requests change   *)
(* the tables.  The writers are those of AtomicLedger, which the handlers  *)
(* of module Ledger implement.                                             *)
(*                                                                         *)
(* A reader opens no transaction.  Each of its queries sees the tables as  *)
(* they are at that moment: a history is read after, not while, the access *)
(* to its account is checked.                                              *)
(***************************************************************************)
EXTENDS AtomicLedger

CONSTANTS
  Reader,        \* requests that read
  NoId,          \* a text that is not an account id
  Asked,         \* the limits and the numbers of months clients ask for
  DefaultLimit, MaxLimit,    \* 50 and 200
  DefaultMonths, MaxMonths,  \* 12 and 24
  MonthLength    \* readings of the clock in a month

ASSUME ReaderAssumption ==
  /\ NoId \notin Account
  /\ Asked \subseteq Int
  /\ DefaultLimit \in 1..MaxLimit /\ DefaultMonths \in 1..MaxMonths
  /\ MaxLimit \in Nat /\ MaxMonths \in Nat /\ MonthLength \in Nat \ {0}

VARIABLES
  now,     \* the wall clock
  stage,   \* where each reader's goroutine is
  query,   \* what it was asked
  status,  \* what its client was told
  body,    \* and shown
  began    \* the rows committed and the time when it came (history, which no
           \* action reads)

readerVars == <<stage, query, status, body, began>>
reportVars == <<accounts, journal, now, readerVars>>

AccountsQuery == [kind : {"accounts"}, actor : Actor]
BalanceQuery == [kind : {"balance"}, account : Account \cup {NoId}]
RowsQuery == [kind : {"history", "months"}, actor : Actor,
              account : Account \cup {NoId}, asked : Asked]

ReportsInit ==
  /\ Init
  /\ now = 0
  /\ stage = [q \in Reader |-> "idle"]
  /\ query = [q \in Reader |-> Nil]
  /\ status = [q \in Reader |-> "none"]
  /\ body = [q \in Reader |-> Nil]
  /\ began = [q \in Reader |-> [rows |-> 0, at |-> 0]]
-----------------------------------------------------------------------------
\* What the queries compute.

\* Mutant of Clamp: more than the most gives the most.
CapAtMost(asked, most, default) ==
  IF asked < 1 THEN default ELSE IF asked > most THEN most ELSE asked

Clamp(asked, most, default) == IF asked \in 1..most THEN asked ELSE default

\* The rows of an account, as positions in the journal.
Entries(a) == {k \in 1..Len(journal) : journal[k].account = a}

\* Mutant of Newest: the order of the query is that of the page only.
Some(a, limit) ==
  {K \in SUBSET Entries(a) :
     Cardinality(K) = IF Cardinality(Entries(a)) < limit
                      THEN Cardinality(Entries(a)) ELSE limit}

\* LIMIT: so many of an account's rows, none of which is older than one left out.
\* Of rows with the same time any may be left out.
Newest(a, limit) ==
  {K \in SUBSET Entries(a) :
     /\ Cardinality(K) = IF Cardinality(Entries(a)) < limit
                         THEN Cardinality(Entries(a)) ELSE limit
     /\ \A k \in K : \A j \in Entries(a) \ K : journal[k].at >= journal[j].at}

\* Mutant of Sorted: no ORDER BY.
Unsorted(K) == {page \in [1..Cardinality(K) -> K] : \A i, j \in DOMAIN page :
                  i < j => page[i] # page[j]}

\* ORDER BY created_at DESC: rows with the same time come in any order.
Sorted(K) == {page \in [1..Cardinality(K) -> K] : \A i, j \in DOMAIN page :
                i < j => page[i] # page[j] /\ journal[page[i]].at >= journal[page[j]].at}

\* date_trunc('month', created_at)
Month(at) == at \div MonthLength

\* The rows of an account in the months up to the present one.
InWindow(a, months) == {k \in Entries(a) : Month(journal[k].at) > Month(now) - months}

\* The rows of K that DISTINCT ON may keep for month m.
LastOf(K, m) ==
  {k \in K : /\ Month(journal[k].at) = m
             /\ \A j \in K : Month(journal[j].at) = m => journal[j].at <= journal[k].at}
-----------------------------------------------------------------------------
\* handleUsecaseError, writeJSON, or the return of the RPC.
Answer(q, code, content) ==
  /\ stage' = [stage EXCEPT ![q] = "done"]
  /\ status' = [status EXCEPT ![q] = code]
  /\ body' = [body EXCEPT ![q] = content]
  /\ UNCHANGED <<accounts, journal, now, query, began>>

\* A request arrives; a limit that is no number is read as 0.
Ask(q) ==
  /\ stage[q] = "idle"
  /\ \E in \in AccountsQuery \cup BalanceQuery \cup RowsQuery :
       /\ query' = [query EXCEPT ![q] = in]
       /\ stage' = [stage EXCEPT ![q] = IF in.kind \in {"history", "months"}
                                        THEN "check" ELSE "read"]
  /\ began' = [began EXCEPT ![q] = [rows |-> Len(journal), at |-> now]]
  /\ UNCHANGED <<accounts, journal, now, status, body>>

Exists(a) == a \in Account /\ accounts[a] # Nil

\* Any query may fail, and one for a text that is no id does.
QueryFails(q) ==
  /\ stage[q] \in {"check", "read"}
  /\ Answer(q, "internal", Nil)

\* Mutant of GetAccount: the account is there, and whose it is is not asked.
GetAccountOfAnybody(q) ==
  /\ stage[q] = "check"
  /\ \/ /\ query[q].account # NoId /\ ~Exists(query[q].account)
        /\ Answer(q, "not_found", Nil)
     \/ /\ Exists(query[q].account)
        /\ stage' = [stage EXCEPT ![q] = "read"]
        /\ UNCHANGED <<accounts, journal, now, query, status, body, began>>

\* usecase GetAccount, and the access check its callers repeat.
GetAccount(q) ==
  /\ stage[q] = "check"
  /\ \/ /\ query[q].account # NoId /\ ~Exists(query[q].account)
        /\ Answer(q, "not_found", Nil)
     \/ /\ Exists(query[q].account)
        /\ ~CanAccess(query[q].actor, accounts[query[q].account])
        /\ Answer(q, "forbidden", Nil)
     \/ /\ Exists(query[q].account)
        /\ CanAccess(query[q].actor, accounts[query[q].account])
        /\ stage' = [stage EXCEPT ![q] = "read"]
        /\ UNCHANGED <<accounts, journal, now, query, status, body, began>>

Reads(q, kind) == stage[q] = "read" /\ query[q].kind = kind

ListTransactions(q) ==
  /\ Reads(q, "history")
  /\ \E K \in Newest(query[q].account, Clamp(query[q].asked, MaxLimit, DefaultLimit)) :
       \E page \in Sorted(K) :
         Answer(q, "ok", [i \in DOMAIN page |-> journal[page[i]]])

MonthlyBalances(q) ==
  /\ Reads(q, "months")
  /\ LET K == InWindow(query[q].account, Clamp(query[q].asked, MaxMonths, DefaultMonths))
         months == {Month(journal[k].at) : k \in K}
     IN  \E kept \in [months -> K] :
           /\ \A m \in months : kept[m] \in LastOf(K, m)
           /\ Answer(q, "ok", [m \in months |-> journal[kept[m]].after])

\* Mutant of ListAccounts: WHERE owner_user_id is forgotten.
ListEveryAccount(q) ==
  /\ Reads(q, "accounts")
  /\ Answer(q, "ok", [a \in {a \in Account : accounts[a] # Nil} |-> accounts[a]])

\* ListAccountsByOwner: also an administrator is shown its own accounts only.
ListAccounts(q) ==
  /\ Reads(q, "accounts")
  /\ LET mine == {a \in Account : accounts[a] # Nil
                                  /\ accounts[a].owner = query[q].actor.user}
     IN  Answer(q, "ok", [a \in mine |-> accounts[a]])

\* gRPC GetAccountBalance, for the other services: nobody's access is checked.
GetAccountBalance(q) ==
  /\ Reads(q, "balance")
  /\ \/ /\ query[q].account # NoId /\ ~Exists(query[q].account)
        /\ Answer(q, "not_found", Nil)
     \/ /\ Exists(query[q].account)
        /\ Answer(q, "ok", accounts[query[q].account])
-----------------------------------------------------------------------------
\* A request of AtomicLedger takes effect, with rows of the past or the present.
Write ==
  /\ Next
  /\ \A k \in 1..Len(journal') : journal'[k].at <= now
  /\ UNCHANGED <<now, readerVars>>

Tick ==
  /\ now < MaxClock
  /\ now' = now + 1
  /\ UNCHANGED <<accounts, journal, readerVars>>

ReaderStep(q) ==
  \/ GetAccount(q) \/ ListTransactions(q) \/ MonthlyBalances(q)
  \/ ListAccounts(q) \/ GetAccountBalance(q) \/ QueryFails(q)

ReportsNext ==
  \/ \E q \in Reader : Ask(q) \/ ReaderStep(q)
  \/ Write
  \/ Tick

ReportsSpec == ReportsInit /\ [][ReportsNext]_reportVars
=============================================================================
