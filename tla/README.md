# A formal model of fintech_api

The repository is a small banking backend: an **auth service** (Go, MySQL) that
registers users and issues tokens, a **transaction service** (Go, PostgreSQL)
that keeps accounts and a journal of money movements, a **dashboard** (Next.js)
and a static Streamlit page.  This directory holds a TLA+ model of it: modules
that follow the source statement by statement, TLC configurations that check
them on small instances, and theorems that TLAPS proves for every instance.

The money operations and what is read of them, the event stream, the auth service, the path of
a token between the two services, the life of a service process and the dashboard's page are
modelled and checked, the first two also together, as one service. Every safety property that
a run checks is also proved, for every value of the constants; liveness is checked.
`PROJECT.json` lists, for every definition, the source lines it stands for.

## 1. The system

| Component | State it keeps | Operations | Talks to |
|---|---|---|---|
| Ledger operations (`transaction/internal/usecase`) | none of its own; local copies of locked rows | CreateAccount, Deposit, Withdraw, Transfer; reads: GetAccount, ListAccounts, ListTransactions, MonthlyBalances | repository (calls), broker (publish after commit) |
| Ledger repository and schema (`transaction/internal/repository/postgres`, `migrations/postgres`) | tables `accounts`, `transactions`; connection pool; row locks | WithinTx (SERIALIZABLE), LockAccount (`FOR UPDATE`), UpdateAccountBalance, CreateTransaction, the reads | PostgreSQL |
| Event broker and `GET /events` (`transaction/internal/events`, `delivery/http`) | map of subscribers, a 16-event channel for each, an RWMutex | Publish, Subscribe, the goroutine that unsubscribes, the stream's loop | usecases call Publish; the browser's connection cancels the context |
| Transaction HTTP delivery | none | decoding, statuses, panic recovery | usecases, auth client |
| Ledger gRPC server | none | GetAccountBalance | usecase |
| Auth client and middleware (`delivery/grpc/auth_client.go`, `middleware.go`) | none | ValidateToken within five seconds; 401 on every failure | auth service over gRPC |
| Auth usecase, security, user repository (`services/auth`) | table `users` (unique email hash) | Register, Login, ValidateToken, GetProfile | MySQL |
| Service lifecycle (`cmd/api/main.go` of both) | listening servers, open connections | start, signal, Shutdown within ten seconds, GracefulStop | all of the above |
| Dashboard (`frontend/dashboard/app/page.tsx`) | React state: session, accounts, selection, history, report, events | sign-in, sign-out, loads, submit, event stream | both services by HTTP |

What is hard in it, and what makes each part correct:

* **Ledger operations.**  One goroutine per request, no lock in the process:
  everything rests on the database.  A balance is read, checked and computed in
  Go and written back later.  A transfer is two updates and two inserts, and may
  fail, be cancelled or die between any two; requests may deadlock; a
  transaction's COMMIT may succeed without the service hearing of it; deposits
  wrap at 2^63.  *Correct* means: the journal explains the balances; transfers
  are all or nothing and conserve money; checks are made on rows that do not
  change before the commit; locks and connections are given back; answers and
  events tell the truth; every request is answered.
* **Event stream.**  Publishers hold a read lock while they send to channels
  that other goroutines close.  *Correct* means: no send on a closed channel, no
  publisher waiting for a reader, no event lost except to a full buffer, and no
  subscription left behind.
* **Auth.**  Register looks up, hashes slowly, inserts: two registrations race.
  A token's role is fixed when it is issued.  *Correct* means: one user for an
  address, tokens only for those who know the password, and an expiry respected.
* **Auth client.**  A timeout may race a late answer.  *Correct* means: no
  request runs as an actor the auth service has not confirmed for its token.
* **Dashboard.**  Overlapping fetches, applied in the order they arrive; effects
  that trigger themselves.  *Correct* means: what is shown belongs to the session
  and account selected, and it settles.
* **Lifecycle.**  An open event stream never becomes idle.  *Correct* means:
  shutdown ends, and no committed operation is left half done.

`PROJECT.json` lists the hazards one by one, each at its line.

## 2. Modules

| Module | What it is |
|---|---|
| `LedgerData` | constants, the rows of the two tables, `CanAccess` |
| `Postgres` | the database: tables, snapshots, row locks, pool, COMMIT and ROLLBACK, one operator per statement |
| `Ledger` | the request handlers composed from those statements, faults, deadlock detection, crash |
| `LedgerProperties` | what must hold |
| `AtomicLedger` | the abstract ledger, in which an operation is one step |
| `LedgerInvariant` | the inductive invariant `Inv`; on top of it `HistoryInv` and `JournalInv` for the journal, `OrderInv` for the order of locks |
| `LedgerProofs` | the proof of `Inv`, and what follows from it; freedom from deadlock |
| `RefinementProofs` | the proofs of `HistoryInv` and `JournalInv`; that `Ledger` implements `AtomicLedger`; what the client and the events tell; what follows from the refinement about the rows and the money |
| `MCLedger` | instances of the ledger for TLC |
| `Broker` | RWMutex, subscriptions, channels, publishers and streams |
| `BrokerProperties` | what must hold, and the inductive invariants `BrokerInv` and `StreamsInv` |
| `BrokerProofs` | their proofs, and what follows from them |
| `MCBroker` | instances of the event stream for TLC |
| `TransactionService` | `Ledger` composed with `Broker`: one process, whose requests publish to its streams |
| `ServiceProperties` | what must hold of both together, and the inductive invariant `ServiceInv` |
| `ServiceProofs` | its proof; that the service implements `Ledger`; what follows for readers of streams |
| `MCService` | an instance of the service for TLC |
| `Auth` | the auth service: its HTTP requests, the users table, the tokens it has signed |
| `AuthProperties` | what must hold, and the inductive invariant `AuthInv` |
| `AuthProofs` | its proof, and what follows from it; on top of it the proof of `GatewayInv` |
| `MCAuth` | instances of the auth service for TLC |
| `AuthGateway` | `Auth` composed with the middleware and the gRPC call of the transaction service |
| `GatewayProperties` | what must hold, and the inductive invariant `GatewayInv` |
| `MCGateway` | instances of the composition for TLC |
| `Reports` | the queries of the transaction service, beside the writers of `AtomicLedger` |
| `ReportsProperties` | what the answers must tell, and the inductive invariants `ReportsInv` and `AnswersInv` |
| `ReportsProofs` | their proofs, and of what they imply |
| `MCReports` | instances of the read side for TLC |
| `Lifecycle` | `main` of either service: start, signals, shutdown, with the requests in flight |
| `LifecycleProperties` | what must hold, and the inductive invariant `LifecycleInv` |
| `LifecycleProofs` | its proof, and what follows from it |
| `MCLifecycle` | instances of the process for TLC |
| `Dashboard` | the page of the dashboard, in front of the two services |
| `DashboardProperties` | what must hold, and the inductive invariant `DashInv` |
| `DashboardProofs` | its proof, and what follows from it |
| `MCDashboard` | instances of the dashboard for TLC |

Some definitions are marked *Mutant*: the form another definition would have if
the code had a particular bug.  Nothing in the specifications uses them; putting
one in the place of the original must make a property fail, and does, for every
property of every run (`PROJECT.json`, "mutants").

### 2.1 The ledger and its database

`pc[r]` is where the goroutine of request `r` is, `op[r]` its decoded input,
`copies[r]` the rows it holds in Go variables, `queue[r]` the ids it has still to
lock, `step[r]` the leg (row) it is at, `stamp[r]` the clock readings that become
`created_at`.  The database keeps the committed tables `accounts` and `journal`,
and for each open transaction `lock`, `writes`, `inserts` and `stale`.

| Action | Code |
|---|---|
| `Receive` | decode, `validateMoneyInput`, `validateTransferInput`: 400, or on to BEGIN |
| `CreateAccount` | currency normalised, one INSERT outside a transaction |
| `Begin` | `db.BeginTx(SERIALIZABLE)`, up to the first statement's snapshot; waits for a connection |
| `LockAccount` | one `SELECT ... FOR UPDATE`: 404, serialization error, wait, or copy of the row |
| `Deposit`, `Withdraw`, `Transfer` | the Go code between the locks and the first UPDATE: look-ups, access, currency, funds, new balances |
| `UpdateAccountBalance` | one UPDATE under `CHECK (balance_cents >= 0)`; after the last, the two `newTransaction` calls, each reading the clock |
| `CreateTransaction` | one INSERT into the journal |
| `Commit`, `CommitUnacknowledged` | COMMIT, of which the service hears or does not |
| `Publish` | one event handed to the broker; after the last, 200 |
| `StatementFails` | any statement fails: lost connection, cancelled context, serialization failure |
| `BreakDeadlock` | PostgreSQL fails one request of a cycle, or one that waits for a cycle |
| `Crash` | the process dies: goroutines vanish, the database rolls back |
| `Tick` | time passes |

PostgreSQL is not in the repository.  What the model assumes of it: a transaction
reads one snapshot; a row lock is held to the end; locking a row that was changed
since the snapshot fails; a transaction's writes appear together or never;
deadlocks are detected.  Any further serialization failure is allowed by
`StatementFails`.

A client names an account by text, and PostgreSQL reads several texts (upper or
lower case, with or without hyphens) as one UUID, but writes one text back.  Texts
are numbers here, ordered as `sort.Strings` orders them, and `Denotes` says which
account each means.  This matters three times in `Transfer`: the self-transfer
check compares texts, the lock order sorts texts, and the map of locked rows is
keyed by what the database writes back but looked up by what the client wrote.
A miss gives a nil pointer, whose use panics; `recoverMiddleware` answers 500 and
the deferred Rollback runs.  So a client that does not write canonical ids cannot
transfer, but no money moves wrongly.

Abstracted: descriptions are lengths; `updated_at` and `published_at` are left
out; row ids are (request, leg) pairs; a fresh UUID is one no row and no request
names.  The clock never goes back, which the code assumes without checking (Go's
`time.Now().UTC()` may, when the system clock is set).

### 2.2 The event stream

`writer`, `readers` and `blocked` are Go's RWMutex: a writer that has announced
itself keeps new readers out, and on Unlock the waiting readers go in before the
next writer.  `publisher`, `todo`, `seen` and `target` are the goroutines in
`Broker.Publish`; `handler`, `closer`, `cancelled` and `sent` are the two
goroutines of each stream, its request's context and what its client has been
sent.  `finished`, `before` and `missed` are history and read by no action.

| Action | Code |
|---|---|
| `Operation` | a usecase reaches `publish` with one or two committed rows |
| `RLock`, `Range`, `Send`, `RUnlock` | `Publish`: the lock, the loop over the map, the `select` with its `default`, the deferred unlock |
| `Open`, `Lock`, `Subscribe` | `GET /events`: `mu.Lock`, registration, start of the goroutine |
| `Disconnect` | the request's context is done |
| `Lock`, `Delete`, `Close` | that goroutine: lock, `delete`, `close`, unlock |
| `Receive`, `Return` | the handler's loop, with the filter by owner |

The two modules meet in `TransactionService`.  Its variables are theirs, and a publisher of
the broker is the goroutine of a request: `publisher[r]` and `todo[r]` say where `r` is in
`publish` while its `pc` is `"publish"`.

| Action | Code |
|---|---|
| `Works`, `Other` | a step of a handler outside the broker, which leaves the broker alone |
| `Commits` | WithinTx returns nil, and `publish` goes on with the rows of the operation: `todo` becomes one event for each leg, with the owner from `result.Accounts` |
| `Delivers` | `RLock`, `Range` or `Send` of one `Broker.Publish`; nothing of the ledger moves |
| `Returns` | that call returns: on to the next event, or to the answer |
| `Manages`, `Ends`, `Streams` | the goroutines and the client of a stream |
| `Dies` | the process dies: what `Crash` does, and the map of subscribers, the mutex and all channels are gone; what clients were sent, they have |

A request whose COMMIT is not acknowledged, or fails, never reaches the broker.

### 2.3 The auth service

`pc[r]` is where the goroutine of request `r` is, `input[r]` its body or token, `found[r]`
the row it has read or is about to insert, `shown[r]` the user in its answer, `reply[r]`
its status.  `users` is the table and `tokens` what the service has signed.  The service
keeps no state between requests, so a crash takes only what is in flight.  `earlier` is
history: the registrations already answered 201 when a request came.

| Action | Code |
|---|---|
| `Receive` | `decodeJSON`, `validateRegister`, `ParseRole`, Login's checks; the middleware's missing token |
| `LookUp` | `GetByEmailHash` in Register and Login |
| `HashPassword` | bcrypt and the new row, with nothing locked meanwhile |
| `Create` | one INSERT under the UNIQUE key: it works, works unheard of, or is refused |
| `Check`, `IssueToken` | bcrypt's comparison; `Generate` and the answer |
| `Authenticate`, `Confirm` | `ValidateToken` in the middleware: signature and expiry, then the row; `requireRoles` |
| `GetProfile` | `me` and `adminGetUser` |
| `QueryFails` | any of the statements fails: 500, but 401 in the middleware |
| `Crash`, `Tick` | the process dies; time passes |

Abstracted, by what the code makes of them: an email is a text and `Normalized` its
lower case without spaces, which the HMAC tells apart; a stored password hash is its
`Digest`, since bcrypt compares only the first 72 bytes; the id a registration draws is
its own request, which is how fresh ids are; a name is its length; a row stands for
what its encrypted columns decrypt to.  `Forged` is any text the service has not
signed.  `OldTokens` are tokens of a user who is in the table no more: nothing in the
code removes users, but the code guards against it, and an operator may.

### 2.4 A token between the services

`caller`, `header`, `query` and `actor` belong to a request of the transaction service;
`server` and `answer` to its call.  The two goroutines part when the call's deadline
passes: the auth service may go on and answer nobody.  `arrived`, `judged` and
`disturbed` are history.

| Action | Code |
|---|---|
| `Arrive` | `bearerToken` (the query parameter counts only without a header); 401, or `ValidateToken` |
| `ServerValidates`, `ServerConfirms`, `ServerQueryFails` | `AuthServer.ValidateToken`: the token, the row, the answer |
| `Answered`, `CallFails` | `Invoke` returns an answer, or an error: deadline, connection, client gone |
| `Serve` | the handler, which is that of `Ledger` or `Broker` |
| `Lose`, `AuthCrashes` | a message is lost; the auth service dies |

### 2.5 The read side

A reader opens no transaction: each of its queries sees the tables as they are then.  A
history is read by one query after another has checked the access, and a transfer may
commit between them.  What a reader can see of a writer is its commit, so the writers here
are the steps of `AtomicLedger`, which `Ledger` implements.  `stage`, `query`, `status` and
`body` belong to a request that reads; `began`, how many rows were committed when it came
and at what time, is history.

| Action | Code |
|---|---|
| `Ask` | `listAccounts`, `listTransactions`, `monthlyBalances`, or the gRPC call |
| `GetAccount` | the usecase's look-up and `canAccess`, which ListTransactions and MonthlyBalances begin with |
| `ListTransactions` | `WHERE account_id ORDER BY created_at DESC LIMIT` |
| `MonthlyBalances` | `DISTINCT ON (date_trunc('month', created_at))` in a window of months |
| `ListAccounts` | `WHERE owner_user_id` |
| `GetAccountBalance` | the gRPC server's one operation, which checks no access |
| `QueryFails` | a query fails: 500 |
| `Write` | a request of `AtomicLedger` takes effect |
| `Tick` | time passes |

`Clamp` is what becomes of a `limit` or number of `months`; `Newest` and `Sorted` what
LIMIT and ORDER BY may return, which is any choice where rows have the same time;
`InWindow` and `LastOf` are the monthly report's WHERE and DISTINCT ON.  A month is
`MonthLength` clock readings.  The application's `time.Now()`, which dates the rows, and the
database's `NOW()`, which ends the window of months, are one clock here; two that disagree
would move the window, not what is reported inside it.  Left out: the time zone of
`date_trunc`, the order of the list of accounts, timestamps of accounts.

### 2.6 A service process

Both `main` functions have one shape, and `main` is where it is.  `database` is the pool,
`listener` and `failed` belong to the two servers, `conn` is each HTTP connection and
`rpc` each gRPC call: at work, idle, answered, or `cut` by the end of the process.  An
event stream is a request that ends only with its client.  A client that leaves does not end
its handler: the connection is `"left"`, and Shutdown waits for it, until the handler returns.
A gRPC call may still arrive while GracefulStop drains, on a connection that has not
acknowledged GOAWAY; each of the finitely many calls arrives once, so the drain ends.  `late`
remembers that the ten seconds of Shutdown passed, `ending` why the process ended.

| Action | Code |
|---|---|
| `Start`, `Notify` | database, ping, clients, `net.Listen`, the servers' goroutines, `signal.Notify`; every failure is `log.Fatal` |
| `HttpListens`, `ServerFails` | `ListenAndServe` and `Serve` on their goroutines, with errors to `errCh` |
| `Signal`, `Select` | a signal comes; `main` chooses between it and `errCh` |
| `ShutdownReturns` | `Server.Shutdown`: idle connections closed, handlers at work waited for, ten seconds at most |
| `GracefulStop`, `Return` | the gRPC server, the deferred `Close`, the end |
| `Killed` | SIGKILL or a crash |
| `Connect`, `Request`, `HandlerReturns`, `ClientLeaves`, `CallArrives`, `CallReturns` | clients and handlers |
| `HandlerFails` | a handler that outlived Shutdown finds the database closed |

Left out: the servers' read and idle timeouts, the close of the auth client.

### 2.7 The dashboard

A call of one of the page's async functions is a *task*.  It keeps the token, the selection
and the account of the render it was called from (`as`, `chosen`, `account`), waits for an
answer, and goes on with it whatever the page has become.  `session`, `accounts`,
`selectedID`, `history` and `loading` are the state hooks; `refreshTimer` and `loadTimer`
the zero timeouts of the effects, which a render with new dependencies clears; `event`
says that the stream brings one.

| Action | Code |
|---|---|
| `Serve` | the services answer a request, in the state they are in |
| `SignedIn`, `AccountsArrive`, `HistoryArrives`, `AccountCreated`, `Submitted`, `GiveUp` | what follows an `await` in `submitAuth`, `loadAccounts`, `loadAccountData`, `createAccount`, `submitTransaction`, `refresh` |
| `RefreshFires`, `LoadFires`, `EventArrives` | the two timeouts and the stream's handler |
| `SignIn`, `NewAccount`, `Submit`, `Refresh`, `Select`, `SignOut`, `Reload` | the user |
| `OthersTransact`, `AnswerLost` | other clients; the network, or an expired token |

`SetAccounts` and `SetSelected` are a state change with the render and the effects that
follow it.  A list that is `Null`, which is how Go encodes a nil slice, makes rendering
throw.  Abstracted: an account is its id and its number of transactions, which stands for
balance and history; the two answers that `Promise.all` waits for are one.  Left out: the
list of events, the live flag, the fields of the forms, the wording of errors.

## 3. What is checked

Two workers are enough for every run to end within five minutes.  `Inv`,
`AuthInv`, `GatewayInv` and `ReportsInv` contain the type invariants; so do `BrokerInv`,
`LifecycleInv` and `DashInv`, which are proved and in no run.

| Run | Bounds | Properties |
|---|---|---|
| `ledger_edges` | 2 requests; an account with 1 cent, an empty one of another owner with two spellings, and one to be created; amounts 0, 1 and MaxInt = 2; a customer and an administrator; 2 clock readings | `RowsAreAuthorized`, `RepliesAreTruthful`, `EventsAreTruthful`, `HistoryIsInCommitOrder`, `MoneyIsConserved`, `ImplementsAtomicLedger` |
| `ledger_contention` | 3 requests of an administrator, 3 accounts, 2 connections, amount 1 | `RunningBalance`, `TransfersArePaired`, `DecisionsAreFresh`, `NothingLeaks`, `NoDeadlock`, `Inv` |
| `service` | 2 requests of a customer, 2 empty accounts of two owners, one with two spellings; amount 1 = MaxInt; 2 clock readings; a customer's stream of capacity 1 | `StreamsShowCommittedRows`, `AnsweredIsDelivered`, `EveryRequestAnswered` |
| `mixed_spellings` | 2 requests of an administrator, 2 accounts of 1 cent, one with two spellings | `DeterministicLockOrder`, violated |
| `broker_safety` | 2 publishers of one or two events, a customer's and an administrator's stream, capacity 1 | `NobodyPanics`, `SentInOrder`, `StreamIsComplete` |
| `broker_liveness` | 2 publishers, 2 streams, capacity 1 | `PublishReturns`, `StreamsAreReleased` |
| `auth_requests` | 3 requests, 3 passwords, 3 roles, one address | `AnswersAreAuthorized`, `TokensAreHonest`, `OneUserForAnEmail`, `RegistrationIsTruthful`, `RegisteredCanLogIn`, `AuthInv` |
| `gateway` | 1 request of the transaction service, 2 of the auth service, 2 clock readings, TTL 1 | `GatewayInv`, `ActorsAreConfirmed`, `RefusalsHaveReasons`, `EveryCallEnds` |
| `reports` | 1 reader, 2 writing requests, 2 accounts, one of them to be opened; 3 clock readings, 2 of them a month; 0, 2 and 3 rows or months asked for, 1 by default, 2 at most | `StatementsAddUp`, `AnswersAreOfOneInstant`, `MonthlyBalancesAreClosing`, `ReadersAreAuthorized`, `ReportsInv` |
| `lifecycle` | 3 connections, 2 calls | `NobodyIsCutOff`, `DatabaseOutlivesHandlers`, `ShutdownEnds` |
| `dashboard` | 2 users, 3 accounts and one to be opened; 2 tasks in flight; 2 acts of the user, of others or of the network; 2 transactions on an account | `OneSubmission`, `ComesToShowTheLedger` |
| `dashboard_empty` | a user without accounts | `EmptyListsAreShown`, violated |

*Why the bounds are enough to be interesting.* Two requests on two rows show every race between
a read and a write; three are needed for one to be overtaken while it waits. With MaxInt = 2 a
deposit of the largest amount overflows BIGINT. Fewer connections than requests make the pool
matter; a cycle of three transfers would need three connections, and is excluded for any number
of them by proof (`LockOrderIsSafe`). Two clock readings are needed for times to differ. In
`ledger_contention` ids are written canonically and there is one currency: other spellings and
currencies are in `ledger_edges`, whose refinement leaves no room for a row or a balance more,
and in the proofs. In `service` each request has a connection, since what a pool too small for
the requests does is in `ledger_contention`. A buffer of one event overflows as one of sixteen
does, only sooner; the proofs do not depend on any bound. For the auth service two
registrations race for an email, and the third request is the log-in that must find the winner.
A call of the transaction service reads the auth service's state and changes none of it, so
calls do not meet each other and one is enough; with TTL 1 its token can expire before the
call, between the two looks the auth service takes, and after the answer. A reader changes
nothing either, so one is enough; what it asks for is out of range on both sides, less than
there is, and the most there may be; three readings of the clock lie in two months. Three
connections can be idle, at work and streaming at once. Two tasks of the page overtake each
other, and two acts are enough for a selection or a sign-out between an answer's request and
its arrival. Requests and publishers are interchangeable, hence the symmetry sets, which are
used only in runs without liveness.

*Properties worth a word.*

* `RunningBalance` reads the journal as the history of the balances: every row's
  `balance_after_cents` is the previous one of its account plus or minus its
  amount, and the account holds the last.  A lost update breaks it.
* `DecisionsAreFresh` relates each handler's local copies to the committed rows it
  is about to overwrite, at every program counter.
* `RepliesAreTruthful` asks of a 200 all the rows of the operation, both of a transfer, and
  of an error of the client's own none.  It promises nothing for a 500: the acknowledgement
  of COMMIT may have been lost.  There is no idempotency key, so a client that retries may move
  the money twice; the code promises nothing else.
* `EventsAreTruthful` is the safe direction only: an event has its row.  A crash or
  lost acknowledgement after COMMIT leaves rows without events.
* `ImplementsAtomicLedger` is refinement: projected on the two tables, the handlers
  behave as a ledger in which each operation is atomic, authorised and in range.
* `StreamsShowCommittedRows` and `AnsweredIsDelivered` join the two halves, across the
  crash: what a stream shows was committed and is its reader's, whatever happened to the
  request afterwards; and a 200 comes after the events have been offered to every stream
  that could have them.  A mutant that publishes in the background breaks the second.
* `EveryCallEnds` says that the middleware lets a request go by the deadline of its call, to
  a handler or with a 401.  It says nothing of the handler's end: behind the same middleware
  an event stream goes on until its client leaves.
* `EveryRequestAnswered` counts a request as over when its process dies: nobody is left to
  answer it.  It is checked of the service, so it also says that a reader who never
  reads, or leaves while an event is on its way, keeps no request waiting.
* `StreamIsComplete` is about everything a stream receives from its subscription on;
  its mutant, a `return` in place of `default`, loses events only of readers that
  come later in the map's order.
* `RegistrationIsTruthful` is what a client may conclude from each status, 500 included:
  the loser of a race is answered 500 by the UNIQUE key, or 409 if it looked late enough.
* `RegisteredCanLogIn` is about statuses in the order clients saw them, not about rows.
  It says 401: a log-in may still fail with 500.
* `ActorsAreConfirmed` is the composition's point.  It does not say that the token is still
  valid when the handler runs, which the code does not promise: the five seconds of the
  call, and a stream of hours, may pass in between.
* `RefusalsHaveReasons` is the other direction: a client with a good token is refused only
  when something failed on the way, which the 401 does not tell it.

* `StatementsAddUp` and `MonthlyBalancesAreClosing` relate an order by `created_at`, which a
  handler sets before it commits, to the order of commits.  They hold because both fall
  while the account's lock is held; rows with the same time may come in either order, so
  they speak of rows that have a time of their own.
* `AnswersAreOfOneInstant` and `MonthlyBalancesAreClosing` say how many rows and which months
  an answer has from what the client asked for (`Promised`), not from the code's `Clamp`:
  a clamp that gives the most allowed to a client that asked for more breaks both, and an
  empty report breaks the second unless there was nothing to tell.
* `AnswersAreOfOneInstant` is why two queries without a transaction are harmless: accounts
  are never closed and never change hands, and each answer comes from one statement.
* `NobodyIsCutOff` and `DatabaseOutlivesHandlers` are about the order of Shutdown,
  GracefulStop and the deferred Close.  The exceptions they make are the code's: requests
  that outlive the ten seconds, event streams first of all.
* `OneSubmission` is about what the page submits.  A reload forgets a post in flight, which
  the services may still carry out, and the user may then post it again; nothing in the code
  prevents that, and the property does not count it.  The two acts of the run are too few to
  submit, sign out, sign in and submit again; `OneAtATime` covers any number.
* `ComesToShowTheLedger` excuses a page without a session: `signOut` stops no fetch, so a
  late answer may show the accounts of the user who has left, and the repository says nothing
  of it.  With a session it allows the page to show anything for a while, another account's
  history among it, and asks that it settle on what the ledger has.  It does because every
  list of accounts that arrives makes a new `selectedAccount`, whose effects load again.
  The same dependency makes `refresh` call itself for ever, which costs requests and is not
  called wrong by anything in the repository.

*Fairness.*  `ServiceFairSpec` has weak fairness of `Proceeds(r)` (the Go scheduler runs a
goroutine that can run, and a free row or connection is eventually granted), of `Breaks(r)`
(PostgreSQL's detector), and of the two goroutines of a stream as below. No fault, request,
reader or tick of the clock is owed. `FairSpec` of `Broker` has weak fairness of a publisher's
steps, of the lock steps of a stream and of a handler noticing that its context is done. It
has none of `Receive`: a client may read slowly or never, which is the case the `default` of
`Publish` is for; and none of `Disconnect`. `GatewayFairSpec` has weak fairness of
`CallFails`, the deadline that `context.WithTimeout` sets, and of nothing else: not of the auth
service, the network, or `Serve`, since the handler of an event stream returns only when its
client leaves.

`FairSpec` of `Lifecycle` has weak fairness of `MainStep`: `main` runs, and Shutdown's context
ends after ten seconds; and of `CallReturns`, since a call is one query.  Handlers of HTTP
requests and clients owe nothing.
`FairSpec` of `Dashboard` has weak fairness of `Serve` and `Resume` for each task: a request
is answered or fails (`AnswerLost`), and the browser runs what is due.  Of the two timeouts
it has strong fairness: in the browser a timeout that stays set fires, while here
the bound on tasks can disable it again and again.  The user and the stream owe nothing.

*Findings.*  `src/README.md:90` says transfers lock accounts in a deterministic order. The
order is that of the texts clients send. Run `mixed_spellings` shows two transfers between the
same two accounts, one of which writes an id in upper case, that lock them in opposite orders
and wait for each other. PostgreSQL resolves it (`EveryRequestAnswered` holds in run
`service`, whose texts are the same); with canonical ids it cannot happen (`NoDeadlock`).

The page tells a user without accounts to create one (`page.tsx:411`).  It is never read:
`ledger_repository.go` builds its lists from a nil slice, which `writeJSON` sends as `null`;
`loadAccounts` stores it, and the render that follows reads a property of null and throws.
Run `dashboard_empty` shows it for a user who has just registered.  The same happens to an
account without transactions.

## 4. What is proved

All proofs are checked to the last leaf, from the named ASSUMEs of `LedgerData`,
`Postgres`, `Ledger`, `Broker`, `TransactionService`, `Auth`, `AuthGateway`, `Reports` and
`Dashboard` (`Nil` is no
value of another kind, amounts are int64, an account is its own canonical spelling, there are
finitely many UUIDs, ...), which TLC evaluates on every instance.

| Theorem | Says |
|---|---|
| `InvHolds` | `Inv` is an invariant of `Ledger` |
| `TypeCorrect` | so is `TypeOK`; in particular no balance is negative although additions wrap |
| `FreshDecisions` | so is `DecisionsAreFresh` |
| `NothingIsLeaked` | so is `NothingLeaks` |
| `JournalExplainsBalances` | so is `RunningBalance` |
| `LockOrderIsSafe` | so is `NoDeadlock`, if clients write ids canonically |
| `LedgerIsAtomic` | `Ledger` implements `AtomicLedger` (`ImplementsAtomicLedger`) |
| `RepliesAreTrue`, `EventsAreTrue`, `TransfersAreWhole`, `HistoryIsOrdered`, `MovementsAreAuthorized` | `RepliesAreTruthful`, `EventsAreTruthful`, `TransfersArePaired`, `HistoryIsInCommitOrder` and `RowsAreAuthorized` are invariants of `Ledger` |
| `MoneyIsKept` | so is `MoneyIsConserved` |
| `BrokerInvHolds` | `BrokerInv` is an invariant of `Broker` |
| `PublishersAreSafe` | so is `NobodyPanics` |
| `EventsAreInOrder`, `StreamsMissNothing` | so are `SentInOrder` and `StreamIsComplete` |
| `ServiceIsLedger` | `TransactionService` implements `Ledger` |
| `ServiceInvHolds` | `LedgerInv` and `ServiceInv` are invariants of `TransactionService` |
| `StreamsTellTheTruth`, `AnswersFollowDelivery` | so are `StreamsShowCommittedRows` and `AnsweredIsDelivered` |
| `PublishersNeverPanic` | so is the broker's `NobodyPanics` |
| `AuthInvHolds` | `AuthInv` is an invariant of `Auth` |
| `EmailsAreUnique`, `RegistrationsAreTruthful`, `LogInsSucceed`, `TokensHold`, `OnlyTheAuthorizedSee` | so are the properties of `AuthProperties` |
| `GatewayInvHolds` | `GatewayInv` is an invariant of `AuthGateway` |
| `HandlersActForTheirCallers`, `RefusalsAreJustified` | so are `ActorsAreConfirmed` and `RefusalsHaveReasons` |
| `ReportsInvHolds`, `OnlyOwnersRead` | `ReportsInv` and `ReadersAreAuthorized` are invariants of `Reports` |
| `AnswersInvHolds`, `StatementsAreSound`, `AnswersAreConsistent`, `ReportsAreClosing` | so are `AnswersInv`, `StatementsAddUp`, `AnswersAreOfOneInstant` and `MonthlyBalancesAreClosing` |
| `LifecycleInvHolds`, `AcceptedIsAnswered`, `HandlersFindTheDatabase` | `LifecycleInv`, `NobodyIsCutOff` and `DatabaseOutlivesHandlers` are invariants of `Lifecycle` |
| `DashInvHolds`, `OneAtATime` | `DashInv` and `OneSubmission` are invariants of `Dashboard` |

**The ledger's argument.**  None of the properties is inductive as it stands: that a
copy is fresh at COMMIT depends on the lock having been held since it was read,
that an update may be written depends on the check made two steps before.  `Inv` says
of each request, from its `pc`: its input was accepted and `step` is one of its legs
(`AdmittedInv`); what it has locked and has still to lock (`LockingInv`); it is open in
the database exactly while inside WithinTx (`TransactionInv`); its copies are the
committed rows, before the checks, or those rows moved, after them (`FreshInv`); every
leg has a locked row of its own (`LegsInv`); its uncommitted writes and inserts are
those of the legs done so far (`WritesInv`, `InsertsInv`).

The proof has one lemma for each action.  The frame is `UntouchedKeepsInv`: a step that
leaves request `u`'s variables alone, *and the rows `u` has locked*, keeps `u`'s part of
the invariant.  That is what the row locks are for, and the only thing requests need to
know of each other.  `EndKeepsInv` covers every way of leaving WithinTx with a rollback:
errors, panics and the crash.

**The journal's argument.**  Only COMMIT and the creation of an account change the
tables.  `Inv` says that a commit writes the balances it computed from rows nobody has
changed since (`FreshInv`) and inserts exactly the rows that tell them (`InsertsInv`,
`WritesInv`), one for each account it touches (`LegsInv`).  `RefinementProofs` adds that
appending such rows extends each account's history by its last row, and leaves every other
account's as it was.  `HistoryInv` strengthens `RunningBalance` by what creating an account
needs: an account that does not exist has no rows, and those of the opening state stay.

**The argument against deadlock.**  `OrderInv` says that what a request has locked is below
all it has still to lock, which `sort.Strings` gives if the order of the texts is that of the
accounts: the theorem assumes that every id is written in its one canonical way and that ids
are bounded numbers. In a set of requests each of which waits for another of the set, take the
one that wants the highest account: whoever holds that account wants a higher one.
`mixed_spellings` shows that the first assumption is needed.

**The refinement's argument.**  `LedgerInv` is `Inv`, `HistoryInv` and `JournalInv` together.
Only a COMMIT, acknowledged or not, and the INSERT of an account change the abstract
variables; a commit maps to the step of `AtomicLedger` for its operation (`Move` or
`Transfer`), with the balances that `FreshInv` says are still the committed ones, the INSERT
to `Open`, and every other action is a stutter. What follows for rows (`RowsInv`) is then
proved of the steps of `AtomicLedger` alone: transfers come in pairs, rows are authorized,
times of an account do not go back.

**The money's argument.**  `MoneyIsConserved` compares two sums over sets of any finite size:
what the accounts in a currency hold, and what their rows have brought in and taken out.  The
community module's `SumFunction` is a recursive function on the subsets of its domain, which
`SumStep` unfolds once.  What is proved of it without an induction theorem
goes by a smallest counterexample (`SmallestSet`, on the cardinality): of two functions that
differ at one place the sums differ by as much (`SumOfOneChange`), and one more row adds its
amount (`SumOfLonger`).  Then each step of `AtomicLedger` is weighed.  `Open` adds an account
that holds nothing; `Move` changes one balance by the amount of the one row it appends, since
what it refuses is just what would wrap or go below zero; `Transfer` changes two balances of
one currency by opposite amounts, and its rows, which have a counterparty, count for nothing.
That an old row stays in its currency is because no step changes an account's.

**The broker's argument.**  `BrokerInv` ties the state of a stream's goroutines to its
membership of the map (`StreamInv`) and says that a publisher has a client in hand only
while it holds the read lock, and that this client is then subscribed
(`PublisherInv`).  A writer is in its critical section only with no reader inside, so no
publisher has a client in hand when one is removed or closed.
`StreamsInv` follows an event from its publisher to a stream.  A publisher's events are
numbered in order and not yet published (`PendingInv`); a stream has met none of those to come,
and the one being published only if the loop is past it, but then for certain if its actor may
see it (`LoopInv`); what it has been sent, what waits for it and what it missed are disjoint
from what went out before it subscribed, and in order (`DeliveryInv`).

**The service's argument.**  Every step of the service is a step of `Ledger` or leaves its
variables alone (`ServiceIsLedger`), so all that is proved of the ledger holds in it.  Towards
the broker this is not so: a commit is `Operation` with events of the ledger's choosing, and
`Dies` is a step `Broker` does not have, after which the map is empty and every open stream
is a closed one.  So the broker's two invariants are proved again, step by step, from the
lemmas of `BrokerProofs` and one for `Dies`.  `ServiceInv` adds three things.  `PublishingInv`
says of a request between COMMIT and answer that its rows are those of its legs, that
`todo` holds the events of the legs from `step` on, and that those before are published:
`Returns` moves both sides at once.  `ToldInv` says that every event to be published, in a
channel or sent tells of a row; it is kept because rows and owners are only ever added.
`AnsweredInv` is what is left of `PublishingInv` when the last leg is done.  With `DeliveryInv`
of the broker (a published event has been met, unless it was published before the stream
subscribed) this is `AnsweredIsDelivered`.

**The auth service's argument.**  `AuthInv` says what a request knows at each place
(`RequestInv`): what it has decoded, that the row it has read is in the table (rows are
never changed or removed, so once read it stays true), what its answer was.  A row
belongs to a registration that is past its INSERT (`RowInv`), so a registration about to
insert has no row yet and its id is free; that its email is free is what the UNIQUE key
asks.  `RegisteredCanLogIn` holds because a log-in's look-up comes after the row, and
because the row it finds is the only one with that email.  A step that does not touch
the table moves one request, and `QuietStepKeepsInv` is the frame for all such steps.

**The gateway's argument.**  The auth service's state only grows under a call
(`AuthOnlyGrows`): a token signed stays signed, a row stays, a user who is gone stays gone,
the clock does not go back.  So what the auth service has found (`Judged`, `CallInv`)
and every reason for a refusal (`ReasonsRemain`) outlive its later steps
(`QuietForCallers`); and a step of one call leaves the others alone (`OneCallMoves`).

**The read side's argument.**  Between the two queries of a reader the account it has checked
stays, and stays its owner's, since no step of `AtomicLedger` closes an account or changes
its owner (`ReportsInv`).
`AnswersInv` has two parts.  `Book` says that the journal and the accounts agree: the rows of
an account are in the order of their times, each balance follows from the one before it, or
from the opening, and the last is the account's (`AppendKeepsBook` for each row a writer
adds).  `Truthful` says what the three properties say, of one reader.  It becomes true with
the answer, from `Book`, at the instant of the query: the newest rows by time are the last
committed ones (`PageAddsUp`), and the last of a month is that committed last
(`ReportIsClosing`), whenever times do not coincide.  It stays true because rows are only
added (`TruthStays`): what was so when the first *k* rows were there is so for ever.

**The process's argument.**  `LifecycleInv` lists what is open and closed at each place of
`main`: after Shutdown no connection is idle, and one at work means that the ten seconds have
passed; after GracefulStop no call is at work; only then is the database closed.

**The page's argument.**  `OneSubmission` needs `DashInv`, since what a task does with its
answer depends on what the page holds by then.  `PageInv` says that the list can be read as
long as rendering has not thrown, `TasksInv` that a task waits for an answer that fits its
place and that only a call made with a token gets accounts.  `FormsInv` is the point: a form
starts only while the flag is down, so when there is none; only its own end lowers the flag,
and it was the only one; a refresh or a load, late or abandoned, is no form; and a reload
lowers the flag and turns the forms in flight into requests that the services still answer
and no code of the page waits for.  The bound on tasks in flight is any natural number.

**Only model-checked:** what is temporal beyond invariants and refinement
(`EveryRequestAnswered`, `PublishReturns`, `StreamsAreReleased`, `EveryCallEnds`,
`ShutdownEnds`, `ComesToShowTheLedger`), which TLAPS cannot do. `HistoryInv`, `JournalInv`,
`BrokerInv`, `StreamsInv`, `ServiceInv`, `AnswersInv`, `LifecycleInv` and `DashInv` are in no
cfg: they are inductive invariants, checked once and then proved, and what is to be said with
them is in a run.

## 5. Plan

Done, in this order: `Postgres`, `Ledger`, `Broker` with their proofs; `Auth`;
`AuthGateway`, composed with `Auth`; `Reports`; `Lifecycle`; `Dashboard`; the refinement
of `AtomicLedger`, freedom from deadlock, the streams' order, the truth of reports, the
conservation of money and the page's single submission, proved; `TransactionService`, the
ledger and the broker as one process, with its proofs.

Left: `Lifecycle` composed with `TransactionService`, so that the process that is told to
stop is the one whose requests hold transactions; `Auth` with the encryption of its columns.

## 6. Not modelled

Configuration (environment variables read once), logging, health and swagger pages, CORS
and security headers, JSON wording, cryptography (its uses are modelled by what they do;
`Encrypt` and `Decrypt` only by a row standing for what it decrypts to), the order of the
list of accounts, timestamps other than a row's `created_at`, the dashboard's list of events
and form fields, the static Streamlit page, protocol files, container images and the
pipeline.
