------------------------------- MODULE Ledger -------------------------------
(***************************************************************************)
(* The money operations of the transaction service: usecase CreateAccount, *)
(* Deposit, Withdraw and Transfer, running concurrently, one goroutine per *)
(* HTTP request, each inside LedgerRepository.WithinTx.                     *)
(*                                                                         *)
(* One action is one SQL statement, or the Go code between two statements. *)
(* A failing statement, a disconnected client, a lost commit               *)
(* acknowledgement and a crash of the service may happen between any two.  *)
(*                                                                         *)
(* A client names an account by text.  Postgres reads many spellings of    *)
(* one UUID (upper or lower case, with or without hyphens) and always      *)
(* writes the same one back.  Spellings are numbers here, ordered as       *)
(* sort.Strings orders the texts; an account is its canonical spelling.    *)
(***************************************************************************)
EXTENDS Postgres

CONSTANTS
  Spelling,     \* texts that denote an account id
  Denotes,      \* the account each spelling denotes
  Blank,        \* an empty account id
  Amount,       \* amounts clients send, any int64
  Length,       \* lengths of the descriptions clients send
  CurrencyText, \* currencies clients send
  CodeOf,       \* each of these texts, trimmed and in upper case
  MaxClock      \* bound on the readings of the clock

ASSUME SpellingAssumption ==
  /\ Spelling \subseteq Nat /\ Account \subseteq Spelling
  /\ Denotes \in [Spelling -> Account]
  /\ \A a \in Account : Denotes[a] = a
  /\ Blank \notin Spelling
ASSUME AmountAssumption == Amount \subseteq (-(MaxInt + 1))..MaxInt
ASSUME CurrencyAssumption == "IDR" \in Currency
ASSUME ClockAssumption == MaxClock \in Nat

VARIABLES
  pc,         \* where each request's goroutine is
  op,         \* its decoded input
  queue,      \* spellings it has still to lock
  copies,     \* its local copies of the rows it has locked (nil if none)
  step,       \* the leg it updates, inserts or publishes next
  stamp,      \* CreatedAt of each row it inserts
  reply,      \* what its client was told
  published,  \* events handed to the publisher
  clock       \* the wall clock

appVars == <<pc, op, queue, copies, step, stamp, reply, published, clock>>
vars == <<accounts, journal, active, lock, stale, writes, inserts,
          pc, op, queue, copies, step, stamp, reply, published, clock>>

NoCopies == [a \in Account |-> Nil]

MoneyInput == [kind : {"deposit", "withdrawal"}, actor : Actor,
               from : Spelling \cup {Blank}, to : {Nil},
               amount : Amount, length : Length]
TransferInput == [kind : {"transfer"}, actor : Actor,
                  from : Spelling \cup {Blank}, to : Spelling \cup {Blank},
                  amount : Amount, length : Length]

\* validateMoneyInput
ValidMoneyInput(in) == in.from # Blank /\ in.amount > 0 /\ in.length <= 280

\* Mutant of ValidTransferInput: an account may be transferred to itself.
SelfTransferIsValid(in) ==
  /\ in.from # Blank /\ in.to # Blank
  /\ in.amount > 0
  /\ in.length <= 280

\* validateTransferInput: the two ids are compared as texts.
ValidTransferInput(in) ==
  /\ in.from # Blank /\ in.to # Blank
  /\ in.from # in.to
  /\ in.amount > 0
  /\ in.length <= 280

ValidInput(in) ==
  IF in.kind = "transfer" THEN ValidTransferInput(in) ELSE ValidMoneyInput(in)

\* int64 addition of two values in 0..MaxInt.
Wrap(x) == IF x > MaxInt THEN x - 2 * (MaxInt + 1) ELSE x

\* The rows an operation updates and inserts, in the order it does.
Legs(in) ==
  CASE in.kind = "deposit" ->
         <<[account |-> Denotes[in.from], counterparty |-> Nil, type |-> "deposit"]>>
    [] in.kind = "withdrawal" ->
         <<[account |-> Denotes[in.from], counterparty |-> Nil, type |-> "withdrawal"]>>
    [] in.kind = "transfer" ->
         <<[account |-> Denotes[in.from], counterparty |-> Denotes[in.to],
            type |-> "transfer_out"],
           [account |-> Denotes[in.to], counterparty |-> Denotes[in.from],
            type |-> "transfer_in"]>>

Leg(r) == Legs(op[r])[step[r]]
FirstLeg(r) == step[r] = 1  \* mutant of LastLeg: a transfer stops half-way
LastLeg(r) == step[r] = Len(Legs(op[r]))

\* newTransaction, for leg i.
NewTransaction(r, i) ==
  LET leg == Legs(op[r])[i]
  IN  [id |-> <<r, i>>, account |-> leg.account,
       counterparty |-> leg.counterparty, type |-> leg.type,
       amount |-> op[r].amount, after |-> copies[r][leg.account].balance,
       by |-> op[r].actor.user, at |-> stamp[r][i]]

\* The event publish builds for that transaction.
NewEvent(r) ==
  LET account == copies[r][Leg(r).account]
  IN  [owner |-> account.owner, balance |-> account.balance,
       transaction |-> NewTransaction(r, step[r]), operation |-> op[r].kind]

Init ==
  /\ accounts = Opening
  /\ PostgresInit
  /\ pc = [r \in Request |-> "idle"]
  /\ op = [r \in Request |-> Nil]
  /\ queue = [r \in Request |-> {}]
  /\ copies = [r \in Request |-> NoCopies]
  /\ step = [r \in Request |-> 1]
  /\ stamp = [r \in Request |-> <<>>]
  /\ reply = [r \in Request |-> "none"]
  /\ published = {}
  /\ clock = 0
-----------------------------------------------------------------------------
\* The goroutines of the requests R return: their locals are gone, and their
\* clients are told status.
Return(R, status) ==
  /\ pc' = [r \in Request |-> IF r \in R THEN "done" ELSE pc[r]]
  /\ op' = [r \in Request |-> IF r \in R THEN Nil ELSE op[r]]
  /\ queue' = [r \in Request |-> IF r \in R THEN {} ELSE queue[r]]
  /\ copies' = [r \in Request |-> IF r \in R THEN NoCopies ELSE copies[r]]
  /\ step' = [r \in Request |-> IF r \in R THEN 1 ELSE step[r]]
  /\ stamp' = [r \in Request |-> IF r \in R THEN <<>> ELSE stamp[r]]
  /\ reply' = [r \in Request |-> IF r \in R THEN status ELSE reply[r]]

\* Mutant of Fail: WithinTx has no deferred Rollback.
FailWithoutRollback(r, status) ==
  /\ Return({r}, status)
  /\ UNCHANGED dbVars
  /\ UNCHANGED <<published, clock>>

\* An error return, or a panic, inside WithinTx: the deferred Rollback runs,
\* then handleUsecaseError (or recoverMiddleware) writes the status.
Fail(r, status) ==
  /\ RollbackTx({r})
  /\ Return({r}, status)
  /\ UNCHANGED <<published, clock>>

\* The texts an input names accounts by.
Named(in) == {in.from, in.to} \ {Nil}

\* moneyOperation and transfer: decode and validate the input.
Receive(r) ==
  /\ pc[r] = "idle"
  /\ \E in \in MoneyInput \cup TransferInput :
       \/ /\ ~ValidInput(in)
          /\ Fail(r, "bad_request")
       \/ /\ ValidInput(in)
          /\ op' = [op EXCEPT ![r] = in]
          /\ queue' = [queue EXCEPT ![r] = Named(in)]
          /\ pc' = [pc EXCEPT ![r] = "begin"]
          /\ UNCHANGED dbVars
          /\ UNCHANGED <<copies, step, stamp, reply, published, clock>>

\* A fresh UUID: no row has it and no request names it.
FreshId(a) ==
  /\ accounts[a] = Nil
  /\ \A r \in Request : op[r] # Nil => a \notin {Denotes[op[r].from]} \cup
                          (IF op[r].to = Nil THEN {} ELSE {Denotes[op[r].to]})

\* usecase CreateAccount: one INSERT, which may fail, or whose
\* acknowledgement may be lost.
CreateAccount(r) ==
  /\ pc[r] = "idle"
  /\ \E actor \in Actor, text \in CurrencyText :
       LET code == IF CodeOf[text] = "" THEN "IDR" ELSE CodeOf[text]
       IN  \/ /\ code \notin Currency
              /\ Return({r}, "bad_request")
              /\ UNCHANGED dbVars
           \/ /\ code \in Currency
              /\ Return({r}, "internal")
              /\ UNCHANGED dbVars
           \/ /\ code \in Currency
              /\ ConnectionFree
              /\ \E a \in Account :
                   /\ FreshId(a)
                   /\ InsertAccount(a, [owner |-> actor.user, currency |-> code,
                                        balance |-> 0])
              /\ \E status \in {"created", "internal"} : Return({r}, status)
  /\ UNCHANGED <<published, clock>>

\* BeginTx
Begin(r) ==
  /\ pc[r] = "begin"
  /\ BeginTx(r)
  /\ pc' = [pc EXCEPT ![r] = "lock"]
  /\ UNCHANGED <<op, queue, copies, step, stamp, reply, published, clock>>

\* Mutant of NextToLock: the source first, as the client wrote the two ids.
SourceFirst(r) ==
  IF op[r].from \in queue[r] THEN op[r].from ELSE op[r].to

\* lockAccountsDeterministically: the least text of those still to lock.
NextToLock(r) == CHOOSE s \in queue[r] : \A other \in queue[r] : s <= other
Wanted(r) == Denotes[NextToLock(r)]

\* LockAccount; the row read is kept under the id the database returns.
LockAccount(r) ==
  /\ pc[r] = "lock"
  /\ \/ /\ accounts[Wanted(r)] = Nil
        /\ Fail(r, "not_found")
     \/ /\ accounts[Wanted(r)] # Nil
        /\ SerializationConflict(r, Wanted(r))
        /\ Fail(r, "internal")
     \/ /\ LockRow(r, Wanted(r))
        /\ copies' = [copies EXCEPT ![r][Wanted(r)] = accounts[Wanted(r)]]
        /\ queue' = [queue EXCEPT ![r] = @ \ {NextToLock(r)}]
        /\ pc' = [pc EXCEPT ![r] = IF queue'[r] = {} THEN "apply" ELSE "lock"]
        /\ UNCHANGED <<op, step, stamp, reply, published, clock>>

\* The balances computed from the locked copies go to the UPDATEs.
ApplyTo(r, newCopies) ==
  /\ copies' = [copies EXCEPT ![r] = newCopies]
  /\ pc' = [pc EXCEPT ![r] = "update"]
  /\ UNCHANGED dbVars
  /\ UNCHANGED <<op, queue, step, stamp, reply, published, clock>>

\* The body of Deposit between LockAccount and UpdateAccountBalance.
Deposit(r) ==
  LET id == Denotes[op[r].from]
      account == copies[r][id]
  IN  /\ pc[r] = "apply" /\ op[r].kind = "deposit"
      /\ \/ /\ ~CanAccess(op[r].actor, account)
            /\ Fail(r, "forbidden")
         \/ /\ CanAccess(op[r].actor, account)
            /\ ApplyTo(r, [copies[r] EXCEPT
                             ![id].balance = Wrap(@ + op[r].amount)])

\* The body of Withdraw.
Withdraw(r) ==
  LET id == Denotes[op[r].from]
      account == copies[r][id]
  IN  /\ pc[r] = "apply" /\ op[r].kind = "withdrawal"
      /\ \/ /\ ~CanAccess(op[r].actor, account)
            /\ Fail(r, "forbidden")
         \/ /\ CanAccess(op[r].actor, account)
            /\ account.balance < op[r].amount
            /\ Fail(r, "conflict")
         \/ /\ CanAccess(op[r].actor, account)
            /\ account.balance >= op[r].amount
            /\ ApplyTo(r, [copies[r] EXCEPT ![id].balance = @ - op[r].amount])

\* Mutant of SameCurrency: the check is dropped.
AnyCurrency(from, to) == from.balance >= 0 /\ to.balance >= 0
SameCurrency(from, to) == from.currency = to.currency

\* The body of Transfer.  The map of locked rows is keyed by canonical id, but
\* looked up by the client's text: another spelling finds nil, and using nil
\* panics.
Transfer(r) ==
  LET Locked(s) == IF s \in Account THEN copies[r][s] ELSE Nil
      from == Locked(op[r].from)
      to == Locked(op[r].to)
      amount == op[r].amount
  IN  /\ pc[r] = "apply" /\ op[r].kind = "transfer"
      /\ \/ /\ from = Nil
            /\ Fail(r, "internal")
         \/ /\ from # Nil
            /\ \/ /\ ~CanAccess(op[r].actor, from)
                  /\ Fail(r, "forbidden")
               \/ /\ CanAccess(op[r].actor, from)
                  /\ to = Nil
                  /\ Fail(r, "internal")
               \/ /\ CanAccess(op[r].actor, from)
                  /\ to # Nil
                  /\ \/ /\ ~SameCurrency(from, to)
                        /\ Fail(r, "bad_request")
                     \/ /\ SameCurrency(from, to)
                        /\ from.balance < amount
                        /\ Fail(r, "conflict")
                     \/ /\ SameCurrency(from, to)
                        /\ from.balance >= amount
                        /\ ApplyTo(r, [copies[r] EXCEPT
                                         ![op[r].from].balance = @ - amount,
                                         ![op[r].to].balance = Wrap(@ + amount)])

\* newTransaction reads the clock once for every row; time may pass between
\* the two readings of a transfer.
Readings(r) ==
  IF op[r].kind = "transfer"
  THEN {<<clock, later>> : later \in clock..MaxClock}
  ELSE {<<clock>>}

\* UpdateAccountBalance for the leg in turn; after the last one the rows to
\* insert are built, and stamped with the time.
UpdateAccountBalance(r) ==
  LET account == Leg(r).account
      balance == copies[r][account].balance
  IN  /\ pc[r] = "update"
      /\ \/ /\ ~BalanceCheck(balance)
            /\ Fail(r, "internal")
         \/ /\ UpdateRow(r, account, balance)
            /\ IF LastLeg(r)
               THEN /\ pc' = [pc EXCEPT ![r] = "insert"]
                    /\ step' = [step EXCEPT ![r] = 1]
                    /\ \E times \in Readings(r) :
                         /\ stamp' = [stamp EXCEPT ![r] = times]
                         /\ clock' = times[Len(times)]
               ELSE /\ step' = [step EXCEPT ![r] = @ + 1]
                    /\ UNCHANGED <<pc, stamp, clock>>
            /\ UNCHANGED <<op, queue, copies, reply, published>>

\* Mutant of CreateTransaction: the event is published before the commit.
CreateTransactionAndPublish(r) ==
  /\ pc[r] = "insert"
  /\ InsertRow(r, NewTransaction(r, step[r]))
  /\ published' = published \cup {NewEvent(r)}
  /\ IF LastLeg(r)
     THEN /\ pc' = [pc EXCEPT ![r] = "commit"]
          /\ step' = [step EXCEPT ![r] = 1]
     ELSE /\ step' = [step EXCEPT ![r] = @ + 1]
          /\ UNCHANGED pc
  /\ UNCHANGED <<op, queue, copies, stamp, reply, clock>>

\* CreateTransaction for the leg in turn.
CreateTransaction(r) ==
  /\ pc[r] = "insert"
  /\ InsertRow(r, NewTransaction(r, step[r]))
  /\ IF LastLeg(r)
     THEN /\ pc' = [pc EXCEPT ![r] = "commit"]
          /\ step' = [step EXCEPT ![r] = 1]
     ELSE /\ step' = [step EXCEPT ![r] = @ + 1]
          /\ UNCHANGED pc
  /\ UNCHANGED <<op, queue, copies, stamp, reply, published, clock>>

\* tx.Commit succeeds and WithinTx returns nil.
Commit(r) ==
  /\ pc[r] = "commit"
  /\ CommitTx(r)
  /\ pc' = [pc EXCEPT ![r] = "publish"]
  /\ UNCHANGED <<op, queue, copies, step, stamp, reply, published, clock>>

\* The database commits but the acknowledgement is lost: WithinTx returns an
\* error, nothing is published and the client is told 500.
CommitUnacknowledged(r) ==
  /\ pc[r] = "commit"
  /\ CommitTx(r)
  /\ Return({r}, "internal")
  /\ UNCHANGED <<published, clock>>

\* publish hands one event to the publisher; after the last the handler
\* answers 200.
Publish(r) ==
  /\ pc[r] = "publish"
  /\ published' = published \cup {NewEvent(r)}
  /\ IF LastLeg(r)
     THEN Return({r}, "ok")
     ELSE /\ step' = [step EXCEPT ![r] = @ + 1]
          /\ UNCHANGED <<pc, op, queue, copies, stamp, reply>>
  /\ UNCHANGED <<accounts, journal, active, lock, stale, writes, inserts, clock>>

\* Mutant of StatementFails: WithinTx ignores an error of tx.Commit.
CommitErrorIgnored(r) ==
  /\ pc[r] = "commit"
  /\ RollbackTx({r})
  /\ pc' = [pc EXCEPT ![r] = "publish"]
  /\ UNCHANGED <<op, queue, copies, step, stamp, reply, published, clock>>

\* A statement fails: the connection or the database is lost, the client goes
\* away and the request's context is cancelled, or serializable isolation
\* aborts the transaction.
StatementFails(r) ==
  /\ pc[r] \in {"begin", "lock", "update", "insert", "commit"}
  /\ Fail(r, "internal")

\* Requests that wait for each other's locks, in a cycle or leading to one.
Waiting(r) == pc[r] = "lock" /\ lock[Wanted(r)] \notin {Nil, r}
Deadlocked(R) ==
  R # {} /\ \A r \in R : Waiting(r) /\ lock[Wanted(r)] \in R

\* The deadlock detector of the database fails one of them.
BreakDeadlock(r) ==
  /\ \E R \in SUBSET Request : r \in R /\ Deadlocked(R)
  /\ Fail(r, "internal")

\* The service dies: its goroutines are gone, their clients get no answer, and
\* the database rolls back their open transactions.
Crash ==
  LET inFlight == {r \in Request : pc[r] \notin {"idle", "done"}}
  IN  /\ inFlight # {}
      /\ RollbackTx(active)
      /\ Return(inFlight, "none")
      /\ UNCHANGED <<published, clock>>

Tick ==
  /\ clock < MaxClock
  /\ clock' = clock + 1
  /\ UNCHANGED dbVars
  /\ UNCHANGED <<pc, op, queue, copies, step, stamp, reply, published>>

\* Every request has been answered.
AllDone ==
  /\ \A r \in Request : pc[r] = "done"
  /\ UNCHANGED vars

\* The steps a request's goroutine takes by itself.
Advance(r) ==
  \/ Begin(r) \/ LockAccount(r)
  \/ Deposit(r) \/ Withdraw(r) \/ Transfer(r)
  \/ UpdateAccountBalance(r) \/ CreateTransaction(r)
  \/ Commit(r) \/ Publish(r)

Next ==
  \/ \E r \in Request :
       \/ Receive(r) \/ CreateAccount(r)
       \/ Advance(r)
       \/ CommitUnacknowledged(r) \/ StatementFails(r) \/ BreakDeadlock(r)
  \/ Crash
  \/ Tick
  \/ AllDone

Spec == Init /\ [][Next]_vars
=============================================================================
