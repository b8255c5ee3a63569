---------------------------- MODULE LedgerProofs ----------------------------
(***************************************************************************)
(* Proofs that Inv of module LedgerInvariant is inductive, and of what it  *)
(* implies, for any number of accounts, users, requests and connections    *)
(* and any width of BIGINT.                                                *)
(***************************************************************************)
EXTENDS LedgerInvariant, WellFoundedInduction, TLAPS

\* The texts of an accepted input denote accounts.
LEMMA NamedAreTexts ==
  ASSUME NEW in \in MoneyInput \cup TransferInput, ValidInput(in)
  PROVE  Named(in) \subseteq Spelling
<1>1. in.from \in Spelling /\ in.to \in Spelling \cup {Nil}
  BY DEF MoneyInput, TransferInput, ValidInput, ValidMoneyInput, ValidTransferInput
<1> QED BY <1>1 DEF Named

\* A set of numbers has a least one.
LEMMA LeastNumber ==
  ASSUME NEW T, T \subseteq Nat, T # {}
  PROVE  \E m \in T : \A n \in T : m <= n
<1> DEFINE less == OpToRel(<, Nat)
<1>1. \A m, n \in Nat : <<m, n>> \in less <=> m < n
  BY DEF OpToRel
<1>2. IsWellFoundedOn(less, Nat)
  BY NatLessThanWellFounded, Zenon
<1> HIDE DEF less
<1>3. PICK m \in T : \A n \in T : ~(<<n, m>> \in less)
  BY <1>2, WFMin
<1>4. m \in Nat /\ \A n \in T : n \in Nat /\ ~(n < m)
  BY <1>1, <1>3
<1> QED BY <1>3, <1>4

\* One or two texts have a least one.
LEMMA LeastText ==
  ASSUME NEW x \in Nat, NEW y \in Nat, NEW Q \in SUBSET {x, y}, Q # {}
  PROVE  (CHOOSE s \in Q : \A other \in Q : s <= other) \in Q
<1>1. \E s \in Q : \A other \in Q : s <= other
  <2>1. CASE x \in Q /\ (y \in Q => x <= y)
    BY <2>1
  <2>2. CASE y \in Q /\ (x \in Q => y <= x)
    BY <2>2
  <2>3. x \in Q \/ y \in Q
    <3>1. PICK q : q \in Q
      OBVIOUS
    <3> QED BY <3>1
  <2>4. x <= y \/ y <= x
    OBVIOUS
  <2> QED BY <2>1, <2>2, <2>3, <2>4
<1> QED BY <1>1

Leg1 == [account : Account, counterparty : Account \cup {Nil}, type : TransactionType]

\* Nil is neither a row, a request, an account, a text nor a number.
LEMMA NilIsNothingElse ==
  /\ Nil \notin AccountCopy
  /\ Nil \notin Request
  /\ Nil \notin Account
  /\ Nil \notin Spelling
  /\ \A n \in Int : n # Nil
<1>1. Nil \notin AccountCopy /\ Nil \notin Request /\ Nil \notin Account /\ Nil \notin Int
  BY NilAssumption DEF NilAssumption
<1>2. \A n \in Int : n # Nil
  BY <1>1
<1>3. \A s \in Spelling : s \in Int
  BY SpellingAssumption DEF SpellingAssumption
<1> QED BY <1>1, <1>2, <1>3

\* Every text that denotes an account denotes one, and an account is a text of its own.
LEMMA DenotesAccount ==
  /\ Account \subseteq Spelling
  /\ \A s \in Spelling : Denotes[s] \in Account
  /\ \A a \in Account : Denotes[a] = a
BY SpellingAssumption DEF SpellingAssumption

\* The legs of an accepted input: one or two, each on an account it names.
LEMMA LegsOfInput ==
  ASSUME NEW in \in MoneyInput \cup TransferInput, ValidInput(in)
  PROVE  /\ Legs(in) \in Seq(Leg1)
         /\ Len(Legs(in)) \in {1, 2}
         /\ in.kind # "transfer" => Len(Legs(in)) = 1
         /\ \A i \in 1..Len(Legs(in)) :
              /\ Legs(in)[i] \in Leg1
              /\ \E s \in Named(in) : s \in Spelling /\ Denotes[s] = Legs(in)[i].account
<1> USE DEF Named, ValidInput, ValidMoneyInput, ValidTransferInput, Leg1, TransactionType
<1>0. /\ in.from \in Spelling /\ in.from # Nil
      /\ Denotes[in.from] \in Account
  <2>1. in.from \in Spelling \cup {Blank} /\ in.from # Blank
    <3>1. CASE in \in MoneyInput
      BY <3>1 DEF MoneyInput
    <3>2. CASE in \in TransferInput
      BY <3>2 DEF TransferInput
    <3> QED BY <3>1, <3>2
  <2> QED BY <2>1, NilIsNothingElse, DenotesAccount
<1>1. CASE in.kind = "deposit"
  <2>1. Legs(in) = <<[account |-> Denotes[in.from], counterparty |-> Nil, type |-> "deposit"]>>
    BY <1>1 DEF Legs
  <2> QED BY <1>0, <1>1, <2>1
<1>2. CASE in.kind = "withdrawal"
  <2>1. Legs(in) = <<[account |-> Denotes[in.from], counterparty |-> Nil, type |-> "withdrawal"]>>
    BY <1>2 DEF Legs
  <2> QED BY <1>0, <1>2, <2>1
<1>3. CASE in.kind = "transfer"
  <2>0. in \in TransferInput
    BY <1>3 DEF MoneyInput, TransferInput
  <2>1. /\ in.to \in Spelling /\ in.to # Nil
        /\ Denotes[in.to] \in Account
    BY <1>3, <2>0, NilIsNothingElse, DenotesAccount DEF TransferInput
  <2>2. Legs(in) = <<[account |-> Denotes[in.from], counterparty |-> Denotes[in.to],
                      type |-> "transfer_out"],
                     [account |-> Denotes[in.to], counterparty |-> Denotes[in.from],
                      type |-> "transfer_in"]>>
    BY <1>3 DEF Legs
  <2> QED BY <1>0, <1>3, <2>1, <2>2
<1> QED BY <1>1, <1>2, <1>3 DEF MoneyInput, TransferInput
-----------------------------------------------------------------------------
\* What an admitted request carries.
LEMMA AdmittedFacts ==
  ASSUME Inv, NEW r \in Request, pc[r] \in Admitted
  PROVE  /\ op[r] \in MoneyInput \cup TransferInput
         /\ ValidInput(op[r])
         /\ Legs(op[r]) \in Seq(Leg1)
         /\ LegCount(r) \in {1, 2}
         /\ step[r] \in 1..LegCount(r)
         /\ \A i \in 1..LegCount(r) :
              /\ AccountOf(r, i) \in Account
              /\ Legs(op[r])[i].counterparty \in Account \cup {Nil}
              /\ Legs(op[r])[i].type \in TransactionType
         /\ op[r].amount \in 1..MaxInt
         /\ op[r].actor.user \in User
<1>1. /\ op[r] \in MoneyInput \cup TransferInput
      /\ ValidInput(op[r])
      /\ step[r] \in 1..LegCount(r)
  BY DEF Inv, RequestInv, AdmittedInv
<1>2. /\ Legs(op[r]) \in Seq(Leg1)
      /\ LegCount(r) \in {1, 2}
      /\ \A i \in 1..LegCount(r) : Legs(op[r])[i] \in Leg1
  BY <1>1, LegsOfInput DEF LegCount
<1>3. op[r].amount \in Amount /\ op[r].actor \in Actor /\ op[r].amount > 0
  BY <1>1 DEF MoneyInput, TransferInput, ValidInput, ValidMoneyInput, ValidTransferInput
<1>4. op[r].amount \in 1..MaxInt
  BY <1>3, AmountAssumption, MaxIntAssumption DEF AmountAssumption, MaxIntAssumption
<1>5. op[r].actor.user \in User
  BY <1>3, ActorAssumption DEF ActorAssumption
<1> QED BY <1>1, <1>2, <1>4, <1>5 DEF Leg1, AccountOf

\* A step leaves request u alone, and the rows it has locked.
Untouched(u) ==
  /\ pc'[u] = pc[u] /\ op'[u] = op[u] /\ queue'[u] = queue[u]
  /\ copies'[u] = copies[u] /\ step'[u] = step[u] /\ stamp'[u] = stamp[u]
  /\ writes'[u] = writes[u] /\ inserts'[u] = inserts[u]
  /\ u \in active' <=> u \in active
  /\ \A a \in Account : lock'[a] = u <=> lock[a] = u
  /\ \A a \in Account : lock[a] = u => accounts'[a] = accounts[a]

\* The invariant of a request is stable under steps that leave it alone: this is
\* what the row locks are for.
LEMMA UntouchedKeepsInv ==
  ASSUME Inv, NEW u \in Request, Untouched(u)
  PROVE  RequestInv(u)'
<1> USE DEF Untouched
<1>0. RequestInv(u)
  BY DEF Inv
<1>1. AdmittedInv(u)'
  BY <1>0 DEF RequestInv, AdmittedInv, LegCount
<1>2. LockingInv(u)'
  BY <1>0 DEF RequestInv, LockingInv
<1>3. TransactionInv(u)'
  BY <1>0 DEF RequestInv, TransactionInv
<1>4. LegsInv(u)'
  BY <1>0 DEF RequestInv, LegsInv, LegCount, AccountOf
<1>5. FreshInv(u)'
  <2>1. ASSUME pc[u] \in {"lock", "apply"}, NEW a \in Account
        PROVE  copies[u][a] \in {Nil, accounts'[a]}
    <3>1. CASE copies[u][a] = Nil
      BY <3>1
    <3>2. CASE copies[u][a] # Nil
      BY <1>0, <2>1, <3>2 DEF RequestInv, FreshInv
    <3> QED BY <3>1, <3>2
  <2>2. ASSUME pc[u] \in {"update", "insert", "commit"}, NEW i \in 1..LegCount(u)
        PROVE  copies[u][AccountOf(u, i)] = Expected(u, Legs(op[u])[i])'
    <3>1. AccountOf(u, i) \in Account
      BY <2>2, AdmittedFacts DEF Admitted, Inside
    <3>2. copies[u][AccountOf(u, i)] # Nil
      BY <1>0, <2>2 DEF RequestInv, LegsInv
    <3>3. accounts'[AccountOf(u, i)] = accounts[AccountOf(u, i)]
      BY <1>0, <2>2, <3>1, <3>2 DEF RequestInv, FreshInv
    <3>4. copies[u][AccountOf(u, i)] = Expected(u, Legs(op[u])[i])
      BY <1>0, <2>2 DEF RequestInv, FreshInv
    <3> QED BY <3>3, <3>4 DEF Expected, AccountOf
  <2>3. ASSUME pc[u] # "publish", NEW a \in Account, copies[u][a] # Nil
        PROVE  lock'[a] = u
    BY <1>0, <2>3 DEF RequestInv, FreshInv
  <2> QED BY <2>1, <2>2, <2>3 DEF FreshInv, LegCount, AccountOf
<1>6. WritesInv(u)'
  BY <1>0 DEF RequestInv, WritesInv, Updated, LegCount, AccountOf
<1>7. InsertsInv(u)'
  BY <1>0 DEF RequestInv, InsertsInv, Inserted, LegCount, NewTransaction
<1> QED BY <1>1, <1>2, <1>3, <1>4, <1>5, <1>6, <1>7 DEF RequestInv
-----------------------------------------------------------------------------
\* Requests end, by an answer, an error or a crash, and their transactions are
\* rolled back.
LEMMA EndKeepsInv ==
  ASSUME Inv,
         NEW T \in SUBSET Request, NEW R \in SUBSET Request, NEW status \in Reply,
         T \subseteq R, R \cap active \subseteq T,
         RollbackTx(T), Return(R, status), clock' = clock
  PROVE  Inv'
<1> USE DEF RollbackTx, CloseTx, Return
<1>1. TypeOK'
  <2>1. /\ accounts' \in [Account -> AccountRow \cup {Nil}]
        /\ journal' \in Seq(TransactionRow)
        /\ active' \in SUBSET Request
        /\ lock' \in [Account -> Request \cup {Nil}]
        /\ stale' \in [Request -> SUBSET Account]
    BY DEF Inv, TypeOK, PostgresTypeOK
  <2>2. writes' \in [Request -> [Account -> 0..MaxInt \cup {Nil}]]
    BY DEF Inv, TypeOK, PostgresTypeOK, NoWrites
  <2>3. inserts' \in [Request -> Seq(TransactionRow)]
    BY DEF Inv, TypeOK, PostgresTypeOK
  <2>4. /\ pc' \in [Request -> ProgramCounter]
        /\ op' \in [Request -> MoneyInput \cup TransferInput \cup {Nil}]
        /\ queue' \in [Request -> SUBSET Spelling]
        /\ step' \in [Request -> {1, 2}]
        /\ reply' \in [Request -> Reply]
        /\ clock' \in Nat
    BY DEF Inv, TypeOK, ProgramCounter
  <2>5. copies' \in [Request -> [Account -> AccountCopy \cup {Nil}]]
    BY DEF Inv, TypeOK, NoCopies
  <2>6. stamp' \in [Request -> Seq(Nat)]
    BY DEF Inv, TypeOK
  <2> QED BY <2>1, <2>2, <2>3, <2>4, <2>5, <2>6 DEF TypeOK, PostgresTypeOK
<1>2. \A a \in Account : lock'[a] # Nil => accounts'[a] # Nil
  BY DEF Inv
<1>3. ASSUME NEW u \in Request \ R
      PROVE  RequestInv(u)'
  <2>1. Untouched(u)
    BY NilIsNothingElse DEF Untouched, Inv, TypeOK, PostgresTypeOK
  <2> QED BY <2>1, UntouchedKeepsInv
<1>4. ASSUME NEW u \in R
      PROVE  RequestInv(u)'
  <2>0. /\ pc'[u] = "done" /\ copies'[u] = NoCopies
        /\ u \notin active'
    BY DEF Inv, TypeOK, PostgresTypeOK
  <2>1. \A a \in Account : lock'[a] # u
    BY NilIsNothingElse DEF Inv, RequestInv, TransactionInv, TypeOK, PostgresTypeOK
  <2>2. Len(inserts'[u]) = 0
    <3>1. CASE u \in T
      BY <3>1
    <3>2. CASE u \notin T
      <4>1. pc[u] \notin Inside
        BY <3>2 DEF Inv, RequestInv, TransactionInv
      <4> QED BY <3>2, <4>1 DEF Inv, RequestInv, InsertsInv, Inserted, Inside
    <3> QED BY <3>1, <3>2
  <2>3. \A a \in Account : writes'[u][a] = Nil
    <3>1. CASE u \in T
      BY <3>1 DEF NoWrites
    <3>2. CASE u \notin T
      <4>1. pc[u] \notin Inside
        BY <3>2 DEF Inv, RequestInv, TransactionInv
      <4> QED BY <3>2, <4>1 DEF Inv, RequestInv, WritesInv, Inside
    <3> QED BY <3>1, <3>2
  <2>4. /\ AdmittedInv(u)' /\ LockingInv(u)' /\ LegsInv(u)'
    BY <2>0 DEF AdmittedInv, LockingInv, LegsInv, Admitted, Inside
  <2>5. /\ TransactionInv(u)' /\ FreshInv(u)'
    BY <2>0, <2>1 DEF TransactionInv, FreshInv, Inside, NoCopies
  <2>6. /\ WritesInv(u)' /\ InsertsInv(u)'
    <3>1. Updated(u)' = 0 /\ Inserted(u)' = 0
      BY <2>0 DEF Updated, Inserted
    <3>2. WritesInv(u)'
      <4>1. \A i \in 1..Updated(u)' : FALSE
        BY <3>1
      <4>2. pc'[u] \notin {"update", "insert", "commit"}
        BY <2>0
      <4> QED BY <2>3, <4>1, <4>2 DEF WritesInv
    <3>3. InsertsInv(u)'
      BY <2>0, <2>2, <3>1 DEF InsertsInv
    <3> QED BY <3>2, <3>3
  <2> QED BY <2>4, <2>5, <2>6 DEF RequestInv
<1> QED BY <1>1, <1>2, <1>3, <1>4 DEF Inv

\* An error return, at whatever point of a handler, preserves the invariant.
LEMMA FailKeepsInv ==
  ASSUME Inv, NEW r \in Request, NEW status \in Reply, Fail(r, status)
  PROVE  Inv'
BY EndKeepsInv DEF Fail
-----------------------------------------------------------------------------
\* A step of one request preserves the invariant if it preserves that request's
\* part of it and leaves the others alone.
LEMMA OneMoves ==
  ASSUME Inv, NEW r \in Request,
         TypeOK',
         \A a \in Account : lock'[a] # Nil => accounts'[a] # Nil,
         RequestInv(r)',
         \A u \in Request \ {r} : Untouched(u)
  PROVE  Inv'
<1>1. \A u \in Request \ {r} : RequestInv(u)'
  BY UntouchedKeepsInv
<1> QED BY <1>1 DEF Inv

\* A request that is answered outside any transaction.
LEMMA ReturnKeepsInv ==
  ASSUME Inv, NEW r \in Request, NEW status \in Reply,
         pc[r] \in {"idle", "publish"}, Return({r}, status),
         UNCHANGED dbVars, clock' = clock
  PROVE  Inv'
<1>1. r \notin active
  BY DEF Inv, RequestInv, TransactionInv, Inside
<1>2. RollbackTx({})
  <2>1. /\ lock' = [a \in Account |-> IF lock[a] \in {} THEN Nil ELSE lock[a]]
        /\ writes' = [t \in Request |-> IF t \in {} THEN NoWrites ELSE writes[t]]
        /\ inserts' = [t \in Request |-> IF t \in {} THEN <<>> ELSE inserts[t]]
        /\ stale' = [t \in Request |-> IF t \in {} THEN {} ELSE stale[t]]
    BY DEF dbVars, Inv, TypeOK, PostgresTypeOK
  <2> QED BY <2>1 DEF RollbackTx, CloseTx, dbVars
<1> QED BY <1>1, <1>2, EndKeepsInv

\* Decoding and validating the input preserves the invariant.
LEMMA ReceiveKeepsInv ==
  ASSUME Inv, NEW r \in Request, Receive(r)
  PROVE  Inv'
<1>1. PICK in \in MoneyInput \cup TransferInput :
        \/ ~ValidInput(in) /\ Fail(r, "bad_request")
        \/ /\ ValidInput(in)
           /\ op' = [op EXCEPT ![r] = in]
           /\ queue' = [queue EXCEPT ![r] = Named(in)]
           /\ pc' = [pc EXCEPT ![r] = "begin"]
           /\ UNCHANGED dbVars
           /\ UNCHANGED <<copies, step, stamp, reply, published, clock>>
  BY DEF Receive
<1>2. CASE Fail(r, "bad_request")
  BY <1>2, FailKeepsInv DEF Reply
<1>3. CASE /\ ValidInput(in)
           /\ op' = [op EXCEPT ![r] = in]
           /\ queue' = [queue EXCEPT ![r] = Named(in)]
           /\ pc' = [pc EXCEPT ![r] = "begin"]
           /\ UNCHANGED dbVars
           /\ UNCHANGED <<copies, step, stamp, reply, published, clock>>
  <2> USE DEF dbVars
  <2>0. pc[r] = "idle"
    BY DEF Receive
  <2>1. Named(in) \subseteq Spelling /\ Named(in) # {}
    <3>1. in.from \in Spelling
      BY <1>3 DEF MoneyInput, TransferInput, ValidInput, ValidMoneyInput, ValidTransferInput
    <3>2. in.to \in Spelling \cup {Nil}
      BY <1>3 DEF MoneyInput, TransferInput, ValidInput, ValidMoneyInput, ValidTransferInput
    <3> QED BY <3>1, <3>2, NilIsNothingElse DEF Named
  <2>2. TypeOK'
    BY <1>3, <2>1 DEF Inv, TypeOK, PostgresTypeOK, ProgramCounter
  <2>3. \A a \in Account : lock'[a] # Nil => accounts'[a] # Nil
    BY <1>3 DEF Inv
  <2>4. \A u \in Request \ {r} : Untouched(u)
    BY <1>3 DEF Untouched, Inv, TypeOK, PostgresTypeOK
  <2>5. RequestInv(r)'
    <3>1. /\ pc'[r] = "begin" /\ op'[r] = in /\ queue'[r] = Named(in)
          /\ step'[r] = 1 /\ copies'[r] = NoCopies
          /\ r \notin active' /\ \A a \in Account : lock'[a] # r
          /\ \A a \in Account : writes'[r][a] = Nil
          /\ Len(inserts'[r]) = 0
      BY <1>3, <2>0 DEF Inv, TypeOK, RequestInv, LockingInv, TransactionInv, WritesInv,
                        InsertsInv, Inserted, Inside
    <3>2. AdmittedInv(r)' /\ LockingInv(r)'
      BY <1>3, <2>1, <3>1, LegsOfInput DEF AdmittedInv, LockingInv, LegCount
    <3>3. TransactionInv(r)' /\ FreshInv(r)' /\ LegsInv(r)'
      BY <3>1 DEF TransactionInv, FreshInv, LegsInv, Inside, NoCopies
    <3>4. Updated(r)' = 0 /\ Inserted(r)' = 0
      BY <3>1 DEF Updated, Inserted
    <3>5. \A i \in 1..Updated(r)' : FALSE
      BY <3>4
    <3>6. WritesInv(r)'
      BY <3>1, <3>5 DEF WritesInv
    <3>7. InsertsInv(r)'
      BY <3>1, <3>4 DEF InsertsInv
    <3> QED BY <3>2, <3>3, <3>6, <3>7 DEF RequestInv
  <2> QED BY <2>2, <2>3, <2>4, <2>5, OneMoves
<1> QED BY <1>1, <1>2, <1>3

\* BeginTx preserves the invariant.
LEMMA BeginKeepsInv ==
  ASSUME Inv, NEW r \in Request, Begin(r)
  PROVE  Inv'
<1> USE DEF Begin, BeginTx
<1>1. TypeOK'
  BY DEF Inv, TypeOK, PostgresTypeOK, ProgramCounter
<1>2. \A a \in Account : lock'[a] # Nil => accounts'[a] # Nil
  BY DEF Inv
<1>3. \A u \in Request \ {r} : Untouched(u)
  BY DEF Untouched, Inv, TypeOK, PostgresTypeOK
<1>4. RequestInv(r)'
  <2>0. pc[r] = "begin" /\ pc'[r] = "lock" /\ RequestInv(r)
    BY DEF Inv, TypeOK
  <2>1. AdmittedInv(r)'
    BY <2>0 DEF RequestInv, AdmittedInv, Admitted, Inside, LegCount
  <2>2. LockingInv(r)'
    <3>1. /\ queue[r] = queue'[r] /\ op'[r] = op[r] /\ step[r] = 1 /\ copies'[r] = copies[r]
          /\ queue[r] = Named(op[r])
      BY <2>0 DEF RequestInv, LockingInv
    <3> QED BY <2>0, <3>1 DEF RequestInv, LockingInv
  <2>3. TransactionInv(r)' /\ FreshInv(r)' /\ LegsInv(r)'
    BY <2>0 DEF RequestInv, TransactionInv, FreshInv, LegsInv, Inside, NoCopies
  <2>4. WritesInv(r)' /\ InsertsInv(r)'
    <3>1. Updated(r)' = 0 /\ Inserted(r)' = 0 /\ Updated(r) = 0 /\ Inserted(r) = 0
      BY <2>0 DEF Updated, Inserted
    <3>2. \A i \in 1..0 : FALSE
      OBVIOUS
    <3>3. WritesInv(r)'
      BY <2>0, <3>1, <3>2 DEF RequestInv, WritesInv
    <3>4. InsertsInv(r)'
      BY <2>0, <3>1, <3>2 DEF RequestInv, InsertsInv
    <3> QED BY <3>3, <3>4
  <2> QED BY <2>1, <2>2, <2>3, <2>4 DEF RequestInv
<1> QED BY <1>1, <1>2, <1>3, <1>4, OneMoves

\* Opening an account does: the row it inserts was absent, so nobody holds its lock.
LEMMA CreateAccountKeepsInv ==
  ASSUME Inv, NEW r \in Request, CreateAccount(r)
  PROVE  Inv'
<1>0. pc[r] = "idle" /\ clock' = clock
  BY DEF CreateAccount
<1>1. PICK actor \in Actor, code \in Currency \cup {"bad"} \cup {CodeOf[text] : text \in CurrencyText} :
        \/ \E status \in {"bad_request", "internal"} : Return({r}, status) /\ UNCHANGED dbVars
        \/ /\ code \in Currency
           /\ \E a \in Account :
                /\ FreshId(a)
                /\ InsertAccount(a, [owner |-> actor.user, currency |-> code, balance |-> 0])
           /\ \E status \in {"created", "internal"} : Return({r}, status)
  BY CurrencyAssumption DEF CreateAccount, CurrencyAssumption
<1>2. CASE \E status \in {"bad_request", "internal"} : Return({r}, status) /\ UNCHANGED dbVars
  BY <1>0, <1>2, ReturnKeepsInv DEF Reply
<1>3. CASE /\ code \in Currency
           /\ \E a \in Account :
                /\ FreshId(a)
                /\ InsertAccount(a, [owner |-> actor.user, currency |-> code, balance |-> 0])
           /\ \E status \in {"created", "internal"} : Return({r}, status)
  <2>1. PICK a \in Account, status \in {"created", "internal"} :
          /\ accounts[a] = Nil
          /\ accounts' = [accounts EXCEPT ![a] = [owner |-> actor.user, currency |-> code,
                                                  balance |-> 0]]
          /\ UNCHANGED <<journal, active, lock, stale, writes, inserts>>
          /\ Return({r}, status)
    BY <1>3 DEF InsertAccount
  <2>2. [owner |-> actor.user, currency |-> code, balance |-> 0] \in AccountRow
    BY <1>3, ActorAssumption, MaxIntAssumption DEF ActorAssumption, MaxIntAssumption, AccountRow
  <2>3. PostgresTypeOK'
    BY <2>1, <2>2 DEF Inv, TypeOK, PostgresTypeOK
  <2>4. TypeOK'
    <3>1. /\ pc' \in [Request -> ProgramCounter]
          /\ op' \in [Request -> MoneyInput \cup TransferInput \cup {Nil}]
          /\ queue' \in [Request -> SUBSET Spelling]
          /\ copies' \in [Request -> [Account -> AccountCopy \cup {Nil}]]
          /\ step' \in [Request -> {1, 2}]
          /\ stamp' \in [Request -> Seq(Nat)]
          /\ reply' \in [Request -> Reply]
      BY <2>1 DEF Return, Inv, TypeOK, ProgramCounter, Reply, NoCopies
    <3> QED BY <1>0, <2>3, <3>1 DEF Inv, TypeOK
  <2>5. \A b \in Account : lock'[b] # Nil => accounts'[b] # Nil
    <3>1. AccountRow \subseteq AccountCopy
      BY DEF AccountRow, AccountCopy
    <3>2. [owner |-> actor.user, currency |-> code, balance |-> 0] # Nil
      BY <2>2, <3>1, NilIsNothingElse
    <3> QED BY <2>1, <3>2 DEF Inv, TypeOK, PostgresTypeOK
  <2>6. \A u \in Request \ {r} : Untouched(u)
    BY <2>1, NilIsNothingElse DEF Untouched, Return, Inv, TypeOK, PostgresTypeOK
  <2>7. RequestInv(r)'
    <3>1. /\ pc'[r] = "done" /\ copies'[r] = NoCopies
          /\ r \notin active' /\ \A b \in Account : lock'[b] # r
          /\ \A b \in Account : writes'[r][b] = Nil
          /\ Len(inserts'[r]) = 0
      BY <1>0, <2>1 DEF Return, Inv, TypeOK, RequestInv, TransactionInv, WritesInv,
                        InsertsInv, Inserted, Inside
    <3>2. AdmittedInv(r)' /\ LockingInv(r)'
      BY <3>1 DEF AdmittedInv, LockingInv, Admitted, Inside
    <3>3. TransactionInv(r)' /\ FreshInv(r)' /\ LegsInv(r)'
      BY <3>1 DEF TransactionInv, FreshInv, LegsInv, Inside, NoCopies
    <3>4. Updated(r)' = 0 /\ Inserted(r)' = 0
      BY <3>1 DEF Updated, Inserted
    <3>5. \A i \in 1..Updated(r)' : FALSE
      BY <3>4
    <3>6. WritesInv(r)'
      BY <3>1, <3>5 DEF WritesInv
    <3>7. InsertsInv(r)'
      BY <3>1, <3>4 DEF InsertsInv
    <3> QED BY <3>2, <3>3, <3>6, <3>7 DEF RequestInv
  <2> QED BY <2>4, <2>5, <2>6, <2>7, OneMoves
<1> QED BY <1>1, <1>2, <1>3

\* LockAccount does: the copy it takes is of a row nobody else can change from now on.
LEMMA LockAccountKeepsInv ==
  ASSUME Inv, NEW r \in Request, LockAccount(r)
  PROVE  Inv'
<1>0. pc[r] = "lock"
  BY DEF LockAccount
<1>1. CASE Fail(r, "not_found") \/ Fail(r, "internal")
  BY <1>1, FailKeepsInv DEF Reply
<1>2. CASE /\ LockRow(r, Wanted(r))
           /\ copies' = [copies EXCEPT ![r][Wanted(r)] = accounts[Wanted(r)]]
           /\ queue' = [queue EXCEPT ![r] = @ \ {NextToLock(r)}]
           /\ pc' = [pc EXCEPT ![r] = IF queue'[r] = {} THEN "apply" ELSE "lock"]
           /\ UNCHANGED <<op, step, stamp, reply, published, clock>>
  <2>1. RequestInv(r)
    BY DEF Inv
  <2>2. /\ queue[r] # {} /\ queue[r] \subseteq Named(op[r]) /\ queue[r] \subseteq Spelling
        /\ queue[r] \subseteq Nat
    BY <1>0, <2>1, SpellingAssumption DEF SpellingAssumption, RequestInv, LockingInv, Inv, TypeOK
  <2>3. NextToLock(r) \in queue[r]
    <3> DEFINE Q == queue[r]
    <3>1. \E x, y \in Nat : Q \subseteq {x, y}
      BY <2>2 DEF Named
    <3> HIDE DEF Q
    <3>2. Q # {} => (CHOOSE s \in Q : \A other \in Q : s <= other) \in Q
      BY <3>1, LeastText
    <3> QED BY <2>2, <3>2 DEF NextToLock, Q
  <2>4. Wanted(r) \in Account
    BY <2>2, <2>3, DenotesAccount DEF Wanted
  <2> DEFINE a == Wanted(r)
             text == NextToLock(r)
  <2> HIDE DEF a, text
  <2>5. /\ a \in Account /\ text \in queue[r] /\ a = Denotes[text]
    BY <2>3, <2>4 DEF a, text, Wanted
  <2>6. /\ accounts[a] # Nil
        /\ lock[a] \in {Nil, r}
        /\ lock' = [lock EXCEPT ![a] = r]
        /\ UNCHANGED <<accounts, journal, active, stale, writes, inserts>>
        /\ copies' = [copies EXCEPT ![r][a] = accounts[a]]
        /\ queue' = [queue EXCEPT ![r] = @ \ {text}]
        /\ pc' = [pc EXCEPT ![r] = IF queue'[r] = {} THEN "apply" ELSE "lock"]
        /\ UNCHANGED <<op, step, stamp, reply, published, clock>>
    BY <1>2 DEF a, text, LockRow
  <2>7. TypeOK'
    <3>1. PostgresTypeOK'
      BY <2>5, <2>6 DEF Inv, TypeOK, PostgresTypeOK
    <3>2. copies' \in [Request -> [Account -> AccountCopy \cup {Nil}]]
      <4>1. accounts[a] \in AccountCopy
        BY <2>5, <2>6 DEF Inv, TypeOK, PostgresTypeOK, AccountRow, AccountCopy
      <4> QED BY <2>5, <2>6, <4>1 DEF Inv, TypeOK
    <3>3. /\ pc' \in [Request -> ProgramCounter]
          /\ queue' \in [Request -> SUBSET Spelling]
      BY <2>6 DEF Inv, TypeOK, ProgramCounter
    <3> QED BY <2>6, <3>1, <3>2, <3>3 DEF Inv, TypeOK
  <2>8. \A b \in Account : lock'[b] # Nil => accounts'[b] # Nil
    BY <2>5, <2>6 DEF Inv, TypeOK, PostgresTypeOK
  <2>9. \A u \in Request \ {r} : Untouched(u)
    BY <2>5, <2>6, NilIsNothingElse DEF Untouched, Inv, TypeOK, PostgresTypeOK
  <2>10. RequestInv(r)'
    <3>1. /\ pc'[r] \in {"lock", "apply"} /\ op'[r] = op[r] /\ step'[r] = step[r]
          /\ queue'[r] = queue[r] \ {text}
          /\ pc'[r] = "apply" => queue'[r] = {}
          /\ pc'[r] = "lock" => queue'[r] # {}
          /\ \A b \in Account : copies'[r][b] = IF b = a THEN accounts[a] ELSE copies[r][b]
          /\ \A b \in Account : lock'[b] = IF b = a THEN r ELSE lock[b]
      BY <1>0, <2>5, <2>6 DEF Inv, TypeOK, PostgresTypeOK
    <3>2. AdmittedInv(r)'
      BY <1>0, <2>1, <3>1 DEF RequestInv, AdmittedInv, Admitted, Inside, LegCount
    <3>3. LockingInv(r)'
      <4>1. step'[r] = 1
        BY <1>0, <2>1, <3>1 DEF RequestInv, LockingInv
      <4>2. queue'[r] \subseteq Named(op'[r])
        BY <2>2, <3>1
      <4>3. ASSUME NEW s \in Named(op[r]), s \notin queue'[r]
            PROVE  copies'[r][Denotes[s]] # Nil
        <5>1. s \in Spelling /\ Denotes[s] \in Account
          <6>1. /\ op[r] \in MoneyInput \cup TransferInput
                /\ ValidInput(op[r])
            BY <1>0, AdmittedFacts DEF Admitted, Inside
          <6> QED BY <4>3, <6>1, NamedAreTexts, DenotesAccount
        <5>2. s = text \/ s \notin queue[r]
          BY <3>1, <4>3
        <5>3. CASE s = text
          BY <2>5, <2>6, <3>1, <5>1, <5>3
        <5>4. CASE s \notin queue[r]
          <6>1. copies[r][Denotes[s]] # Nil
            BY <1>0, <2>1, <4>3, <5>4 DEF RequestInv, LockingInv
          <6> QED BY <2>6, <3>1, <5>1, <6>1
        <5> QED BY <5>2, <5>3, <5>4
      <4> QED BY <3>1, <4>1, <4>2, <4>3 DEF LockingInv
    <3>4. TransactionInv(r)'
      BY <1>0, <2>1, <2>6, <3>1 DEF RequestInv, TransactionInv, Inside
    <3>5. FreshInv(r)' /\ LegsInv(r)'
      BY <1>0, <2>1, <2>6, <3>1 DEF RequestInv, FreshInv, LegsInv
    <3>6. WritesInv(r)' /\ InsertsInv(r)'
      <4>1. Updated(r)' = 0 /\ Inserted(r)' = 0 /\ Updated(r) = 0 /\ Inserted(r) = 0
        BY <1>0, <3>1 DEF Updated, Inserted
      <4>2. \A i \in 1..0 : FALSE
        OBVIOUS
      <4>3. WritesInv(r)'
        BY <1>0, <2>1, <2>6, <3>1, <4>1, <4>2 DEF RequestInv, WritesInv
      <4>4. InsertsInv(r)'
        BY <1>0, <2>1, <2>6, <3>1, <4>1, <4>2 DEF RequestInv, InsertsInv
      <4> QED BY <4>3, <4>4
    <3> QED BY <3>2, <3>3, <3>4, <3>5, <3>6 DEF RequestInv
  <2> QED BY <2>7, <2>8, <2>9, <2>10, OneMoves
<1> QED BY <1>1, <1>2 DEF LockAccount
-----------------------------------------------------------------------------
\* The bodies of the handlers: the balances they compute are the expected ones.

\* The end of the checks does, if every leg has a locked row of its own whose new copy is
\* the committed row, moved.
LEMMA ApplyKeepsInv ==
  ASSUME Inv, NEW r \in Request, pc[r] = "apply",
         NEW newCopies \in [Account -> AccountCopy \cup {Nil}],
         ApplyTo(r, newCopies),
         \A a \in Account : newCopies[a] # Nil => copies[r][a] # Nil,
         \A i \in 1..LegCount(r) :
           /\ newCopies[AccountOf(r, i)] # Nil
           /\ newCopies[AccountOf(r, i)] = Expected(r, Legs(op[r])[i])
           /\ \A j \in 1..LegCount(r) : AccountOf(r, i) = AccountOf(r, j) => i = j
  PROVE  Inv'
<1> USE DEF ApplyTo, dbVars
<1>0. RequestInv(r)
  BY DEF Inv
<1>1. TypeOK'
  BY DEF Inv, TypeOK, PostgresTypeOK, ProgramCounter
<1>2. \A a \in Account : lock'[a] # Nil => accounts'[a] # Nil
  BY DEF Inv
<1>3. \A u \in Request \ {r} : Untouched(u)
  BY DEF Untouched, Inv, TypeOK, PostgresTypeOK
<1>4. RequestInv(r)'
  <2>1. /\ pc'[r] = "update" /\ op'[r] = op[r] /\ copies'[r] = newCopies
        /\ step'[r] = 1
    BY <1>0 DEF Inv, TypeOK, RequestInv, LockingInv
  <2>2. AdmittedInv(r)' /\ LockingInv(r)' /\ TransactionInv(r)'
    BY <1>0, <2>1 DEF RequestInv, AdmittedInv, LockingInv, TransactionInv, Admitted, Inside,
                      LegCount
  <2>3. FreshInv(r)'
    <3>1. \A a \in Account : copies'[r][a] # Nil => lock'[a] = r
      BY <1>0, <2>1 DEF RequestInv, FreshInv
    <3> QED BY <2>1, <3>1 DEF FreshInv, LegCount, AccountOf, Expected
  <2>4. LegsInv(r)'
    BY <2>1 DEF LegsInv, LegCount, AccountOf
  <2>5. Updated(r)' = 0 /\ Inserted(r)' = 0 /\ Updated(r) = 0 /\ Inserted(r) = 0
    BY <2>1 DEF Updated, Inserted
  <2>6. \A i \in 1..0 : FALSE
    OBVIOUS
  <2>7. WritesInv(r)'
    BY <1>0, <2>1, <2>5, <2>6 DEF RequestInv, WritesInv
  <2>8. InsertsInv(r)'
    BY <1>0, <2>1, <2>5, <2>6 DEF RequestInv, InsertsInv
  <2> QED BY <2>2, <2>3, <2>4, <2>7, <2>8 DEF RequestInv
<1> QED BY <1>1, <1>2, <1>3, <1>4, OneMoves

\* What a handler finds at the end of locking: fresh copies of the rows it named.
LEMMA LockedCopies ==
  ASSUME Inv, NEW r \in Request, pc[r] = "apply"
  PROVE  /\ \A s \in Named(op[r]) : /\ s \in Spelling
                                    /\ Denotes[s] \in Account
                                    /\ copies[r][Denotes[s]] # Nil
                                    /\ copies[r][Denotes[s]] = accounts[Denotes[s]]
                                    /\ copies[r][Denotes[s]] \in AccountRow
         /\ op[r].from \in Named(op[r])
         /\ op[r].kind = "transfer" => op[r].to \in Named(op[r]) /\ op[r].from # op[r].to
<1>1. RequestInv(r) /\ pc[r] \in Admitted
  BY DEF Inv, Admitted, Inside
<1>2. op[r] \in MoneyInput \cup TransferInput /\ ValidInput(op[r])
  BY <1>1, AdmittedFacts
<1>3. \A s \in Named(op[r]) : s \in Spelling /\ Denotes[s] \in Account
  BY <1>2, NamedAreTexts, DenotesAccount
<1>4. \A s \in Named(op[r]) : copies[r][Denotes[s]] # Nil
  BY <1>1 DEF RequestInv, LockingInv
<1>5. \A s \in Named(op[r]) : copies[r][Denotes[s]] = accounts[Denotes[s]]
  BY <1>1, <1>3, <1>4 DEF RequestInv, FreshInv
<1>6. \A s \in Named(op[r]) : copies[r][Denotes[s]] \in AccountRow
  BY <1>3, <1>4, <1>5 DEF Inv, TypeOK, PostgresTypeOK
<1>7. op[r].from \in Spelling
  BY <1>2 DEF MoneyInput, TransferInput, ValidInput, ValidMoneyInput, ValidTransferInput
<1>8. op[r].kind = "transfer" => op[r].to \in Spelling /\ op[r].from # op[r].to
  BY <1>2 DEF MoneyInput, TransferInput, ValidInput, ValidTransferInput
<1>9. /\ op[r].from \in Named(op[r])
      /\ op[r].kind = "transfer" => op[r].to \in Named(op[r])
  BY <1>7, <1>8, NilIsNothingElse DEF Named
<1> QED BY <1>3, <1>4, <1>5, <1>6, <1>8, <1>9

\* Wrap leaves a sum that fits alone, and is an int64 anyway.
LEMMA WrapFacts ==
  /\ \A x \in Int : Wrap(x) \in Int
  /\ \A x \in Int : x <= MaxInt => Wrap(x) = x
  /\ \A x \in 0..MaxInt, y \in 1..MaxInt : Wrap(x + y) >= 0 => Wrap(x + y) = x + y
BY MaxIntAssumption DEF MaxIntAssumption, Wrap

\* The body of Deposit preserves the invariant.
LEMMA DepositKeepsInv ==
  ASSUME Inv, NEW r \in Request, Deposit(r)
  PROVE  Inv'
<1> DEFINE id == Denotes[op[r].from]
           newCopies == [copies[r] EXCEPT ![id].balance = Wrap(@ + op[r].amount)]
<1>0. pc[r] = "apply" /\ op[r].kind = "deposit"
  BY DEF Deposit
<1>1. CASE Fail(r, "forbidden")
  BY <1>1, FailKeepsInv DEF Reply
<1>2. CASE ApplyTo(r, newCopies)
  <2>1. /\ id \in Account /\ copies[r][id] = accounts[id] /\ accounts[id] \in AccountRow
        /\ copies[r] \in [Account -> AccountCopy \cup {Nil}]
        /\ op[r].amount \in 1..MaxInt
    BY <1>0, LockedCopies, AdmittedFacts DEF Admitted, Inside, Inv, TypeOK
  <2>2. Legs(op[r]) = <<[account |-> id, counterparty |-> Nil, type |-> "deposit"]>>
    BY <1>0 DEF Legs
  <2>3. newCopies[id] = Expected(r, Legs(op[r])[1])
    BY <2>1, <2>2 DEF Expected, Change
  <2>4. newCopies[id] \in AccountCopy
    BY <2>1, WrapFacts DEF AccountRow, AccountCopy
  <2>5. newCopies \in [Account -> AccountCopy \cup {Nil}]
    BY <2>1, <2>4
  <2>6. \A a \in Account : newCopies[a] # Nil => copies[r][a] # Nil
    <3>1. copies[r][id] # Nil
      BY <1>0, LockedCopies
    <3> QED BY <2>1, <3>1
  <2>7. LegCount(r) = 1 /\ AccountOf(r, 1) = id
    BY <2>2 DEF LegCount, AccountOf
  <2> HIDE DEF newCopies, id
  <2> QED BY <1>0, <1>2, <2>3, <2>4, <2>5, <2>6, <2>7, NilIsNothingElse, ApplyKeepsInv
<1> QED BY <1>1, <1>2 DEF Deposit

\* The body of Withdraw does: the balance that stays is not negative.
LEMMA WithdrawKeepsInv ==
  ASSUME Inv, NEW r \in Request, Withdraw(r)
  PROVE  Inv'
<1> DEFINE id == Denotes[op[r].from]
           newCopies == [copies[r] EXCEPT ![id].balance = @ - op[r].amount]
<1>0. pc[r] = "apply" /\ op[r].kind = "withdrawal"
  BY DEF Withdraw
<1>1. CASE Fail(r, "forbidden") \/ Fail(r, "conflict")
  BY <1>1, FailKeepsInv DEF Reply
<1>2. CASE ApplyTo(r, newCopies)
  <2>1. /\ id \in Account /\ copies[r][id] = accounts[id] /\ accounts[id] \in AccountRow
        /\ copies[r] \in [Account -> AccountCopy \cup {Nil}]
        /\ op[r].amount \in 1..MaxInt
    BY <1>0, LockedCopies, AdmittedFacts DEF Admitted, Inside, Inv, TypeOK
  <2>2. Legs(op[r]) = <<[account |-> id, counterparty |-> Nil, type |-> "withdrawal"]>>
    BY <1>0 DEF Legs
  <2>3. newCopies[id] = Expected(r, Legs(op[r])[1])
    <3>1. /\ accounts[id].balance \in 0..MaxInt /\ accounts[id].balance - op[r].amount \in Int
          /\ accounts[id].balance - op[r].amount <= MaxInt
      BY <2>1, MaxIntAssumption DEF AccountRow, MaxIntAssumption
    <3>2. Wrap(accounts[id].balance + (-op[r].amount)) = accounts[id].balance - op[r].amount
      BY <2>1, <3>1, WrapFacts
    <3> QED BY <2>1, <2>2, <3>2 DEF Expected, Change
  <2>4. newCopies[id] \in AccountCopy
    BY <2>1 DEF AccountRow, AccountCopy
  <2>5. newCopies \in [Account -> AccountCopy \cup {Nil}]
    BY <2>1, <2>4
  <2>6. \A a \in Account : newCopies[a] # Nil => copies[r][a] # Nil
    <3>1. copies[r][id] # Nil
      BY <1>0, LockedCopies
    <3> QED BY <2>1, <3>1
  <2>7. LegCount(r) = 1 /\ AccountOf(r, 1) = id
    BY <2>2 DEF LegCount, AccountOf
  <2> HIDE DEF newCopies, id
  <2> QED BY <1>0, <1>2, <2>3, <2>4, <2>5, <2>6, <2>7, NilIsNothingElse, ApplyKeepsInv
<1> QED BY <1>1, <1>2 DEF Withdraw

\* The body of Transfer does: it gets past its look-ups only with two different rows.
LEMMA TransferKeepsInv ==
  ASSUME Inv, NEW r \in Request, Transfer(r)
  PROVE  Inv'
<1> DEFINE x == op[r].from
           y == op[r].to
           amount == op[r].amount
           newCopies == [copies[r] EXCEPT ![x].balance = @ - amount,
                                          ![y].balance = Wrap(@ + amount)]
<1>0. pc[r] = "apply" /\ op[r].kind = "transfer"
  BY DEF Transfer
<1>1. CASE \E status \in {"internal", "forbidden", "bad_request", "conflict"} : Fail(r, status)
  BY <1>1, FailKeepsInv DEF Reply
<1>2. CASE /\ (IF x \in Account THEN copies[r][x] ELSE Nil) # Nil
           /\ (IF y \in Account THEN copies[r][y] ELSE Nil) # Nil
           /\ copies[r][x].balance >= amount
           /\ ApplyTo(r, newCopies)
  <2>0. x \in Account /\ y \in Account /\ x # y
    BY <1>0, <1>2, LockedCopies
  <2>1. /\ copies[r][x] = accounts[x] /\ accounts[x] \in AccountRow
        /\ copies[r][y] = accounts[y] /\ accounts[y] \in AccountRow
        /\ copies[r] \in [Account -> AccountCopy \cup {Nil}]
        /\ amount \in 1..MaxInt
    <3>1. Denotes[x] = x /\ Denotes[y] = y /\ x \in Named(op[r]) /\ y \in Named(op[r])
      BY <1>0, <2>0, LockedCopies, DenotesAccount
    <3>2. /\ copies[r][x] = accounts[x] /\ copies[r][x] \in AccountRow
          /\ copies[r][y] = accounts[y] /\ copies[r][y] \in AccountRow
      BY <1>0, <3>1, LockedCopies
    <3>3. amount \in 1..MaxInt
      BY <1>0, AdmittedFacts DEF Admitted, Inside
    <3> QED BY <3>2, <3>3 DEF Inv, TypeOK
  <2>2. Legs(op[r]) = <<[account |-> x, counterparty |-> y, type |-> "transfer_out"],
                        [account |-> y, counterparty |-> x, type |-> "transfer_in"]>>
    BY <1>0, <2>0, DenotesAccount DEF Legs
  <2>3. newCopies[x] = Expected(r, Legs(op[r])[1])
    <3>1. /\ accounts[x].balance \in 0..MaxInt /\ accounts[x].balance - amount \in Int
          /\ accounts[x].balance - amount <= MaxInt
      BY <2>1, MaxIntAssumption DEF AccountRow, MaxIntAssumption
    <3>2. Wrap(accounts[x].balance + (-amount)) = accounts[x].balance - amount
      BY <2>1, <3>1, WrapFacts
    <3>3. newCopies[x] = [accounts[x] EXCEPT !.balance = @ - amount]
      BY <2>0, <2>1
    <3> QED BY <2>1, <2>2, <3>2, <3>3 DEF Expected, Change
  <2>4. newCopies[y] = Expected(r, Legs(op[r])[2])
    <3>1. newCopies[y] = [accounts[y] EXCEPT !.balance = Wrap(@ + amount)]
      BY <2>0, <2>1
    <3> QED BY <2>1, <2>2, <3>1 DEF Expected, Change
  <2>5. newCopies[x] \in AccountCopy
    BY <2>0, <2>1 DEF AccountRow, AccountCopy
  <2>6. newCopies[y] \in AccountCopy
    BY <2>0, <2>1, WrapFacts DEF AccountRow, AccountCopy
  <2>7. newCopies \in [Account -> AccountCopy \cup {Nil}]
    <3>1. \A a \in Account \ {x, y} : newCopies[a] = copies[r][a]
      BY <2>1
    <3>2. newCopies = [a \in Account |-> newCopies[a]]
      BY <2>1
    <3> HIDE DEF newCopies
    <3> QED BY <2>1, <2>5, <2>6, <3>1, <3>2
  <2>8. \A a \in Account : newCopies[a] # Nil => copies[r][a] # Nil
    BY <1>2, <2>0, <2>1
  <2>9. LegCount(r) = 2 /\ AccountOf(r, 1) = x /\ AccountOf(r, 2) = y
    BY <2>2 DEF LegCount, AccountOf
  <2> HIDE DEF newCopies, x, y
  <2>10. \A i \in 1..LegCount(r) :
           /\ newCopies[AccountOf(r, i)] # Nil
           /\ newCopies[AccountOf(r, i)] = Expected(r, Legs(op[r])[i])
           /\ \A j \in 1..LegCount(r) : AccountOf(r, i) = AccountOf(r, j) => i = j
    <3>1. \A i \in 1..LegCount(r) : i = 1 \/ i = 2
      BY <2>9
    <3> QED BY <2>0, <2>3, <2>4, <2>5, <2>6, <2>9, <3>1, NilIsNothingElse
  <2> QED BY <1>0, <1>2, <2>7, <2>8, <2>10, ApplyKeepsInv
<1> QED BY <1>1, <1>2 DEF Transfer

\* The clock readings of the rows to insert are times, one for every leg.
LEMMA ReadingsAreTimes ==
  ASSUME Inv, NEW r \in Request, NEW times \in Readings(r)
  PROVE  /\ times \in Seq(Nat) /\ times[Len(times)] \in Nat
         /\ times[1] \in Nat
         /\ op[r].kind = "transfer" => times[2] \in Nat
<1>1. clock \in Nat
  BY DEF Inv, TypeOK
<1>2. CASE op[r].kind = "transfer"
  <2>1. PICK later \in clock..MaxClock : times = <<clock, later>>
    BY <1>2 DEF Readings
  <2>2. later \in Nat
    BY <1>1, ClockAssumption DEF ClockAssumption
  <2> QED BY <1>1, <2>1, <2>2
<1>3. CASE op[r].kind # "transfer"
  <2>1. times = <<clock>>
    BY <1>3 DEF Readings
  <2> QED BY <1>1, <1>3, <2>1
<1> QED BY <1>2, <1>3

\* UpdateAccountBalance does: the balance it writes is that of the leg's copy, and passes
\* the CHECK of the table.
LEMMA UpdateAccountBalanceKeepsInv ==
  ASSUME Inv, NEW r \in Request, UpdateAccountBalance(r)
  PROVE  Inv'
<1> DEFINE a == AccountOf(r, step[r])
           b == copies[r][a].balance
<1>0. pc[r] = "update"
  BY DEF UpdateAccountBalance
<1>1. CASE Fail(r, "internal")
  BY <1>1, FailKeepsInv DEF Reply
<1>2. CASE /\ UpdateRow(r, a, b)
           /\ IF LastLeg(r)
              THEN /\ pc' = [pc EXCEPT ![r] = "insert"]
                   /\ step' = [step EXCEPT ![r] = 1]
                   /\ \E times \in Readings(r) :
                        /\ stamp' = [stamp EXCEPT ![r] = times]
                        /\ clock' = times[Len(times)]
              ELSE /\ step' = [step EXCEPT ![r] = @ + 1]
                   /\ UNCHANGED <<pc, stamp, clock>>
           /\ UNCHANGED <<op, queue, copies, reply, published>>
  <2>0. RequestInv(r)
    BY DEF Inv
  <2>1. /\ LegCount(r) \in {1, 2} /\ step[r] \in 1..LegCount(r)
        /\ a \in Account /\ \A i \in 1..LegCount(r) : AccountOf(r, i) \in Account
        /\ op[r].kind # "transfer" => LegCount(r) = 1
    BY <1>0, AdmittedFacts, LegsOfInput DEF Admitted, Inside, LegCount
  <2>2. b \in 0..MaxInt
    <3>1. copies[r][a] # Nil /\ copies[r][a] = Expected(r, Legs(op[r])[step[r]])
      BY <1>0, <2>0, <2>1 DEF RequestInv, FreshInv, LegsInv
    <3>2. copies[r][a] \in AccountCopy
      BY <2>1, <3>1 DEF Inv, TypeOK
    <3>3. b >= 0 /\ b \in Int
      BY <1>2, <3>2 DEF UpdateRow, BalanceCheck, AccountCopy
    <3>4. accounts[a] \in AccountRow
      <4>1. lock[a] = r
        BY <1>0, <2>0, <2>1, <3>1 DEF RequestInv, FreshInv
      <4> QED BY <2>1, <4>1, NilIsNothingElse DEF Inv, TypeOK, PostgresTypeOK
    <3>5. b = Wrap(accounts[a].balance + Change(Legs(op[r])[step[r]].type, op[r].amount))
      BY <3>1, <3>4 DEF Expected, AccountOf, AccountRow
    <3>6. Change(Legs(op[r])[step[r]].type, op[r].amount) \in {op[r].amount, -op[r].amount}
          /\ op[r].amount \in 1..MaxInt
      BY <1>0, AdmittedFacts DEF Change, Admitted, Inside
    <3>7. b <= MaxInt
      BY <3>3, <3>4, <3>5, <3>6, MaxIntAssumption DEF AccountRow, Wrap, MaxIntAssumption
    <3> QED BY <3>3, <3>7
  <2> HIDE DEF b
  <2>3. TypeOK'
    <3>1. PostgresTypeOK'
      BY <1>2, <2>1, <2>2 DEF UpdateRow, Inv, TypeOK, PostgresTypeOK
    <3>2. pc' \in [Request -> ProgramCounter]
      BY <1>2 DEF Inv, TypeOK, ProgramCounter
    <3>3. step' \in [Request -> {1, 2}]
      <4>1. step \in [Request -> {1, 2}] /\ step[r] \in 1..LegCount(r) /\ LegCount(r) \in {1, 2}
        BY <2>1 DEF Inv, TypeOK
      <4>2. CASE step' = [step EXCEPT ![r] = 1]
        BY <4>1, <4>2
      <4>3. CASE step' = [step EXCEPT ![r] = @ + 1] /\ ~LastLeg(r)
        <5>0. step[r] # LegCount(r)
          BY <4>3 DEF LastLeg, LegCount
        <5>1. step[r] + 1 \in {1, 2}
          BY <4>1, <5>0
        <5> QED BY <4>1, <4>3, <5>1
      <4> QED BY <1>2, <4>2, <4>3
    <3>4. stamp' \in [Request -> Seq(Nat)] /\ clock' \in Nat
      <4>1. \A times \in Readings(r) : times \in Seq(Nat) /\ times[Len(times)] \in Nat
        BY ReadingsAreTimes
      <4>2. stamp \in [Request -> Seq(Nat)] /\ clock \in Nat
        BY DEF Inv, TypeOK
      <4>3. CASE \E times \in Readings(r) : /\ stamp' = [stamp EXCEPT ![r] = times]
                                            /\ clock' = times[Len(times)]
        BY <4>1, <4>2, <4>3
      <4>4. CASE UNCHANGED <<stamp, clock>>
        BY <4>2, <4>4
      <4> QED BY <1>2, <4>3, <4>4
    <3> QED BY <1>2, <3>1, <3>2, <3>3, <3>4 DEF Inv, TypeOK
  <2>4. \A c \in Account : lock'[c] # Nil => accounts'[c] # Nil
    BY <1>2 DEF Inv, UpdateRow
  <2>5. \A u \in Request \ {r} : Untouched(u)
    BY <1>2 DEF Untouched, UpdateRow, Inv, TypeOK, PostgresTypeOK
  <2>6. RequestInv(r)'
    <3>1. /\ op'[r] = op[r] /\ queue'[r] = queue[r] /\ copies'[r] = copies[r]
          /\ inserts'[r] = inserts[r] /\ UNCHANGED <<accounts, lock, active>>
          /\ \A c \in Account : writes'[r][c] = IF c = a THEN b ELSE writes[r][c]
      BY <1>2, <2>1 DEF UpdateRow, Inv, TypeOK, PostgresTypeOK
    <3>2. /\ pc'[r] \in {"update", "insert"}
          /\ pc'[r] = "update" => step'[r] = step[r] + 1 /\ step[r] # LegCount(r)
          /\ pc'[r] = "insert" => /\ step'[r] = 1 /\ step[r] = LegCount(r)
                                  /\ stamp'[r] \in Readings(r)
      BY <1>0, <1>2 DEF LastLeg, LegCount, Inv, TypeOK
    <3>3. AdmittedInv(r)' /\ LockingInv(r)' /\ TransactionInv(r)'
      <4>1. step'[r] \in 1..LegCount(r)
        BY <2>1, <3>2
      <4>2. AdmittedInv(r)'
        BY <1>0, <2>0, <3>1, <3>2, <4>1 DEF RequestInv, AdmittedInv, Admitted, Inside, LegCount
      <4> QED BY <1>0, <2>0, <3>1, <3>2, <4>2
              DEF RequestInv, LockingInv, TransactionInv, Inside
    <3>4. FreshInv(r)' /\ LegsInv(r)'
      BY <1>0, <2>0, <3>1, <3>2
         DEF RequestInv, FreshInv, LegsInv, LegCount, AccountOf, Expected
    <3>5. Updated(r)' = step[r] /\ Updated(r) = step[r] - 1
      BY <1>0, <2>1, <3>1, <3>2 DEF Updated, LegCount
    <3>6. WritesInv(r)'
      <4>1. ASSUME NEW i \in 1..step[r]
            PROVE  /\ copies[r][AccountOf(r, i)].balance \in 0..MaxInt
                   /\ writes'[r][AccountOf(r, i)] = copies[r][AccountOf(r, i)].balance
        <5>1. CASE i = step[r]
          BY <2>1, <2>2, <3>1, <5>1 DEF b
        <5>2. CASE i # step[r]
          <6>1. i \in 1..Updated(r) /\ i \in 1..LegCount(r) /\ step[r] \in 1..LegCount(r)
            BY <2>1, <3>5, <5>2
          <6>2. AccountOf(r, i) # a
            BY <1>0, <2>0, <5>2, <6>1 DEF RequestInv, LegsInv
          <6> QED BY <1>0, <2>0, <2>1, <3>1, <6>1, <6>2 DEF RequestInv, WritesInv
        <5> QED BY <5>1, <5>2
      <4>2. ASSUME NEW c \in Account, writes'[r][c] # Nil
            PROVE  \E i \in 1..step[r] : AccountOf(r, i) = c
        <5>1. CASE c = a
          BY <2>1, <5>1
        <5>2. CASE c # a
          <6>1. PICK i \in 1..Updated(r) : AccountOf(r, i) = c
            BY <2>0, <3>1, <4>2, <5>2 DEF RequestInv, WritesInv
          <6>2. i \in 1..step[r]
            BY <2>1, <3>5
          <6> QED BY <6>1, <6>2
        <5> QED BY <5>1, <5>2
      <4>3. \A i \in 1..step[r] : AccountOf(r, i)' = AccountOf(r, i)
        BY <3>1 DEF AccountOf
      <4> QED BY <3>1, <3>2, <3>5, <4>1, <4>2, <4>3 DEF WritesInv
    <3>7. InsertsInv(r)'
      <4>1. Inserted(r)' = 0 /\ Inserted(r) = 0
        BY <1>0, <3>2 DEF Inserted
      <4>2. \A i \in 1..0 : FALSE
        OBVIOUS
      <4>3. ASSUME pc'[r] = "insert", NEW i \in 1..LegCount(r)
            PROVE  stamp'[r][i] \in Nat
        <5>1. stamp'[r] \in Readings(r)
          BY <3>2, <4>3
        <5>2. i = 1 \/ (i = 2 /\ op[r].kind = "transfer")
          BY <2>1
        <5> QED BY <5>1, <5>2, ReadingsAreTimes
      <4> QED BY <2>0, <3>1, <3>2, <4>1, <4>2, <4>3 DEF RequestInv, InsertsInv, LegCount
    <3> QED BY <3>3, <3>4, <3>6, <3>7 DEF RequestInv
  <2> QED BY <2>3, <2>4, <2>5, <2>6, OneMoves
<1> QED BY <1>1, <1>2 DEF UpdateAccountBalance, Leg, AccountOf

\* CreateTransaction does: the row it appends is the leg's, and of the table's type.
LEMMA CreateTransactionKeepsInv ==
  ASSUME Inv, NEW r \in Request, CreateTransaction(r)
  PROVE  Inv'
<1> DEFINE row == NewTransaction(r, step[r])
<1>0. /\ pc[r] = "insert" /\ RequestInv(r)
      /\ inserts' = [inserts EXCEPT ![r] = Append(@, row)]
      /\ UNCHANGED <<accounts, journal, active, lock, stale, writes>>
      /\ UNCHANGED <<op, queue, copies, stamp, reply, published, clock>>
  BY DEF CreateTransaction, InsertRow, Inv
<1>1. /\ LegCount(r) \in {1, 2} /\ step[r] \in 1..LegCount(r)
      /\ \A i \in 1..LegCount(r) : AccountOf(r, i) \in Account
  BY <1>0, AdmittedFacts DEF Admitted, Inside
<1>2. \/ step[r] = LegCount(r) /\ pc' = [pc EXCEPT ![r] = "commit"] /\ step' = [step EXCEPT ![r] = 1]
      \/ step[r] # LegCount(r) /\ pc' = pc /\ step' = [step EXCEPT ![r] = @ + 1]
  BY DEF CreateTransaction, LastLeg, LegCount
<1>3. row \in TransactionRow
  <2>1. /\ op[r].amount \in 1..MaxInt /\ op[r].actor.user \in User
        /\ Legs(op[r])[step[r]].account \in Account
        /\ Legs(op[r])[step[r]].counterparty \in Account \cup {Nil}
        /\ Legs(op[r])[step[r]].type \in TransactionType
    BY <1>0, <1>1, AdmittedFacts DEF Admitted, Inside, AccountOf
  <2>2. stamp[r][step[r]] \in Nat
    BY <1>0, <1>1 DEF RequestInv, InsertsInv
  <2>3. copies[r][Legs(op[r])[step[r]].account].balance \in 0..MaxInt
    <3>1. Updated(r) = LegCount(r)
      BY <1>0 DEF Updated
    <3> QED BY <1>0, <1>1, <3>1 DEF RequestInv, WritesInv, AccountOf
  <2>4. <<r, step[r]>> \in Request \X {1, 2}
    BY <1>1
  <2> QED BY <2>1, <2>2, <2>3, <2>4 DEF NewTransaction, TransactionRow
<1> HIDE DEF row
<1>4. TypeOK'
  <2>1. inserts' \in [Request -> Seq(TransactionRow)]
    BY <1>0, <1>3 DEF Inv, TypeOK, PostgresTypeOK
  <2>2. pc' \in [Request -> ProgramCounter]
    BY <1>2 DEF Inv, TypeOK, ProgramCounter
  <2>3. step' \in [Request -> {1, 2}]
    <3>1. CASE step' = [step EXCEPT ![r] = 1]
      BY <3>1 DEF Inv, TypeOK
    <3>2. CASE step[r] # LegCount(r) /\ step' = [step EXCEPT ![r] = @ + 1]
      <4>1. step[r] + 1 \in {1, 2}
        BY <1>1, <3>2
      <4> QED BY <3>2, <4>1 DEF Inv, TypeOK
    <3> QED BY <1>2, <3>1, <3>2
  <2> QED BY <1>0, <2>1, <2>2, <2>3 DEF Inv, TypeOK, PostgresTypeOK
<1>5. \A a \in Account : lock'[a] # Nil => accounts'[a] # Nil
  BY <1>0 DEF Inv
<1>6. \A u \in Request \ {r} : Untouched(u)
  BY <1>0, <1>2 DEF Untouched, Inv, TypeOK, PostgresTypeOK
<1>7. RequestInv(r)'
  <2>1. /\ pc'[r] \in {"insert", "commit"}
        /\ pc'[r] = "insert" => step'[r] = step[r] + 1 /\ step[r] # LegCount(r)
        /\ pc'[r] = "commit" => step'[r] = 1 /\ step[r] = LegCount(r)
    BY <1>0, <1>2 DEF Inv, TypeOK
  <2>2. AdmittedInv(r)'
    <3>1. step'[r] \in 1..LegCount(r)
      BY <1>1, <2>1
    <3> QED BY <1>0, <2>1, <3>1 DEF RequestInv, AdmittedInv, Admitted, Inside, LegCount
  <2>3. LockingInv(r)' /\ TransactionInv(r)'
    BY <1>0, <2>1 DEF RequestInv, LockingInv, TransactionInv, Inside
  <2>4. FreshInv(r)' /\ LegsInv(r)'
    BY <1>0, <2>1 DEF RequestInv, FreshInv, LegsInv, LegCount, AccountOf, Expected
  <2>5. WritesInv(r)'
    <3>1. Updated(r)' = Updated(r)
      BY <1>0, <2>1 DEF Updated, LegCount
    <3> QED BY <1>0, <2>1, <3>1 DEF RequestInv, WritesInv, AccountOf
  <2>6. InsertsInv(r)'
    <3>1. Inserted(r)' = step[r] /\ Inserted(r) = step[r] - 1 /\ Len(inserts[r]) = step[r] - 1
      BY <1>0, <1>1, <2>1 DEF RequestInv, InsertsInv, Inserted, LegCount
    <3>2. /\ inserts[r] \in Seq(TransactionRow) /\ inserts'[r] = Append(inserts[r], row)
      BY <1>0 DEF Inv, TypeOK, PostgresTypeOK
    <3>3. Len(inserts'[r]) = step[r]
      BY <1>1, <1>3, <3>1, <3>2
    <3>4. ASSUME NEW i \in 1..step[r]
          PROVE  inserts'[r][i] = NewTransaction(r, i)
      <4>1. CASE i = step[r]
        BY <1>1, <1>3, <3>1, <3>2, <4>1 DEF row
      <4>2. CASE i # step[r]
        <5>1. i \in 1..Inserted(r) /\ i \in 1..Len(inserts[r])
          BY <1>1, <3>1, <4>2
        <5>2. inserts'[r][i] = inserts[r][i]
          BY <1>3, <3>2, <5>1
        <5> QED BY <1>0, <5>1, <5>2 DEF RequestInv, InsertsInv
      <4> QED BY <4>1, <4>2
    <3>5. \A i \in 1..step[r] : NewTransaction(r, i)' = NewTransaction(r, i)
      BY <1>0 DEF NewTransaction
    <3> QED BY <1>0, <2>1, <3>1, <3>3, <3>4, <3>5 DEF RequestInv, InsertsInv, LegCount
  <2> QED BY <2>2, <2>3, <2>4, <2>5, <2>6 DEF RequestInv
<1> QED BY <1>4, <1>5, <1>6, <1>7, OneMoves

\* What a commit does to the two tables, and that it touches no other request.
LEMMA CommitFacts ==
  ASSUME Inv, NEW r \in Request, pc[r] = "commit", CommitTx(r)
  PROVE  /\ PostgresTypeOK'
         /\ \A a \in Account : lock'[a] # Nil => accounts'[a] # Nil
         /\ \A a \in Account : lock'[a] # r
         /\ r \notin active'
         /\ \A a \in Account : writes'[r][a] = Nil
         /\ Len(inserts'[r]) = 0
         /\ \A u \in Request \ {r} :
              /\ writes'[u] = writes[u] /\ inserts'[u] = inserts[u]
              /\ u \in active' <=> u \in active
              /\ \A a \in Account : lock'[a] = u <=> lock[a] = u
              /\ \A a \in Account : lock[a] = u => accounts'[a] = accounts[a]
<1> USE DEF CommitTx, CloseTx
<1>0. RequestInv(r) /\ PostgresTypeOK
  BY DEF Inv, TypeOK
<1>1. ASSUME NEW a \in Written(r)
      PROVE  /\ a \in Account /\ lock[a] = r /\ accounts[a] \in AccountRow
             /\ writes[r][a] \in 0..MaxInt
  <2>1. a \in Account /\ writes[r][a] # Nil
    BY DEF Written
  <2>2. PICK i \in 1..LegCount(r) : AccountOf(r, i) = a
    BY <1>0, <2>1 DEF RequestInv, WritesInv, Updated
  <2>3. lock[a] = r
    BY <1>0, <2>1, <2>2 DEF RequestInv, LegsInv, FreshInv
  <2> QED BY <1>0, <2>1, <2>3, NilIsNothingElse DEF Inv, PostgresTypeOK
<1>2. accounts' \in [Account -> AccountRow \cup {Nil}]
  <2>1. ASSUME NEW a \in Written(r)
        PROVE  [accounts[a] EXCEPT !.balance = writes[r][a]] \in AccountRow
    BY <1>1 DEF AccountRow
  <2> QED BY <1>0, <2>1 DEF PostgresTypeOK
<1>3. PostgresTypeOK'
  <2>1. /\ journal' \in Seq(TransactionRow)
        /\ active' \in SUBSET Request
        /\ lock' \in [Account -> Request \cup {Nil}]
    BY <1>0 DEF PostgresTypeOK
  <2>2. stale' \in [Request -> SUBSET Account]
    BY <1>0 DEF PostgresTypeOK, Written
  <2>3. writes' \in [Request -> [Account -> 0..MaxInt \cup {Nil}]]
    BY <1>0 DEF PostgresTypeOK, NoWrites
  <2>4. inserts' \in [Request -> Seq(TransactionRow)]
    BY <1>0 DEF PostgresTypeOK
  <2> QED BY <1>2, <2>1, <2>2, <2>3, <2>4 DEF PostgresTypeOK
<1>4. \A a \in Account : lock'[a] # Nil => accounts'[a] # Nil
  <2>1. ASSUME NEW a \in Account, lock'[a] # Nil
        PROVE  accounts'[a] # Nil
    <3>1. lock[a] # Nil /\ lock[a] # r
      BY <2>1
    <3>2. a \notin Written(r)
      BY <1>1, <3>1
    <3> QED BY <3>1, <3>2 DEF Inv
  <2> QED BY <2>1
<1>5. \A a \in Account : lock'[a] # r
  BY NilIsNothingElse
<1>6. /\ r \notin active'
      /\ \A a \in Account : writes'[r][a] = Nil
      /\ Len(inserts'[r]) = 0
  BY DEF NoWrites
<1>7. ASSUME NEW u \in Request \ {r}
      PROVE  /\ writes'[u] = writes[u] /\ inserts'[u] = inserts[u]
             /\ u \in active' <=> u \in active
             /\ \A a \in Account : lock'[a] = u <=> lock[a] = u
             /\ \A a \in Account : lock[a] = u => accounts'[a] = accounts[a]
  <2>1. \A a \in Account : lock[a] = u => a \notin Written(r)
    BY <1>1
  <2>2. \A a \in Account : lock'[a] = u <=> lock[a] = u
    BY NilIsNothingElse
  <2> QED BY <2>1, <2>2
<1> QED BY <1>3, <1>4, <1>5, <1>6, <1>7

\* COMMIT does: it changes only rows the request had locked, so no other copy gets stale.
LEMMA CommitKeepsInv ==
  ASSUME Inv, NEW r \in Request, Commit(r)
  PROVE  Inv'
<1>0. /\ pc[r] = "commit" /\ CommitTx(r) /\ RequestInv(r)
      /\ pc' = [pc EXCEPT ![r] = "publish"]
      /\ UNCHANGED <<op, queue, copies, step, stamp, reply, published, clock>>
  BY DEF Commit, Inv
<1>1. TypeOK'
  BY <1>0, CommitFacts DEF Inv, TypeOK, ProgramCounter
<1>2. \A u \in Request \ {r} : Untouched(u)
  BY <1>0, CommitFacts DEF Untouched, Inv, TypeOK
<1>3. RequestInv(r)'
  <2>1. /\ pc'[r] = "publish" /\ op'[r] = op[r] /\ copies'[r] = copies[r]
        /\ step'[r] = step[r] /\ stamp'[r] = stamp[r]
        /\ r \notin active' /\ \A a \in Account : lock'[a] # r /\ writes'[r][a] = Nil
        /\ Len(inserts'[r]) = 0
    BY <1>0, CommitFacts DEF Inv, TypeOK
  <2>2. AdmittedInv(r)' /\ LockingInv(r)' /\ TransactionInv(r)' /\ FreshInv(r)'
    BY <1>0, <2>1 DEF RequestInv, AdmittedInv, LockingInv, TransactionInv, FreshInv,
                      Admitted, Inside, LegCount
  <2>3. LegsInv(r)'
    BY <1>0, <2>1 DEF RequestInv, LegsInv, LegCount, AccountOf
  <2>4. WritesInv(r)'
    <3>1. Updated(r)' = Updated(r)
      BY <1>0, <2>1 DEF Updated, LegCount
    <3> QED BY <1>0, <2>1, <3>1 DEF RequestInv, WritesInv, AccountOf
  <2>5. InsertsInv(r)'
    <3>1. Inserted(r)' = 0
      BY <2>1 DEF Inserted
    <3>2. \A i \in 1..0 : FALSE
      OBVIOUS
    <3> QED BY <1>0, <2>1, <3>1, <3>2 DEF RequestInv, InsertsInv, LegCount
  <2> QED BY <2>2, <2>3, <2>4, <2>5 DEF RequestInv
<1> QED BY <1>0, <1>1, <1>2, <1>3, CommitFacts, OneMoves

\* So does a COMMIT of which the service never hears.
LEMMA CommitUnacknowledgedKeepsInv ==
  ASSUME Inv, NEW r \in Request, CommitUnacknowledged(r)
  PROVE  Inv'
<1>0. /\ pc[r] = "commit" /\ CommitTx(r) /\ RequestInv(r)
      /\ Return({r}, "internal") /\ clock' = clock
  BY DEF CommitUnacknowledged, Inv
<1>1. TypeOK'
  <2>1. /\ pc' \in [Request -> ProgramCounter]
        /\ op' \in [Request -> MoneyInput \cup TransferInput \cup {Nil}]
        /\ queue' \in [Request -> SUBSET Spelling]
        /\ copies' \in [Request -> [Account -> AccountCopy \cup {Nil}]]
        /\ step' \in [Request -> {1, 2}]
        /\ stamp' \in [Request -> Seq(Nat)]
        /\ reply' \in [Request -> Reply]
    BY <1>0 DEF Return, Inv, TypeOK, ProgramCounter, Reply, NoCopies
  <2> QED BY <1>0, <2>1, CommitFacts DEF Inv, TypeOK
<1>2. \A u \in Request \ {r} : Untouched(u)
  BY <1>0, CommitFacts DEF Untouched, Return
<1>3. RequestInv(r)'
  <2>1. /\ pc'[r] = "done" /\ copies'[r] = NoCopies
        /\ r \notin active' /\ \A a \in Account : lock'[a] # r /\ writes'[r][a] = Nil
        /\ Len(inserts'[r]) = 0
    BY <1>0, CommitFacts DEF Return
  <2>2. AdmittedInv(r)' /\ LockingInv(r)' /\ LegsInv(r)'
    BY <2>1 DEF AdmittedInv, LockingInv, LegsInv, Admitted, Inside
  <2>3. TransactionInv(r)' /\ FreshInv(r)'
    BY <2>1 DEF TransactionInv, FreshInv, Inside, NoCopies
  <2>4. Updated(r)' = 0 /\ Inserted(r)' = 0
    BY <2>1 DEF Updated, Inserted
  <2>5. \A i \in 1..Updated(r)' : FALSE
    BY <2>4
  <2>6. WritesInv(r)'
    BY <2>1, <2>5 DEF WritesInv
  <2>7. InsertsInv(r)'
    BY <2>1, <2>4 DEF InsertsInv
  <2> QED BY <2>2, <2>3, <2>6, <2>7 DEF RequestInv
<1> QED BY <1>0, <1>1, <1>2, <1>3, CommitFacts, OneMoves

\* Handing an event to the publisher preserves the invariant.
LEMMA PublishKeepsInv ==
  ASSUME Inv, NEW r \in Request, Publish(r)
  PROVE  Inv'
<1>0. /\ pc[r] = "publish" /\ RequestInv(r) /\ UNCHANGED dbVars /\ clock' = clock
  BY DEF Publish, Inv, dbVars
<1>1. CASE Return({r}, "ok")
  BY <1>0, <1>1, ReturnKeepsInv DEF Reply
<1>2. CASE /\ ~LastLeg(r)
           /\ step' = [step EXCEPT ![r] = @ + 1]
           /\ UNCHANGED <<pc, op, queue, copies, stamp, reply>>
  <2>1. /\ LegCount(r) \in {1, 2} /\ step[r] \in 1..LegCount(r)
    BY <1>0, AdmittedFacts DEF Admitted
  <2>2. step[r] # LegCount(r)
    BY <1>2 DEF LastLeg, LegCount
  <2>3. step[r] + 1 \in 1..LegCount(r) /\ step[r] + 1 \in {1, 2}
    BY <2>1, <2>2
  <2>4. TypeOK'
    BY <1>0, <1>2, <2>3 DEF dbVars, Inv, TypeOK, PostgresTypeOK
  <2>5. \A a \in Account : lock'[a] # Nil => accounts'[a] # Nil
    BY <1>0 DEF Inv, dbVars
  <2>6. \A u \in Request \ {r} : Untouched(u)
    BY <1>0, <1>2 DEF Untouched, dbVars, Inv, TypeOK
  <2>7. RequestInv(r)'
    <3>1. step'[r] = step[r] + 1
      BY <1>2 DEF Inv, TypeOK
    <3>2. AdmittedInv(r)' /\ LockingInv(r)' /\ TransactionInv(r)'
      BY <1>0, <1>2, <2>3, <3>1
         DEF RequestInv, AdmittedInv, LockingInv, TransactionInv, LegCount, dbVars
    <3>3. FreshInv(r)' /\ LegsInv(r)'
      BY <1>0, <1>2 DEF RequestInv, FreshInv, LegsInv, LegCount, AccountOf, dbVars
    <3>4. Updated(r)' = Updated(r) /\ Inserted(r)' = 0 /\ Inserted(r) = 0
      BY <1>0, <1>2 DEF Updated, Inserted, LegCount
    <3>5. WritesInv(r)'
      BY <1>0, <1>2, <3>4 DEF RequestInv, WritesInv, AccountOf, dbVars
    <3>6. \A i \in 1..0 : FALSE
      OBVIOUS
    <3>7. InsertsInv(r)'
      BY <1>0, <1>2, <3>4, <3>6 DEF RequestInv, InsertsInv, LegCount, dbVars
    <3> QED BY <3>2, <3>3, <3>5, <3>7 DEF RequestInv
  <2> QED BY <2>4, <2>5, <2>6, <2>7, OneMoves
<1> QED BY <1>1, <1>2 DEF Publish
\* A failing statement, and a request the deadlock detector picks.
LEMMA FailuresKeepInv ==
  ASSUME Inv, NEW r \in Request, StatementFails(r) \/ BreakDeadlock(r)
  PROVE  Inv'
<1>1. Fail(r, "internal")
  BY DEF StatementFails, BreakDeadlock
<1> QED BY <1>1, FailKeepsInv DEF Reply

\* The service dies: the open transactions are those of requests in flight.
LEMMA CrashKeepsInv ==
  ASSUME Inv, Crash
  PROVE  Inv'
<1> DEFINE inFlight == {r \in Request : pc[r] \notin {"idle", "done"}}
<1>1. RollbackTx(active) /\ Return(inFlight, "none") /\ clock' = clock
  BY DEF Crash
<1>2. active \in SUBSET Request
  BY DEF Inv, TypeOK, PostgresTypeOK
<1>3. active \subseteq inFlight
  <2>1. ASSUME NEW r \in active
        PROVE  r \in inFlight
    BY <1>2 DEF Inv, RequestInv, TransactionInv, Inside
  <2> QED BY <2>1
<1>4. inFlight \in SUBSET Request /\ "none" \in Reply
  BY DEF Reply
<1> HIDE DEF inFlight
<1> QED BY <1>1, <1>2, <1>3, <1>4, EndKeepsInv

\* Steps that leave every request and every row alone.
LEMMA IdleStepKeepsInv ==
  ASSUME Inv, UNCHANGED dbVars, clock' \in Nat,
         UNCHANGED <<pc, op, queue, copies, step, stamp, reply>>
  PROVE  Inv'
<1>1. TypeOK'
  BY DEF Inv, TypeOK, PostgresTypeOK, dbVars
<1>2. \A a \in Account : lock'[a] # Nil => accounts'[a] # Nil
  BY DEF Inv, dbVars
<1>3. \A u \in Request : Untouched(u)
  BY DEF Untouched, dbVars
<1> QED BY <1>1, <1>2, <1>3, UntouchedKeepsInv DEF Inv
-----------------------------------------------------------------------------
\* When the service starts nothing is locked, open or in flight.
LEMMA InitInv ==
  ASSUME Init
  PROVE  Inv
<1> USE DEF Init, PostgresInit
<1>1. TypeOK
  <2>1. PostgresTypeOK
    BY OpeningAssumption DEF PostgresTypeOK, OpeningAssumption, NoWrites
  <2> QED BY <2>1 DEF TypeOK, ProgramCounter, Reply, NoCopies
<1>2. ASSUME NEW r \in Request
      PROVE  RequestInv(r)
  <2>1. /\ AdmittedInv(r) /\ LockingInv(r) /\ LegsInv(r)
    BY DEF AdmittedInv, LockingInv, LegsInv, Admitted, Inside
  <2>2. TransactionInv(r) /\ FreshInv(r)
    BY NilIsNothingElse DEF TransactionInv, FreshInv, Inside, NoCopies
  <2>3. Updated(r) = 0 /\ Inserted(r) = 0
    BY DEF Updated, Inserted
  <2>4. \A i \in 1..0 : FALSE
    OBVIOUS
  <2>5. WritesInv(r)
    BY <2>3, <2>4 DEF WritesInv, NoWrites
  <2>6. InsertsInv(r)
    BY <2>3, <2>4 DEF InsertsInv
  <2> QED BY <2>1, <2>2, <2>5, <2>6 DEF RequestInv
<1> QED BY <1>1, <1>2 DEF Inv

\* Every step of the ledger preserves the invariant.
LEMMA NextKeepsInv ==
  ASSUME Inv, [Next]_vars
  PROVE  Inv'
<1>1. ASSUME NEW r \in Request, Advance(r)
      PROVE  Inv'
  BY <1>1, BeginKeepsInv, LockAccountKeepsInv, ApplyKeepsInv, DepositKeepsInv,
     WithdrawKeepsInv, TransferKeepsInv, UpdateAccountBalanceKeepsInv,
     CreateTransactionKeepsInv, CommitKeepsInv, PublishKeepsInv DEF Advance
<1>2. ASSUME NEW r \in Request,
             \/ Receive(r) \/ CreateAccount(r)
             \/ CommitUnacknowledged(r) \/ StatementFails(r) \/ BreakDeadlock(r)
      PROVE  Inv'
  BY <1>2, ReceiveKeepsInv, CreateAccountKeepsInv, CommitUnacknowledgedKeepsInv,
     FailuresKeepInv
<1>3. CASE Crash
  BY <1>3, CrashKeepsInv
<1>4. CASE Tick
  <2>1. clock + 1 \in Nat
    BY DEF Inv, TypeOK
  <2> QED BY <1>4, <2>1, IdleStepKeepsInv DEF Tick
<1>5. CASE AllDone \/ UNCHANGED vars
  <2>1. clock \in Nat
    BY DEF Inv, TypeOK
  <2> QED BY <1>5, <2>1, IdleStepKeepsInv DEF AllDone, vars, dbVars
<1> QED BY <1>1, <1>2, <1>3, <1>4, <1>5 DEF Next
-----------------------------------------------------------------------------
\* The invariant holds of every reachable state.
THEOREM InvHolds == Spec => []Inv
<1>1. Init => Inv
  BY InitInv
<1>2. Inv /\ [Next]_vars => Inv'
  BY NextKeepsInv
<1> QED BY <1>1, <1>2, PTL DEF Spec

\* Every variable keeps its type: however many requests run, and although a
\* deposit may wrap, no committed and no uncommitted balance is ever negative.
THEOREM TypeCorrect == Spec => []TypeOK
<1>1. Inv => TypeOK
  BY DEF Inv
<1> QED BY <1>1, InvHolds, PTL

\* From reading a row to its commit nobody else changes it: the checks a handler
\* made and the balances it computed are those of the rows it overwrites.
THEOREM FreshDecisions == Spec => []DecisionsAreFresh
<1>1. Inv => DecisionsAreFresh
  <2> SUFFICES ASSUME Inv, NEW r \in Request
               PROVE  /\ pc[r] \in {"lock", "apply"} =>
                           \A a \in Account : copies[r][a] \in {Nil, accounts[a]}
                      /\ pc[r] \in {"update", "insert", "commit"} =>
                           \A i \in DOMAIN Legs(op[r]) :
                             LET leg == Legs(op[r])[i]
                             IN  copies[r][leg.account] = Expected(r, leg)
                      /\ pc[r] # "publish" =>
                           \A a \in Account : copies[r][a] # Nil => lock[a] = r
    BY DEF DecisionsAreFresh
  <2>1. FreshInv(r)
    BY DEF Inv, RequestInv
  <2>2. ASSUME pc[r] \in {"update", "insert", "commit"}
        PROVE  DOMAIN Legs(op[r]) = 1..LegCount(r)
    <3>1. Legs(op[r]) \in Seq(Leg1)
      BY <2>2, AdmittedFacts DEF Admitted, Inside
    <3> QED BY <3>1 DEF LegCount
  <2> QED BY <2>1, <2>2 DEF FreshInv, AccountOf
<1> QED BY <1>1, InvHolds, PTL

\* Connections and row locks are held only inside WithinTx: whatever way a request
\* returns, fails or dies, it has given them back.
THEOREM NothingIsLeaked == Spec => []NothingLeaks
<1>1. Inv => NothingLeaks
  <2> SUFFICES ASSUME Inv
               PROVE  NothingLeaks
    OBVIOUS
  <2>1. ASSUME NEW a \in Account, lock[a] # Nil
        PROVE  lock[a] \in active
    <3>1. lock[a] \in Request
      BY <2>1 DEF Inv, TypeOK, PostgresTypeOK
    <3> QED BY <3>1 DEF Inv, RequestInv, TransactionInv
  <2>2. \A r \in Request :
          r \in active <=> pc[r] \in {"lock", "apply", "update", "insert", "commit"}
    BY DEF Inv, RequestInv, TransactionInv, Inside
  <2> QED BY <2>1, <2>2 DEF NothingLeaks
<1> QED BY <1>1, InvHolds, PTL
-----------------------------------------------------------------------------
\* Waiting, when every text is the canonical one of its account.

\* Whoever is locking after this step was before it, and holds no more rows.
NobodyLocks ==
  \A r \in Request : pc'[r] = "lock" =>
    /\ pc[r] = "lock" /\ queue'[r] = queue[r]
    /\ \A a \in Account : lock'[a] = r => lock[a] = r

LEMMA EndLocksNothing ==
  ASSUME Inv, NEW T \in SUBSET Request, NEW R \in SUBSET Request,
         CloseTx(T), \E status : Return(R, status)
  PROVE  NobodyLocks
<1>1. \A a \in Account : lock'[a] # Nil => lock'[a] = lock[a]
  BY DEF CloseTx
<1> QED BY <1>1, NilIsNothingElse DEF NobodyLocks, Return

LEMMA FailLocksNothing ==
  ASSUME Inv, NEW r \in Request, NEW status, Fail(r, status)
  PROVE  NobodyLocks
BY EndLocksNothing DEF Fail, RollbackTx

\* Locking the next row keeps the order, since the next one is the least.
LEMMA LockAccountKeepsOrder ==
  ASSUME Spelling = Account, Inv, OrderInv, NEW r \in Request, LockAccount(r)
  PROVE  OrderInv'
<1>1. CASE \E status : Fail(r, status)
  BY <1>1, FailLocksNothing DEF NobodyLocks, OrderInv
<1>2. CASE /\ LockRow(r, Wanted(r))
           /\ queue' = [queue EXCEPT ![r] = @ \ {NextToLock(r)}]
           /\ pc' = [pc EXCEPT ![r] = IF queue'[r] = {} THEN "apply" ELSE "lock"]
  <2>1. /\ pc[r] = "lock" /\ queue[r] \subseteq Account /\ queue[r] # {}
        /\ queue \in [Request -> SUBSET Spelling] /\ pc \in [Request -> ProgramCounter]
        /\ lock \in [Account -> Request \cup {Nil}]
    BY DEF LockAccount, Inv, TypeOK, PostgresTypeOK, RequestInv, LockingInv
  <2>2. Account \subseteq Nat
    BY SpellingAssumption DEF SpellingAssumption
  <2>3. /\ NextToLock(r) \in queue[r]
        /\ \A s \in queue[r] : NextToLock(r) <= s
    BY <2>1, <2>2, LeastNumber DEF NextToLock
  <2>4. Wanted(r) = NextToLock(r)
    BY <2>1, <2>3, DenotesAccount DEF Wanted
  <2>5. ASSUME NEW u \in Request, pc'[u] = "lock", NEW a \in Account, lock'[a] = u,
               NEW s \in queue'[u]
        PROVE  a < s
    <3>1. CASE u # r
      BY <1>2, <2>1, <2>5, <3>1 DEF LockRow, OrderInv
    <3>2. CASE u = r /\ a # Wanted(r)
      BY <1>2, <2>1, <2>5, <3>2 DEF LockRow, OrderInv
    <3>3. CASE u = r /\ a = Wanted(r)
      <4>1. s \in queue[r] /\ s # a
        BY <1>2, <2>1, <2>4, <2>5, <3>3
      <4> QED BY <2>1, <2>2, <2>3, <2>4, <3>3, <4>1
    <3> QED BY <3>1, <3>2, <3>3
  <2> QED BY <2>5 DEF OrderInv
<1> QED BY <1>1, <1>2 DEF LockAccount

LEMMA BeginKeepsOrder ==
  ASSUME Inv, OrderInv, NEW r \in Request, Begin(r)
  PROVE  OrderInv'
<1>1. /\ pc[r] = "begin" /\ pc' = [pc EXCEPT ![r] = "lock"]
      /\ lock' = lock /\ queue' = queue /\ pc \in [Request -> ProgramCounter]
  BY DEF Begin, BeginTx, Inv, TypeOK
<1>2. \A a \in Account : lock[a] # r
  BY <1>1 DEF Inv, RequestInv, TransactionInv, Inside
<1> QED BY <1>1, <1>2 DEF OrderInv

LEMMA OtherStepsLockNothing ==
  ASSUME Inv, NEW r \in Request,
         \/ Receive(r) \/ CreateAccount(r) \/ Deposit(r) \/ Withdraw(r) \/ Transfer(r)
         \/ UpdateAccountBalance(r) \/ CreateTransaction(r) \/ Commit(r) \/ Publish(r)
         \/ CommitUnacknowledged(r) \/ StatementFails(r) \/ BreakDeadlock(r)
  PROVE  NobodyLocks
<1> USE DEF NobodyLocks
<1>0. pc \in [Request -> ProgramCounter]
  BY DEF Inv, TypeOK
<1>1. CASE \E status : Fail(r, status)
  BY <1>1, FailLocksNothing
<1>2. CASE UNCHANGED lock /\ \E status : Return({r}, status)
  BY <1>2 DEF Return
<1>3. CASE /\ UNCHANGED <<lock, queue>>
           /\ pc' = pc \/ \E place \in ProgramCounter \ {"lock"} : pc' = [pc EXCEPT ![r] = place]
  BY <1>0, <1>3
<1>4. CASE Receive(r)
  <2>1. CASE /\ UNCHANGED lock /\ pc' = [pc EXCEPT ![r] = "begin"]
             /\ \E Q : queue' = [queue EXCEPT ![r] = Q]
    BY <1>0, <2>1 DEF Inv, TypeOK
  <2> QED BY <1>1, <1>4, <2>1 DEF Receive, dbVars
<1>5. CASE CreateAccount(r)
  BY <1>2, <1>5 DEF CreateAccount, InsertAccount, dbVars
<1>6. CASE \E new : ApplyTo(r, new)
  BY <1>3, <1>6 DEF ApplyTo, dbVars, ProgramCounter
<1>7. CASE Deposit(r) \/ Withdraw(r) \/ Transfer(r)
  BY <1>1, <1>6, <1>7 DEF Deposit, Withdraw, Transfer
<1>8. CASE UpdateAccountBalance(r)
  BY <1>1, <1>3, <1>8 DEF UpdateAccountBalance, UpdateRow, ProgramCounter
<1>9. CASE CreateTransaction(r)
  BY <1>3, <1>9 DEF CreateTransaction, InsertRow, ProgramCounter
<1>10. CASE Commit(r)
  <2>1. \A a \in Account : lock'[a] # Nil => lock'[a] = lock[a]
    BY <1>10 DEF Commit, CommitTx, CloseTx
  <2> QED BY <1>0, <1>10, <2>1, NilIsNothingElse DEF Commit
<1>11. CASE Publish(r)
  BY <1>2, <1>3, <1>11 DEF Publish
<1>12. CASE CommitUnacknowledged(r)
  BY <1>12, EndLocksNothing DEF CommitUnacknowledged, CommitTx
<1>13. CASE StatementFails(r) \/ BreakDeadlock(r)
  BY <1>1, <1>13 DEF StatementFails, BreakDeadlock
<1> QED BY <1>4, <1>5, <1>7, <1>8, <1>9, <1>10, <1>11, <1>12, <1>13

LEMMA NextKeepsOrder ==
  ASSUME Spelling = Account, Inv, OrderInv, [Next]_vars
  PROVE  OrderInv'
<1>1. CASE NobodyLocks
  BY <1>1 DEF NobodyLocks, OrderInv
<1>2. ASSUME NEW r \in Request, Advance(r)
      PROVE  OrderInv'
  BY <1>1, <1>2, BeginKeepsOrder, LockAccountKeepsOrder, OtherStepsLockNothing DEF Advance
<1>3. ASSUME NEW r \in Request,
             \/ Receive(r) \/ CreateAccount(r)
             \/ CommitUnacknowledged(r) \/ StatementFails(r) \/ BreakDeadlock(r)
      PROVE  OrderInv'
  BY <1>1, <1>3, OtherStepsLockNothing
<1>4. CASE Crash
  <2>1. active \in SUBSET Request
    BY DEF Inv, TypeOK, PostgresTypeOK
  <2>2. {r \in Request : pc[r] \notin {"idle", "done"}} \in SUBSET Request
    OBVIOUS
  <2> QED BY <1>1, <1>4, <2>1, <2>2, EndLocksNothing DEF Crash, RollbackTx
<1>5. CASE UNCHANGED <<pc, queue, lock>>
  BY <1>5 DEF OrderInv
<1> QED BY <1>2, <1>3, <1>4, <1>5 DEF Next, Tick, AllDone, vars, dbVars

\* Of requests that wait for each other, the one that wants the greatest row would be
\* waited for by none of them.
LEMMA OrderPreventsDeadlock ==
  ASSUME Spelling = Account, NEW Top \in Nat, Account \subseteq 0..Top, Inv, OrderInv
  PROVE  NoDeadlock
<1> SUFFICES ASSUME NEW R \in SUBSET Request, Deadlocked(R)
             PROVE  FALSE
  BY DEF NoDeadlock
<1>1. ASSUME NEW r \in R
      PROVE  /\ pc[r] = "lock" /\ lock[Wanted(r)] \in R
             /\ Wanted(r) \in queue[r] /\ Wanted(r) \in 0..Top
  <2>1. pc[r] = "lock" /\ lock[Wanted(r)] \in R
    BY DEF Deadlocked, Waiting
  <2>2. queue[r] # {} /\ queue[r] \subseteq Account
    BY <2>1 DEF Inv, TypeOK, RequestInv, LockingInv
  <2>3. NextToLock(r) \in queue[r]
    <3>1. queue[r] \subseteq Nat
      BY <2>2, SpellingAssumption DEF SpellingAssumption
    <3>2. \E m \in queue[r] : \A n \in queue[r] : m <= n
      BY <2>2, <3>1, LeastNumber
    <3> QED BY <3>2 DEF NextToLock
  <2>4. Wanted(r) = NextToLock(r)
    BY <2>2, <2>3, DenotesAccount DEF Wanted
  <2> QED BY <2>1, <2>2, <2>3, <2>4
<1>2. PICK r \in R : \A u \in R : Wanted(u) <= Wanted(r)
  <2> DEFINE below == {Top - Wanted(u) : u \in R}
  <2>1. below \subseteq Nat /\ below # {}
    BY <1>1 DEF Deadlocked
  <2>2. PICK least \in below : \A n \in below : least <= n
    BY <2>1, LeastNumber
  <2>3. PICK r \in R : least = Top - Wanted(r)
    BY <2>2
  <2>4. ASSUME NEW u \in R
        PROVE  Wanted(u) <= Wanted(r)
    <3>1. Top - Wanted(r) <= Top - Wanted(u)
      BY <2>2, <2>3
    <3>2. Wanted(r) \in 0..Top /\ Wanted(u) \in 0..Top
      BY <1>1
    <3> HIDE DEF below
    <3> QED BY <3>1, <3>2
  <2> QED BY <2>4
<1>3. PICK u \in R : lock[Wanted(r)] = u
  BY <1>1
<1>4. Wanted(r) < Wanted(u)
  <2>1. Wanted(r) \in Account
    BY <1>1 DEF Inv, TypeOK
  <2> QED BY <1>1, <1>3, <2>1 DEF OrderInv
<1>5. Wanted(u) <= Wanted(r) /\ Wanted(u) \in 0..Top /\ Wanted(r) \in 0..Top
  BY <1>1, <1>2
<1> QED BY <1>4, <1>5

\* Transfers lock their accounts in one order, so no requests wait for each other: if all
\* clients write ids in their canonical spelling, and ids have a bounded number of digits,
\* which those of UUIDs have.
THEOREM LockOrderIsSafe ==
  ASSUME Spelling = Account, NEW Top \in Nat, Account \subseteq 0..Top
  PROVE  Spec => []NoDeadlock
<1>1. Init => OrderInv
  BY DEF Init, OrderInv
<1>2. Inv /\ OrderInv /\ [Next]_vars => OrderInv'
  BY NextKeepsOrder
<1>3. Inv /\ OrderInv => NoDeadlock
  BY OrderPreventsDeadlock
<1> QED BY <1>1, <1>2, <1>3, InvHolds, PTL DEF Spec
=============================================================================
