---------------------------- MODULE AtomicLedger ----------------------------
(***************************************************************************)
(* What the transaction service promises of its two tables: every request  *)
(* changes them in one step, or not at all.  An account is opened empty; a *)
(* deposit, a withdrawal or a transfer moves the balances and appends its  *)
(* rows to the journal at once, and only if the caller may do so, the money *)
(* is there and the balance fits.  A request does so at most once.          *)
(***************************************************************************)
EXTENDS LedgerData

CONSTANT MaxClock

VARIABLES accounts, journal

Init == accounts = Opening /\ journal = <<>>

Unused(r) == \A k \in 1..Len(journal) : journal[k].id[1] # r

\* The time of a row: not before that of any row of its account.
LaterThanAll(a, at) ==
  \A k \in 1..Len(journal) : journal[k].account = a => journal[k].at <= at

Open(a) ==
  /\ accounts[a] = Nil
  /\ \E actor \in Actor, currency \in Currency :
       accounts' = [accounts EXCEPT
                      ![a] = [owner |-> actor.user, currency |-> currency, balance |-> 0]]
  /\ UNCHANGED journal

\* A single account's balance changes by the signed amount.
Move(r, a, type, amount) ==
  \E actor \in Actor, at \in 0..MaxClock :
    LET signed == IF type = "deposit" THEN amount ELSE -amount
        after == accounts[a].balance + signed
    IN  /\ Unused(r) /\ LaterThanAll(a, at)
        /\ CanAccess(actor, accounts[a])
        /\ after \in 0..MaxInt
        /\ accounts' = [accounts EXCEPT ![a].balance = after]
        /\ journal' = Append(journal,
             [id |-> <<r, 1>>, account |-> a, counterparty |-> Nil, type |-> type,
              amount |-> amount, after |-> after, by |-> actor.user, at |-> at])

Transfer(r, a, b, amount) ==
  \E actor \in Actor, at, later \in 0..MaxClock :
    LET left == accounts[a].balance - amount
        received == accounts[b].balance + amount
    IN  /\ Unused(r) /\ at <= later
        /\ LaterThanAll(a, at) /\ LaterThanAll(b, later)
        /\ CanAccess(actor, accounts[a])
        /\ accounts[a].currency = accounts[b].currency
        /\ left >= 0 /\ received <= MaxInt
        /\ accounts' = [accounts EXCEPT ![a].balance = left, ![b].balance = received]
        /\ journal' = journal \o
             <<[id |-> <<r, 1>>, account |-> a, counterparty |-> b,
                type |-> "transfer_out", amount |-> amount, after |-> left,
                by |-> actor.user, at |-> at],
               [id |-> <<r, 2>>, account |-> b, counterparty |-> a,
                type |-> "transfer_in", amount |-> amount, after |-> received,
                by |-> actor.user, at |-> later]>>

Present == {a \in Account : accounts[a] # Nil}

Next ==
  \/ \E a \in Account : Open(a)
  \/ \E r \in Request, a \in Present, amount \in 1..MaxInt :
       \/ \E type \in {"deposit", "withdrawal"} : Move(r, a, type, amount)
       \/ \E b \in Present \ {a} : Transfer(r, a, b, amount)

Spec == Init /\ [][Next]_<<accounts, journal>>
=============================================================================
