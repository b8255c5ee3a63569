-------------------------- MODULE ServiceProperties --------------------------
(***************************************************************************)
(* What the transaction service promises to those who read its event       *)
(* streams while others move money.                                        *)
(***************************************************************************)
EXTENDS TransactionService, LedgerInvariant

\* Whatever a stream shows is a row that was committed, on an account its reader may
\* access: nothing of a transaction that was rolled back, and of a transfer between two
\* owners each sees only the side that is theirs.
StreamsShowCommittedRows ==
  \A s \in Stream : \A i \in 1..Len(sent[s]) : \E k \in 1..Len(journal) :
    /\ journal[k].id = <<sent[s][i].by, sent[s][i].number>>
    /\ CanAccess(StreamActor[s], accounts[journal[k].account])

\* The event of row k.
EventOfRow(k) ==
  [by |-> journal[k].id[1], number |-> journal[k].id[2],
   owner |-> accounts[journal[k].account].owner]

\* When a client is told 200, every open stream whose reader may access an account its
\* operation touched has met the row's event: it was sent, or is in the channel, or found
\* the channel full, unless the stream subscribed only after it had been published.
AnsweredIsDelivered ==
  \A r \in Request : \A k \in RowsOf(r) : \A s \in clients :
    reply[r] = "ok" /\ CanAccess(StreamActor[s], accounts[journal[k].account]) =>
      EventOfRow(k) \in Events!Met(s) \cup before[s]
-----------------------------------------------------------------------------
\* The inductive invariant behind them.

\* An event tells of a committed row and names the owner of its account.
Told(event) == \E k \in 1..Len(journal) : EventOfRow(k) = event

\* So do the events that wait to be published, that wait in a channel, and that were sent.
ToldInv ==
  /\ \A r \in Request : \A event \in Events!In(todo[r]) : Told(event)
  /\ \A s \in Stream : \A event \in Events!Reached(s) : Told(event)

\* While r publishes, its rows are those of its legs; the events of the legs before the
\* one in turn are published, and the others are what it has still to publish.
PublishingInv(r) ==
  pc[r] = "publish" =>
    /\ \A k \in RowsOf(r) : \E i \in 1..LegCount(r) : journal[k] = NewTransaction(r, i)
    /\ Len(todo[r]) = LegCount(r) - step[r] + 1
    /\ \A j \in 1..Len(todo[r]) : todo[r][j] = EventOf(r, step[r] + j - 1)
    /\ \A i \in 1..(step[r] - 1) : EventOf(r, i) \in finished

\* It answers 200 when all its events are published.
AnsweredInv(r) == reply[r] = "ok" => \A k \in RowsOf(r) : EventOfRow(k) \in finished

ServiceInv ==
  /\ Events!BrokerInv /\ Events!StreamsInv
  /\ ToldInv
  /\ \A r \in Request : PublishingInv(r) /\ AnsweredInv(r)
=============================================================================
