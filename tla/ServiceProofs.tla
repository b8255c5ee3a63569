---------------------------- MODULE ServiceProofs ----------------------------
(***************************************************************************)
(* Proof, for every instance of the transaction service, that what the     *)
(* handlers commit is what the event streams show.  The proof of the       *)
(* ledger is that of its own module, since a step of the service is a step *)
(* of the ledger or none; that of the broker is its own too, but for the   *)
(* crash, which the broker alone does not know.                            *)
(***************************************************************************)
EXTENDS RefinementProofs, ServiceProperties

\* The broker of the service, with what is proved of it.
Broker == INSTANCE BrokerProofs WITH Publisher <- Request, Operations <- OneOrTwoOwners

LEMMA OneBroker ==
  /\ Events!BrokerInv <=> Broker!BrokerInv
  /\ Events!StreamsInv <=> Broker!StreamsInv
  /\ Events!Init <=> Broker!Init
  /\ Events!BrokerInv' <=> Broker!BrokerInv'
  /\ Events!StreamsInv' <=> Broker!StreamsInv'
BY DEF Events!BrokerInv, Broker!BrokerInv, Events!BrokerTypeOK, Broker!BrokerTypeOK,
       Events!Event, Broker!Event, Events!PublisherInv, Broker!PublisherInv,
       Events!StreamInv, Broker!StreamInv, Events!StreamsInv, Broker!StreamsInv,
       Events!PendingInv, Broker!PendingInv, Events!LoopInv, Broker!LoopInv,
       Events!DeliveryInv, Broker!DeliveryInv, Events!Past, Broker!Past,
       Events!Visible, Broker!Visible, Events!Met, Broker!Met,
       Events!Reached, Broker!Reached, Events!In, Broker!In,
       Events!Rising, Broker!Rising, Events!Init, Broker!Init

LEMMA OneBrokerMoves ==
  ASSUME Events!Next
  PROVE  Broker!Next
BY DEF Events!Next, Broker!Next, Events!Operation, Broker!Operation,
       Events!Publish, Broker!Publish, Events!RLock, Broker!RLock,
       Events!Range, Broker!Range, Events!Send, Broker!Send, Events!RUnlock, Broker!RUnlock,
       Events!HasRoom, Broker!HasRoom, Events!Deliver, Broker!Deliver,
       Events!Drop, Broker!Drop, Events!Open, Broker!Open, Events!Manage, Broker!Manage,
       Events!Lock, Broker!Lock, Events!Subscribe, Broker!Subscribe,
       Events!Delete, Broker!Delete, Events!Close, Broker!Close, Events!Unlock, Broker!Unlock,
       Events!Exclusive, Broker!Exclusive, Events!Disconnect, Broker!Disconnect,
       Events!Receive, Broker!Receive, Events!Visible, Broker!Visible,
       Events!Return, Broker!Return, Events!AllDone, Broker!AllDone,
       Events!mu, Broker!mu, Events!publisherVars, Broker!publisherVars,
       Events!streamVars, Broker!streamVars, Events!vars, Broker!vars

\* What the broker's proofs assume of its constants.
LEMMA BrokerConstants ==
  /\ Capacity \in Nat \ {0}
  /\ StreamActor \in [Stream -> [user : User, role : {"customer", "admin"}]]
  /\ OneOrTwoOwners \subseteq {<<u>> : u \in User} \cup (User \X User)
  /\ Nil \notin Stream
BY ServiceAssumption DEF ServiceAssumption, OneOrTwoOwners

LEMMA InitBroker ==
  ASSUME Events!Init
  PROVE  Events!BrokerInv /\ Events!StreamsInv
BY BrokerConstants, OneBroker, Broker!BrokerInitInv, Broker!InitStreams

LEMMA StepKeepsBroker ==
  ASSUME Events!BrokerInv, Events!StreamsInv, Events!Next \/ UNCHANGED brokerVars
  PROVE  Events!BrokerInv' /\ Events!StreamsInv'
<1>1. [Broker!Next]_Broker!vars
  BY OneBrokerMoves DEF Broker!vars, brokerVars
<1>2. Broker!BrokerInv /\ Broker!StreamsInv
  BY OneBroker
<1>3. Broker!BrokerInv' /\ Broker!StreamsInv'
  BY <1>1, <1>2, BrokerConstants, Broker!BrokerNextKeepsInv, Broker!NextKeepsStreams
<1> QED BY <1>3, OneBroker

\* The process dies: nothing is subscribed, nobody publishes, and what was sent was sent.
LEMMA CrashKeepsBroker ==
  ASSUME Events!BrokerInv, Events!StreamsInv, Dies
  PROVE  Events!BrokerInv' /\ Events!StreamsInv'
<1> USE DEF Dies
<1>1. Events!BrokerTypeOK'
  <2>1. Events!BrokerTypeOK /\ Capacity \in Nat
    BY BrokerConstants DEF Events!BrokerInv
  <2>2. /\ writer' \in Stream \cup {Nil} /\ readers' \in SUBSET Request
        /\ blocked' \in SUBSET Request /\ clients' \in SUBSET Stream
        /\ sent' \in [Stream -> Seq(Events!Event)] /\ finished' \in SUBSET Events!Event
        /\ before' \in [Stream -> SUBSET Events!Event]
        /\ missed' \in [Stream -> SUBSET Events!Event]
    BY <2>1 DEF Events!BrokerTypeOK
  <2>3. /\ publisher' \in [Request -> {"idle", "publish", "done"}]
        /\ todo' \in [Request -> Seq(Events!Event)]
        /\ seen' \in [Request -> SUBSET Stream]
        /\ target' \in [Request -> Stream \cup {Nil}]
    BY <2>1 DEF Events!BrokerTypeOK
  <2>4. /\ buffer' \in [Stream -> Seq(Events!Event)]
        /\ \A s \in Stream : Len(buffer'[s]) <= Capacity
    BY <2>1
  <2>5. /\ closed' \in [Stream -> BOOLEAN] /\ cancelled' \in [Stream -> BOOLEAN]
    BY <2>1
  <2>6. /\ handler' \in [Stream -> {"idle", "subscribe", "stream", "returned"}]
        /\ closer' \in [Stream -> {"none", "wait", "close", "done"}]
    BY <2>1 DEF Events!BrokerTypeOK
  <2> QED BY <2>2, <2>3, <2>4, <2>5, <2>6 DEF Events!BrokerTypeOK
<1>2. \A r \in Request : Events!PublisherInv(r)'
  BY DEF Events!PublisherInv
<1>3. \A s \in Stream : Events!StreamInv(s)'
  BY DEF Events!StreamInv
<1>4. \A r \in Request : Events!PendingInv(r)'
  BY DEF Events!StreamsInv, Events!PendingInv, Events!In, Events!Rising
<1>5. \A r \in Request : \A s \in Stream : Events!LoopInv(r, s)'
  BY DEF Events!StreamsInv, Events!LoopInv, Events!Met, Events!Reached, Events!In, Events!Past
<1>6. \A s \in Stream : Events!DeliveryInv(s)'
  BY DEF Events!StreamsInv, Events!DeliveryInv, Events!Met, Events!Reached, Events!In,
         Events!Rising
<1> QED BY <1>1, <1>2, <1>3, <1>4, <1>5, <1>6 DEF Events!BrokerInv, Events!StreamsInv
-----------------------------------------------------------------------------
\* The service is its parts, side by side.

LEMMA StepOfParts ==
  ASSUME [ServiceNext]_serviceVars
  PROVE  [Next]_vars /\ (Events!Next \/ UNCHANGED brokerVars \/ Dies)
<1>1. ASSUME NEW r \in Request, Proceeds(r) \/ Breaks(r) \/ Other(r)
      PROVE  [Next]_vars /\ (Events!Next \/ UNCHANGED brokerVars)
  <2>1. CASE Works(r) \/ Breaks(r) \/ Other(r)
    BY <2>1 DEF Works, Breaks, Other, Next
  <2>2. CASE Commits(r)
    BY <2>2 DEF Commits, Next, Advance, Events!Next
  <2>3. CASE Delivers(r)
    BY <2>3 DEF Delivers, Events!Next, Events!Publish
  <2>4. CASE Returns(r)
    BY <2>4 DEF Returns, Next, Advance, Events!Next, Events!Publish
  <2> QED BY <1>1, <2>1, <2>2, <2>3, <2>4 DEF Proceeds
<1>2. ASSUME NEW s \in Stream, Manages(s) \/ Ends(s) \/ Streams(s)
      PROVE  [Next]_vars /\ Events!Next
  BY <1>2 DEF Manages, Ends, Streams, Events!Next
<1>3. CASE Dies
  BY <1>3 DEF Dies, Next
<1>4. CASE TimePasses
  BY <1>4 DEF TimePasses, Next
<1>5. CASE ServiceDone \/ UNCHANGED serviceVars
  BY <1>5 DEF ServiceDone, serviceVars
<1> QED BY <1>1, <1>2, <1>3, <1>4, <1>5 DEF ServiceNext

\* The handlers behave as they do alone: whatever the streams do, the service is a ledger.
THEOREM ServiceIsLedger == ServiceSpec => Spec
<1>1. ServiceInit => Init
  BY DEF ServiceInit
<1>2. [ServiceNext]_serviceVars => [Next]_vars
  BY StepOfParts
<1> QED BY <1>1, <1>2, PTL DEF ServiceSpec, Spec

LEMMA BrokerInvStays ==
  ASSUME Events!BrokerInv, Events!StreamsInv, [ServiceNext]_serviceVars
  PROVE  Events!BrokerInv' /\ Events!StreamsInv'
BY StepOfParts, StepKeepsBroker, CrashKeepsBroker
-----------------------------------------------------------------------------
\* What is told of the journal stays true as it grows.

LEMMA RowsStay ==
  ASSUME LedgerInv, Grows, NEW k \in 1..Len(journal)
  PROVE  /\ k \in 1..Len(journal')
         /\ journal'[k] = journal[k]
         /\ EventOfRow(k)' = EventOfRow(k)
<1>1. /\ journal[k].account \in Account /\ accounts[journal[k].account] # Nil
      /\ Len(journal) \in Nat
  BY CommittedRowFacts DEF LedgerInv, Inv, TypeOK, PostgresTypeOK
<1> QED BY <1>1 DEF Grows, EventOfRow

LEMMA ToldStays ==
  ASSUME LedgerInv, Grows, NEW event, Told(event)
  PROVE  Told(event)'
BY RowsStay DEF Told

\* A request that does not move while others commit goes on publishing its own rows.
LEMMA OthersKeepPublishing ==
  ASSUME LedgerInv, NEW u \in Request, PublishingInv(u), AnsweredInv(u), Same(u),
         NEW R, u \notin R, Grows, AddsRowsOf(R),
         pc[u] = "publish" => todo'[u] = todo[u], finished \subseteq finished'
  PROVE  PublishingInv(u)' /\ AnsweredInv(u)'
<1>1. /\ LegCount(u)' = LegCount(u)
      /\ \A i : NewTransaction(u, i)' = NewTransaction(u, i)
      /\ \A i : EventOf(u, i)' = EventOf(u, i)
  BY DEF LegCount, NewTransaction, EventOf, Same
<1>2. RowsOf(u)' = RowsOf(u)
  BY RowsStay DEF RowsOf, AddsRowsOf
<1>3. \A k \in RowsOf(u) : journal'[k] = journal[k] /\ EventOfRow(k)' = EventOfRow(k)
  BY RowsStay DEF RowsOf
<1>4. PublishingInv(u)'
  BY <1>1, <1>2, <1>3 DEF PublishingInv, Same
<1>5. AnsweredInv(u)'
  BY <1>2, <1>3 DEF AnsweredInv, Same
<1> QED BY <1>4, <1>5

\* Nothing is said of requests that neither publish nor have been told 200.
LEMMA NothingToPublish ==
  ASSUME NEW r \in Request, pc'[r] # "publish", reply'[r] # "ok"
  PROVE  PublishingInv(r)' /\ AnsweredInv(r)'
BY DEF PublishingInv, AnsweredInv
-----------------------------------------------------------------------------
\* What the steps of the ledger do to the requests.

LEMMA OneReturns ==
  ASSUME Inv, NEW r \in Request, NEW status, Return({r}, status)
  PROVE  /\ \A u \in Request \ {r} : Same(u)
         /\ pc'[r] = "done" /\ reply'[r] = status
<1>1. {r} \in SUBSET Request
  OBVIOUS
<1> QED BY <1>1, ReturnMoves

\* A request outside publish does not come to it except by its commit, nor to 200.
LEMMA OutsidePublish ==
  ASSUME LedgerInv, NEW r \in Request,
         \/ Advance(r) /\ pc[r] \notin {"commit", "publish"}
         \/ BreakDeadlock(r) \/ Receive(r) \/ CreateAccount(r)
         \/ CommitUnacknowledged(r) \/ StatementFails(r)
  PROVE  /\ \A u \in Request \ {r} : Same(u)
         /\ pc'[r] # "publish" /\ reply'[r] # "ok"
<1> DEFINE Moved == /\ \A u \in Request \ {r} : Same(u)
                    /\ pc'[r] # "publish" /\ reply'[r] # "ok"
<1> SUFFICES Moved
  OBVIOUS
<1>0. Inv
  BY DEF LedgerInv
<1>1. /\ pc[r] # "done" => reply[r] = "none"
      /\ pc \in [Request -> ProgramCounter]
      /\ op \in [Request -> MoneyInput \cup TransferInput \cup {Nil}]
      /\ copies \in [Request -> [Account -> AccountCopy \cup {Nil}]]
      /\ step \in [Request -> {1, 2}] /\ stamp \in [Request -> Seq(Nat)]
  BY DEF LedgerInv, JournalInv, OutcomeInv, Inv, TypeOK
<1>2. ASSUME NEW status \in Reply \ {"ok"}, Fail(r, status)
      PROVE  Moved
  BY <1>0, <1>2, OneReturns DEF Fail, Reply
<1>3. CASE Begin(r)
  BY <1>1, <1>3 DEF Begin, Same
<1>4. CASE LockAccount(r)
  BY <1>1, <1>2, <1>4 DEF LockAccount, Same, Reply
<1>5. ASSUME NEW newCopies, pc[r] = "apply", ApplyTo(r, newCopies)
      PROVE  Moved
  BY <1>1, <1>5 DEF ApplyTo, Same
<1> HIDE DEF Moved
<1>6. CASE Deposit(r)
  BY <1>2, <1>5, <1>6 DEF Deposit, Reply
<1>7. CASE Withdraw(r)
  BY <1>2, <1>5, <1>7 DEF Withdraw, Reply
<1>8. CASE Transfer(r)
  BY <1>2, <1>5, <1>8 DEF Transfer, Reply
<1> USE DEF Moved
<1>9. CASE UpdateAccountBalance(r)
  <2>1. CASE Fail(r, "internal")
    BY <2>1, <1>2 DEF Reply
  <2>2. CASE ~Fail(r, "internal")
    <3>1. /\ pc[r] = "update" /\ UNCHANGED <<op, copies, reply>>
          /\ \/ /\ pc' = [pc EXCEPT ![r] = "insert"]
                /\ step' = [step EXCEPT ![r] = 1]
                /\ \E times : stamp' = [stamp EXCEPT ![r] = times]
             \/ /\ step' = [step EXCEPT ![r] = @ + 1]
                /\ UNCHANGED <<pc, stamp>>
      BY <2>2, <1>9 DEF UpdateAccountBalance
    <3> QED BY <3>1, <1>1 DEF Same
  <2> QED BY <2>1, <2>2
<1>10. CASE CreateTransaction(r)
  <2>1. /\ pc[r] = "insert" /\ UNCHANGED <<op, copies, stamp, reply>>
        /\ pc' = pc \/ pc' = [pc EXCEPT ![r] = "commit"]
        /\ \A u \in Request \ {r} : step'[u] = step[u]
    BY <1>1, <1>10 DEF CreateTransaction
  <2> QED BY <2>1, <1>1 DEF Same
<1>11. CASE Receive(r)
  <2>1. CASE Fail(r, "bad_request")
    BY <2>1, <1>2 DEF Reply
  <2>2. CASE ~Fail(r, "bad_request")
    <3>1. PICK in : op' = [op EXCEPT ![r] = in]
      BY <2>2, <1>11 DEF Receive
    <3>2. /\ pc[r] = "idle" /\ pc' = [pc EXCEPT ![r] = "begin"]
          /\ UNCHANGED <<copies, step, stamp, reply>>
      BY <2>2, <1>11 DEF Receive
    <3>3. pc'[r] = "begin" /\ reply'[r] = "none"
      BY <3>2, <1>1
    <3>4. ASSUME NEW u \in Request \ {r}
          PROVE  Same(u)
      BY <3>1, <3>2, <1>1 DEF Same
    <3> QED BY <3>3, <3>4
  <2> QED BY <2>1, <2>2
<1>12. CASE CreateAccount(r)
  <2>1. PICK status \in {"bad_request", "internal", "created"} : Return({r}, status)
    BY <1>12 DEF CreateAccount
  <2> QED BY <2>1, <1>0, OneReturns
<1>13. CASE CommitUnacknowledged(r)
  BY <1>13, <1>0, OneReturns DEF CommitUnacknowledged
<1>14. CASE StatementFails(r) \/ BreakDeadlock(r)
  BY <1>14, <1>2 DEF StatementFails, BreakDeadlock, Reply
<1>15. ASSUME Commit(r) \/ Publish(r)
       PROVE  pc[r] \in {"commit", "publish"}
  BY <1>15 DEF Commit, Publish
<1> QED BY <1>3, <1>4, <1>6, <1>7, <1>8, <1>9, <1>10, <1>11, <1>12, <1>13, <1>14, <1>15
        DEF Advance

LEMMA OutsidePublishGrows ==
  ASSUME LedgerInv, NEW r \in Request,
         \/ Advance(r) \/ BreakDeadlock(r) \/ Receive(r) \/ CreateAccount(r)
         \/ CommitUnacknowledged(r) \/ StatementFails(r)
  PROVE  Grows /\ AddsRowsOf({r})
<1>1. CASE UNCHANGED <<accounts, journal>>
  BY <1>1, SameTablesGrow DEF LedgerInv, AddsRowsOf
<1>2. CASE pc[r] = "commit" /\ CommitTx(r)
  BY <1>2, CommitGrows DEF LedgerInv
<1>3. CASE CreateAccount(r)
  BY <1>3, CreateAccountGrows DEF LedgerInv
<1> QED BY <1>1, <1>2, <1>3, OnlyCommitChangesTables
-----------------------------------------------------------------------------
\* What the steps of the service do to the events.

LEMMA BrokerTypes ==
  ASSUME Events!BrokerInv
  PROVE  /\ todo \in [Request -> Seq(Events!Event)] /\ buffer \in [Stream -> Seq(Events!Event)]
         /\ sent \in [Stream -> Seq(Events!Event)] /\ finished \subseteq Events!Event
BY DEF Events!BrokerInv, Events!BrokerTypeOK

LEMMA FirstAndRest ==
  ASSUME NEW q \in Seq(Events!Event), q # <<>>
  PROVE  /\ Head(q) = q[1] /\ Head(q) \in Events!In(q) /\ Head(q) \in Events!Event
         /\ Len(q) \in Nat \ {0} /\ Len(Tail(q)) = Len(q) - 1
         /\ \A i \in 1..Len(Tail(q)) : i + 1 \in 1..Len(q) /\ Tail(q)[i] = q[i + 1]
         /\ Events!In(Tail(q)) \subseteq Events!In(q)
<1>1. q \in Seq(Broker!Event)
  BY DEF Events!Event, Broker!Event
<1>2. /\ Head(q) = q[1] /\ Head(q) \in Broker!In(q) /\ Head(q) \in Broker!Event
      /\ Len(Tail(q)) = Len(q) - 1
      /\ Len(q) \in Nat /\ 1 \in 1..Len(q)
      /\ \A i \in 1..Len(Tail(q)) : i + 1 \in 1..Len(q) /\ Tail(q)[i] = q[i + 1]
      /\ Broker!In(q) = Broker!In(Tail(q)) \cup {Head(q)}
  BY <1>1, BrokerConstants, Broker!InTail
<1>3. \A p : Broker!In(p) = Events!In(p)
  BY DEF Broker!In, Events!In
<1>4. Broker!Event = Events!Event
  BY DEF Events!Event, Broker!Event
<1> QED BY <1>2, <1>3, <1>4

LEMMA OneMore ==
  ASSUME NEW q \in Seq(Events!Event), NEW event \in Events!Event
  PROVE  Events!In(Append(q, event)) = Events!In(q) \cup {event}
<1>1. q \in Seq(Broker!Event) /\ event \in Broker!Event
  BY DEF Events!Event, Broker!Event
<1>2. Broker!In(Append(q, event)) = Broker!In(q) \cup {event}
  BY <1>1, BrokerConstants, Broker!InAppend
<1> QED BY <1>2 DEF Broker!In, Events!In

\* A step of the requests R keeps the invariant if it does so for them, and if what it
\* gives to the streams is what a request was to publish.
LEMMA RequestsStep ==
  ASSUME LedgerInv, ServiceInv, [ServiceNext]_serviceVars, NEW R \in SUBSET Request,
         Grows, AddsRowsOf(R), finished \subseteq finished',
         \A u \in Request \ R : Same(u) /\ (pc[u] = "publish" => todo'[u] = todo[u]),
         \A r \in R : PublishingInv(r)' /\ AnsweredInv(r)',
         \A u \in Request : \A event \in Events!In(todo'[u]) :
           event \in Events!In(todo[u]) \/ Told(event)',
         \A s \in Stream : \A event \in Events!In(sent'[s]) \cup Events!In(buffer'[s]) :
           \/ event \in Events!Reached(s)
           \/ \E u \in Request : event \in Events!In(todo[u])
  PROVE  ServiceInv'
<1>1. Events!BrokerInv' /\ Events!StreamsInv'
  BY BrokerInvStays DEF ServiceInv
<1>2. ASSUME NEW u \in Request
      PROVE  PublishingInv(u)' /\ AnsweredInv(u)'
  BY OthersKeepPublishing DEF ServiceInv
<1>3. ASSUME NEW u \in Request, NEW event \in Events!In(todo'[u])
      PROVE  Told(event)'
  BY <1>3, ToldStays DEF ServiceInv, ToldInv
<1>4. ASSUME NEW s \in Stream, NEW event \in Events!In(sent'[s]) \cup Events!In(buffer'[s])
      PROVE  Told(event)'
  BY <1>4, ToldStays DEF ServiceInv, ToldInv
<1>5. ToldInv'
  BY <1>3, <1>4 DEF ToldInv, Events!Reached
<1> QED BY <1>1, <1>2, <1>5 DEF ServiceInv

\* A step of the streams keeps it if it brings them nothing new but what a request was to
\* publish.
LEMMA StreamsStep ==
  ASSUME LedgerInv, ServiceInv, [ServiceNext]_serviceVars, UNCHANGED vars, todo' = todo,
         finished' = finished,
         \A s \in Stream : \A event \in Events!In(sent'[s]) \cup Events!In(buffer'[s]) :
           \/ event \in Events!Reached(s)
           \/ \E u \in Request : event \in Events!In(todo[u])
  PROVE  ServiceInv'
<1>1. Grows /\ AddsRowsOf({})
  BY SameTablesGrow DEF LedgerInv, vars
<1>2. \A u \in Request : Same(u) /\ todo'[u] = todo[u]
  BY DEF Same, vars
<1>3. {} \in SUBSET Request
  OBVIOUS
<1> QED BY <1>1, <1>2, <1>3, RequestsStep
-----------------------------------------------------------------------------
\* The goroutine of a request inside Broker.Publish.
LEMMA DeliversKeepsInv ==
  ASSUME LedgerInv, ServiceInv, [ServiceNext]_serviceVars, NEW r \in Request, Delivers(r)
  PROVE  ServiceInv'
<1>1. UNCHANGED vars /\ todo' = todo /\ finished' = finished /\ sent' = sent
  BY DEF Delivers, Events!RLock, Events!Range, Events!Send, Events!publisherVars,
         Events!streamVars
<1>2. ASSUME NEW s \in Stream, NEW event \in Events!In(buffer'[s])
      PROVE  event \in Events!Reached(s) \/ event \in Events!In(todo[r])
  <2>1. CASE buffer' = buffer
    BY <2>1, <1>2 DEF Events!Reached
  <2>2. ASSUME NEW t \in Stream, Events!Send(r, t), Events!Deliver(r, t)
        PROVE  event \in Events!Reached(s) \/ event \in Events!In(todo[r])
    <3>1. todo[r] \in Seq(Events!Event) /\ todo[r] # <<>>
      BY <2>2, BrokerConstants
         DEF ServiceInv, Events!BrokerInv, Events!BrokerTypeOK, Events!PublisherInv, Events!Send
    <3>2. Head(todo[r]) \in Events!In(todo[r]) /\ Head(todo[r]) \in Events!Event
      BY <3>1, FirstAndRest
    <3>3. buffer[t] \in Seq(Events!Event)
          /\ buffer' = [buffer EXCEPT ![t] = Append(@, Head(todo[r]))]
          /\ buffer \in [Stream -> Seq(Events!Event)]
      BY <2>2, BrokerTypes DEF ServiceInv, Events!Deliver
    <3>4. Events!In(Append(buffer[t], Head(todo[r]))) = Events!In(buffer[t]) \cup {Head(todo[r])}
      BY <3>2, <3>3, OneMore
    <3> QED BY <1>2, <3>2, <3>3, <3>4 DEF Events!Reached
  <2> QED BY <2>1, <2>2
          DEF Delivers, Events!RLock, Events!Range, Events!Send, Events!Drop
<1>3. ASSUME NEW s \in Stream, NEW event \in Events!In(sent'[s])
      PROVE  event \in Events!Reached(s)
  BY <1>1, <1>3 DEF Events!Reached
<1> QED BY <1>1, <1>2, <1>3, StreamsStep

\* The goroutines of a stream.
LEMMA StreamKeepsInv ==
  ASSUME LedgerInv, ServiceInv, [ServiceNext]_serviceVars, NEW s \in Stream,
         Manages(s) \/ Ends(s) \/ Streams(s)
  PROVE  ServiceInv'
<1>1. UNCHANGED vars /\ todo' = todo /\ finished' = finished
  BY DEF Manages, Ends, Streams, Events!Manage, Events!Lock, Events!Subscribe,
         Events!Delete, Events!Close, Events!Return, Events!Open, Events!Disconnect,
         Events!Receive, Events!publisherVars
<1>2. ASSUME NEW t \in Stream, NEW event \in Events!In(sent'[t]) \cup Events!In(buffer'[t])
      PROVE  event \in Events!Reached(t)
  <2>1. CASE UNCHANGED <<sent, buffer>>
    BY <2>1, <1>2 DEF Events!Reached
  <2>2. CASE Events!Receive(s)
    <3> DEFINE first == Head(buffer[s])
    <3>1. /\ buffer \in [Stream -> Seq(Events!Event)] /\ buffer[s] # <<>>
          /\ sent \in [Stream -> Seq(Events!Event)]
          /\ buffer' = [buffer EXCEPT ![s] = Tail(@)]
          /\ sent' = [sent EXCEPT ![s] = IF Events!Visible(s, first) THEN Append(@, first) ELSE @]
      BY <2>2, BrokerTypes DEF ServiceInv, Events!Receive
    <3>2. /\ first \in Events!In(buffer[s]) /\ first \in Events!Event
          /\ Events!In(Tail(buffer[s])) \subseteq Events!In(buffer[s])
      BY <3>1, FirstAndRest
    <3> HIDE DEF first
    <3>3. Events!In(Append(sent[s], first)) = Events!In(sent[s]) \cup {first}
      BY <3>1, <3>2, OneMore
    <3>4. CASE t = s
      BY <1>2, <3>1, <3>2, <3>3, <3>4 DEF Events!Reached
    <3>5. CASE t # s
      BY <1>2, <3>1, <3>5 DEF Events!Reached
    <3> QED BY <3>4, <3>5
  <2> QED BY <2>1, <2>2
          DEF Manages, Ends, Streams, Events!Manage, Events!Lock, Events!Subscribe,
              Events!Delete, Events!Close, Events!Return, Events!Open, Events!Disconnect,
              Events!streamVars
<1> QED BY <1>1, <1>2, StreamsStep

\* A request outside publish has nothing to do with the broker.
LEMMA WorkKeepsInv ==
  ASSUME LedgerInv, ServiceInv, [ServiceNext]_serviceVars, NEW r \in Request,
         Works(r) \/ Breaks(r) \/ Other(r)
  PROVE  ServiceInv'
<1>1. /\ Grows /\ AddsRowsOf({r})
      /\ \A u \in Request \ {r} : Same(u)
      /\ pc'[r] # "publish" /\ reply'[r] # "ok"
  BY OutsidePublish, OutsidePublishGrows DEF Works, Breaks, Other
<1>2. todo' = todo /\ finished' = finished /\ sent' = sent /\ buffer' = buffer
  BY DEF Works, Breaks, Other, brokerVars
<1>3. PublishingInv(r)' /\ AnsweredInv(r)'
  BY <1>1, NothingToPublish
<1>4. {r} \in SUBSET Request
  OBVIOUS
<1>5. \A s \in Stream : \A event \in Events!In(sent'[s]) \cup Events!In(buffer'[s]) :
        event \in Events!Reached(s)
  BY <1>2 DEF Events!Reached
<1> QED BY <1>1, <1>2, <1>3, <1>4, <1>5, RequestsStep

\* The process dies: nothing is left to publish.
LEMMA DiesKeepsInv ==
  ASSUME LedgerInv, ServiceInv, [ServiceNext]_serviceVars, Dies
  PROVE  ServiceInv'
<1> DEFINE inFlight == {r \in Request : pc[r] \notin {"idle", "done"}}
<1>1. /\ UNCHANGED <<accounts, journal>> /\ Return(inFlight, "none")
      /\ finished' = finished /\ sent' = sent
      /\ todo' = [r \in Request |-> <<>>] /\ buffer' = [s \in Stream |-> <<>>]
  BY DEF Dies, Crash, RollbackTx
<1>2. Grows /\ AddsRowsOf(inFlight)
  BY <1>1, SameTablesGrow DEF AddsRowsOf, LedgerInv
<1>3. /\ \A u \in Request \ inFlight : Same(u)
      /\ \A r \in inFlight : pc'[r] = "done" /\ reply'[r] = "none"
  BY <1>1, ReturnMoves DEF LedgerInv
<1>4. \A u \in Request \ inFlight : pc[u] # "publish"
  OBVIOUS
<1>5. \A r \in inFlight : PublishingInv(r)' /\ AnsweredInv(r)'
  BY <1>3, NothingToPublish
<1>6. Events!In(<<>>) = {}
  BY DEF Events!In
<1>7. \A s \in Stream : \A event \in Events!In(sent'[s]) \cup Events!In(buffer'[s]) :
        event \in Events!Reached(s)
  BY <1>1, <1>6 DEF Events!Reached
<1>8. \A u \in Request : \A event \in Events!In(todo'[u]) : FALSE
  BY <1>1, <1>6
<1>9. inFlight \in SUBSET Request
  OBVIOUS
<1> HIDE DEF inFlight
<1> QED BY <1>1, <1>2, <1>3, <1>4, <1>5, <1>7, <1>8, <1>9, RequestsStep

\* A commit: the rows of the legs are in the journal, and their events are to be published.
LEMMA CommitsKeepsInv ==
  ASSUME LedgerInv, ServiceInv, [ServiceNext]_serviceVars, NEW r \in Request, Commits(r)
  PROVE  ServiceInv'
<1> DEFINE n == Len(journal)
           m == LegCount(r)
<1>1. /\ Inv /\ HistoryInv /\ JournalInv /\ pc[r] = "commit" /\ CommitTx(r)
      /\ pc' = [pc EXCEPT ![r] = "publish"]
      /\ UNCHANGED <<op, copies, step, stamp, reply>>
  BY DEF LedgerInv, Commits, Commit
<1>2. /\ m \in {1, 2} /\ n \in Nat /\ Len(journal') = n + m
      /\ \A k \in 1..n : journal'[k] = journal[k]
      /\ \A i \in 1..m : journal'[n + i] = NewTransaction(r, i)
      /\ \A k \in 1..Len(journal') :
           k \in 1..n \/ \E i \in 1..m : k = n + i
  BY <1>1, CommitAppends DEF Inv, TypeOK, PostgresTypeOK
<1>3. /\ pc'[r] = "publish" /\ reply'[r] = "none" /\ step'[r] = 1 /\ step[r] = 1
      /\ \A k \in 1..n : journal[k].id[1] # r
  BY <1>1 DEF Inv, TypeOK, RequestInv, InsertsInv, JournalInv, OutcomeInv, Inside
<1>4. Legs(op[r]) \in Seq(Leg1)
  BY <1>1, AdmittedFacts DEF Admitted, Inside
<1>5. /\ todo'[r] = [i \in 1..m |-> EventOf(r, i)]
      /\ \A u \in Request \ {r} : todo'[u] = todo[u]
      /\ UNCHANGED <<finished, sent, buffer>>
  <2>1. DOMAIN Legs(op[r]) = 1..m
    BY <1>4 DEF LegCount
  <2>2. \E events : todo' = [todo EXCEPT ![r] = events]
    BY DEF Commits, Events!Operation
  <2> QED BY <2>1, <2>2, BrokerTypes
          DEF Commits, Events!Operation, Events!streamVars, ServiceInv
<1>6. Len(todo'[r]) = m /\ \A i \in 1..m : todo'[r][i] = EventOf(r, i)
  BY <1>2, <1>5
<1>7. /\ LegCount(r)' = m
      /\ \A i : NewTransaction(r, i)' = NewTransaction(r, i)
      /\ \A i : EventOf(r, i)' = EventOf(r, i)
  BY <1>1 DEF LegCount, NewTransaction, EventOf
<1>14. ASSUME NEW i \in 1..m
       PROVE  accounts'[AccountOf(r, i)] = copies[r][AccountOf(r, i)]
  BY <1>1, CommitMoves
<1> HIDE DEF m, n
<1>8. PublishingInv(r)'
  <2>1. ASSUME NEW k \in RowsOf(r)'
        PROVE  \E i \in 1..m : journal'[k] = NewTransaction(r, i)
    BY <1>2, <1>3, <2>1 DEF RowsOf
  <2>2. \A j \in 1..m : 1 + j - 1 = j
    BY <1>2
  <2>3. m - 1 + 1 = m /\ 1..(1 - 1) = {}
    BY <1>2
  <2> QED BY <1>3, <1>6, <1>7, <2>1, <2>2, <2>3 DEF PublishingInv
<1>9. AnsweredInv(r)'
  BY <1>3 DEF AnsweredInv
<1>10. ASSUME NEW i \in 1..m, NEW event, event = EventOf(r, i)
       PROVE  Told(event)'
  <2>1. PICK k \in 1..Len(journal') : journal'[k] = NewTransaction(r, i)
    <3>1. n + i \in 1..Len(journal') /\ journal'[n + i] = NewTransaction(r, i)
      BY <1>2
    <3> QED BY <3>1
  <2>2. /\ NewTransaction(r, i).id = <<r, i>>
        /\ NewTransaction(r, i).account = AccountOf(r, i)
    BY DEF NewTransaction, AccountOf
  <2>3. EventOf(r, i) = [by |-> r, number |-> i, owner |-> copies[r][AccountOf(r, i)].owner]
    BY DEF EventOf, AccountOf
  <2>4. EventOfRow(k)'
          = [by |-> r, number |-> i, owner |-> copies[r][AccountOf(r, i)].owner]
    BY <1>14, <2>1, <2>2 DEF EventOfRow
  <2>5. EventOfRow(k)' = event
    BY <1>10, <2>3, <2>4
  <2> QED BY <2>1, <2>5 DEF Told
<1>11. ASSUME NEW event \in Events!In(todo'[r])
       PROVE  Told(event)'
  <2>1. PICK i \in 1..Len(todo'[r]) : event = todo'[r][i]
    BY <1>11 DEF Events!In
  <2>2. i \in 1..m /\ event = EventOf(r, i)
    BY <1>6, <2>1
  <2> QED BY <1>10, <2>2
<1>12. /\ Grows /\ AddsRowsOf({r})
       /\ \A u \in Request \ {r} : Same(u)
  BY <1>1, CommitGrows DEF Same, Inv, TypeOK
<1>13. \A s \in Stream : \A event \in Events!In(sent'[s]) \cup Events!In(buffer'[s]) :
        event \in Events!Reached(s)
  BY <1>5 DEF Events!Reached
<1> QED BY <1>5, <1>8, <1>9, <1>11, <1>12, <1>13, RequestsStep

\* The rows of a request that publishes, as events.
LEMMA RowsOfPublisher ==
  ASSUME LedgerInv, NEW r \in Request, pc[r] = "publish", PublishingInv(r),
         NEW k \in RowsOf(r)
  PROVE  \E i \in 1..LegCount(r) : EventOfRow(k) = EventOf(r, i)
<1>1. PICK i \in 1..LegCount(r) : journal[k] = NewTransaction(r, i)
  BY DEF PublishingInv
<1>2. /\ NewTransaction(r, i).id = <<r, i>>
      /\ NewTransaction(r, i).account = AccountOf(r, i)
  BY DEF NewTransaction, AccountOf
<1>3. accounts[AccountOf(r, i)].owner = copies[r][AccountOf(r, i)].owner
  BY DEF LedgerInv, JournalInv, OutcomeInv
<1>4. EventOf(r, i) = [by |-> r, number |-> i, owner |-> copies[r][AccountOf(r, i)].owner]
  BY DEF EventOf, AccountOf
<1>5. EventOfRow(k) = [by |-> r, number |-> i, owner |-> accounts[AccountOf(r, i)].owner]
  BY <1>1, <1>2 DEF EventOfRow
<1> QED BY <1>3, <1>4, <1>5

\* Broker.Publish returns: one more event is published, and after the last the client is
\* answered.
LEMMA ReturnsKeepsInv ==
  ASSUME LedgerInv, ServiceInv, [ServiceNext]_serviceVars, NEW r \in Request, Returns(r)
  PROVE  ServiceInv'
<1>1. /\ Inv /\ pc[r] = "publish" /\ UNCHANGED <<accounts, journal>> /\ PublishingInv(r)
      /\ finished' = finished \cup {Head(todo[r])}
      /\ todo' = [todo EXCEPT ![r] = Tail(@)]
      /\ UNCHANGED <<sent, buffer>>
  BY DEF LedgerInv, ServiceInv, Returns, Publish, Events!RUnlock, Events!streamVars
<1>2. LegCount(r) \in {1, 2} /\ step[r] \in 1..LegCount(r)
  BY <1>1, AdmittedFacts DEF Admitted
<1>3. /\ todo \in [Request -> Seq(Events!Event)] /\ todo[r] \in Seq(Events!Event)
      /\ Len(todo[r]) = LegCount(r) - step[r] + 1
      /\ \A j \in 1..Len(todo[r]) : todo[r][j] = EventOf(r, step[r] + j - 1)
      /\ \A i \in 1..(step[r] - 1) : EventOf(r, i) \in finished
  BY <1>1, BrokerTypes DEF PublishingInv, ServiceInv
<1>4. todo[r] # <<>>
  BY <1>2, <1>3
<1>5. /\ Head(todo[r]) = EventOf(r, step[r])
      /\ Len(Tail(todo[r])) = Len(todo[r]) - 1
      /\ \A j \in 1..Len(Tail(todo[r])) : Tail(todo[r])[j] = EventOf(r, step[r] + j)
      /\ Events!In(Tail(todo[r])) \subseteq Events!In(todo[r])
  <2>1. /\ Head(todo[r]) = todo[r][1] /\ 1 \in 1..Len(todo[r])
        /\ Len(Tail(todo[r])) = Len(todo[r]) - 1
        /\ \A i \in 1..Len(Tail(todo[r])) :
             i + 1 \in 1..Len(todo[r]) /\ Tail(todo[r])[i] = todo[r][i + 1]
        /\ Events!In(Tail(todo[r])) \subseteq Events!In(todo[r])
    BY <1>3, <1>4, FirstAndRest
  <2>2. step[r] + 1 - 1 = step[r]
    BY <1>2
  <2>3. ASSUME NEW j \in 1..Len(Tail(todo[r]))
        PROVE  Tail(todo[r])[j] = EventOf(r, step[r] + j)
    <3>1. step[r] + (j + 1) - 1 = step[r] + j
      BY <1>2
    <3> QED BY <1>3, <2>1, <3>1
  <2> QED BY <1>3, <2>1, <2>2, <2>3
<1>6. \A i \in 1..step[r] : EventOf(r, i) \in finished'
  BY <1>1, <1>2, <1>3, <1>5
<1>7. {r} \in SUBSET Request /\ Grows /\ AddsRowsOf({r})
  BY <1>1, SameTablesGrow DEF AddsRowsOf
<1>8. \A u \in Request \ {r} : Same(u)
  <2>1. CASE LastLeg(r)
    BY <1>1, <2>1, OneReturns DEF Returns, Publish
  <2>2. CASE ~LastLeg(r)
    BY <1>1, <2>2 DEF Returns, Publish, Same, Inv, TypeOK
  <2> QED BY <2>1, <2>2
<1>9. RowsOf(r)' = RowsOf(r) /\ \A k : EventOfRow(k)' = EventOfRow(k)
  BY <1>1 DEF RowsOf, EventOfRow
<1>10. PublishingInv(r)' /\ AnsweredInv(r)'
  <2>1. CASE LastLeg(r)
    <3>1. step[r] = LegCount(r)
      BY <2>1 DEF LastLeg, LegCount
    <3>2. pc'[r] = "done"
      BY <1>1, <2>1, OneReturns DEF Returns, Publish
    <3>3. ASSUME NEW k \in RowsOf(r)
          PROVE  EventOfRow(k) \in finished'
      <4>1. PICK i \in 1..LegCount(r) : EventOfRow(k) = EventOf(r, i)
        BY <1>1, RowsOfPublisher
      <4> QED BY <1>6, <3>1, <4>1
    <3>4. AnsweredInv(r)'
      BY <1>9, <3>3 DEF AnsweredInv
    <3> QED BY <3>2, <3>4 DEF PublishingInv
  <2>2. CASE ~LastLeg(r)
    <3>1. /\ pc' = pc /\ reply' = reply /\ reply[r] = "none"
          /\ step'[r] = step[r] + 1 /\ UNCHANGED <<op, copies, stamp>>
      BY <1>1, <2>2
         DEF Returns, Publish, Inv, TypeOK, LedgerInv, JournalInv, OutcomeInv
    <3>2. /\ LegCount(r)' = LegCount(r)
          /\ \A i : NewTransaction(r, i)' = NewTransaction(r, i)
          /\ \A i : EventOf(r, i)' = EventOf(r, i)
      BY <3>1 DEF LegCount, NewTransaction, EventOf
    <3>3. /\ todo'[r] = Tail(todo[r])
          /\ Len(todo'[r]) = LegCount(r) - step'[r] + 1
      BY <1>1, <1>2, <1>3, <1>5, <3>1
    <3>4. ASSUME NEW j \in 1..Len(todo'[r])
          PROVE  todo'[r][j] = EventOf(r, step'[r] + j - 1)
      <4>1. step'[r] + j - 1 = step[r] + j
        BY <1>2, <3>1
      <4> QED BY <1>5, <3>3, <4>1
    <3>6. ASSUME NEW i \in 1..(step'[r] - 1)
          PROVE  EventOf(r, i) \in finished'
      <4>1. i \in 1..step[r]
        BY <1>2, <3>1
      <4> QED BY <1>6, <4>1
    <3>7. \A k \in RowsOf(r) : \E i \in 1..LegCount(r) : journal'[k] = NewTransaction(r, i)
      BY <1>1 DEF PublishingInv
    <3>8. PublishingInv(r)'
      BY <1>9, <3>2, <3>3, <3>4, <3>6, <3>7 DEF PublishingInv
    <3>5. AnsweredInv(r)'
      BY <3>1 DEF AnsweredInv
    <3> QED BY <3>5, <3>8
  <2> QED BY <2>1, <2>2
<1>11. \A u \in Request : \A event \in Events!In(todo'[u]) : event \in Events!In(todo[u])
  BY <1>1, <1>3, <1>5
<1>12. \A s \in Stream : \A event \in Events!In(sent'[s]) \cup Events!In(buffer'[s]) :
         event \in Events!Reached(s)
  BY <1>1 DEF Events!Reached
<1>13. \A u \in Request \ {r} : todo'[u] = todo[u]
  BY <1>1, <1>3
<1> QED BY <1>1, <1>7, <1>8, <1>10, <1>11, <1>12, <1>13, RequestsStep
-----------------------------------------------------------------------------
\* ServiceInv is inductive, given what the ledger keeps by itself.

LEMMA ServiceStepKeepsInv ==
  ASSUME LedgerInv, ServiceInv, [ServiceNext]_serviceVars
  PROVE  ServiceInv'
<1>1. CASE UNCHANGED vars /\ UNCHANGED brokerVars
  <2>1. todo' = todo /\ finished' = finished /\ sent' = sent /\ buffer' = buffer
    BY <1>1 DEF brokerVars
  <2> QED BY <1>1, <2>1, StreamsStep DEF Events!Reached
<1>2. CASE TimePasses
  <2>1. /\ UNCHANGED <<accounts, journal>> /\ \A u \in Request : Same(u)
        /\ todo' = todo /\ finished' = finished /\ sent' = sent /\ buffer' = buffer
    BY <1>2 DEF TimePasses, Tick, dbVars, brokerVars, Same
  <2>2. Grows /\ AddsRowsOf({}) /\ {} \in SUBSET Request
    BY <2>1, SameTablesGrow DEF LedgerInv
  <2> QED BY <2>1, <2>2, RequestsStep DEF Events!Reached
<1>3. ASSUME NEW r \in Request, Proceeds(r) \/ Breaks(r) \/ Other(r)
      PROVE  ServiceInv'
  BY <1>3, WorkKeepsInv, CommitsKeepsInv, DeliversKeepsInv, ReturnsKeepsInv DEF Proceeds
<1>4. ASSUME NEW s \in Stream, Manages(s) \/ Ends(s) \/ Streams(s)
      PROVE  ServiceInv'
  BY <1>4, StreamKeepsInv
<1>5. CASE Dies
  BY <1>5, DiesKeepsInv
<1>6. CASE ServiceDone
  BY <1>1, <1>6 DEF ServiceDone
<1> QED BY <1>1, <1>2, <1>3, <1>4, <1>5, <1>6 DEF ServiceNext, serviceVars

LEMMA ServiceInitInv == ServiceInit => ServiceInv
<1> SUFFICES ASSUME ServiceInit
             PROVE  ServiceInv
  OBVIOUS
<1>1. Events!BrokerInv /\ Events!StreamsInv
  BY InitBroker DEF ServiceInit
<1>2. Events!In(<<>>) = {}
  BY DEF Events!In
<1>3. ToldInv
  BY <1>2 DEF ToldInv, Events!Reached, ServiceInit, Events!Init
<1>4. \A r \in Request : PublishingInv(r) /\ AnsweredInv(r)
  BY DEF PublishingInv, AnsweredInv, ServiceInit, Init
<1> QED BY <1>1, <1>3, <1>4 DEF ServiceInv

\* In every state of the service the ledger keeps its invariant, the broker its own, every
\* event tells of a committed row, and who is told 200 has had all its events published.
THEOREM ServiceInvHolds == ServiceSpec => [](LedgerInv /\ ServiceInv)
<1>1. LedgerInv /\ ServiceInv /\ [ServiceNext]_serviceVars => ServiceInv'
  BY ServiceStepKeepsInv
<1> QED BY <1>1, ServiceIsLedger, LedgerInvHolds, ServiceInitInv, PTL DEF ServiceSpec
-----------------------------------------------------------------------------
\* Whatever is rolled back, retried or lost, a stream shows committed rows only, and only
\* those of accounts its reader may access.
THEOREM StreamsTellTheTruth == ServiceSpec => []StreamsShowCommittedRows
<1>1. LedgerInv /\ ServiceInv => StreamsShowCommittedRows
  <2> SUFFICES ASSUME LedgerInv, ServiceInv, NEW s \in Stream, NEW i \in 1..Len(sent[s])
               PROVE  \E k \in 1..Len(journal) :
                        /\ journal[k].id = <<sent[s][i].by, sent[s][i].number>>
                        /\ CanAccess(StreamActor[s], accounts[journal[k].account])
    BY DEF StreamsShowCommittedRows
  <2> DEFINE event == sent[s][i]
  <2>1. event \in Events!In(sent[s])
    BY DEF Events!In
  <2>2. PICK k \in 1..Len(journal) : EventOfRow(k) = event
    BY <2>1 DEF ServiceInv, ToldInv, Events!Reached, Told
  <2>3. Events!Visible(s, event)
    BY <2>1 DEF ServiceInv, Events!StreamsInv, Events!DeliveryInv
  <2>4. journal[k].id \in Request \X {1, 2}
    BY CommittedRowFacts DEF LedgerInv, TransactionRow
  <2>5. /\ event.by = journal[k].id[1] /\ event.number = journal[k].id[2]
        /\ event.owner = accounts[journal[k].account].owner
    BY <2>2 DEF EventOfRow
  <2> QED BY <2>3, <2>4, <2>5 DEF Events!Visible, CanAccess
<1> QED BY <1>1, ServiceInvHolds, PTL

\* When a client is told 200, its events have gone to every stream that was open to them.
THEOREM AnswersFollowDelivery == ServiceSpec => []AnsweredIsDelivered
<1>1. LedgerInv /\ ServiceInv => AnsweredIsDelivered
  <2> SUFFICES ASSUME LedgerInv, ServiceInv, NEW r \in Request, NEW k \in RowsOf(r),
                      NEW s \in clients, reply[r] = "ok",
                      CanAccess(StreamActor[s], accounts[journal[k].account])
               PROVE  EventOfRow(k) \in Events!Met(s) \cup before[s]
    BY DEF AnsweredIsDelivered
  <2>1. EventOfRow(k) \in finished
    BY DEF ServiceInv, AnsweredInv
  <2>2. s \in Stream
    BY DEF ServiceInv, Events!BrokerInv, Events!BrokerTypeOK
  <2>3. Events!Visible(s, EventOfRow(k))
    BY DEF Events!Visible, CanAccess, EventOfRow
  <2> QED BY <2>1, <2>2, <2>3 DEF ServiceInv, Events!StreamsInv, Events!DeliveryInv
<1> QED BY <1>1, ServiceInvHolds, PTL

\* No request that has committed panics in the broker, whatever else the service does, and
\* although it may die and lose the subscriptions at any moment.
THEOREM PublishersNeverPanic == ServiceSpec => []Events!NobodyPanics
<1>1. ServiceInv => Events!NobodyPanics
  BY DEF ServiceInv, Events!BrokerInv, Events!BrokerTypeOK, Events!PublisherInv,
         Events!StreamInv, Events!NobodyPanics
<1> QED BY <1>1, ServiceInvHolds, PTL
=============================================================================
