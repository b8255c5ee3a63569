-------------------------- MODULE TransactionService --------------------------
(***************************************************************************)
(* The transaction service as one process: the handlers of module Ledger,  *)
(* and the broker of module Broker, to which they publish what they have   *)
(* committed.  The goroutine of a request is a publisher of the broker     *)
(* between its COMMIT and its answer; the event streams run beside it.     *)
(***************************************************************************)
EXTENDS Ledger

CONSTANTS
  Stream,       \* GET /events requests
  StreamActor,  \* who opened each of them: [user, role]
  Capacity      \* of a subscriber's channel

ASSUME ServiceAssumption ==
  /\ Capacity \in Nat \ {0}
  /\ StreamActor \in [Stream -> [user : User, role : {"customer", "admin"}]]
  /\ Nil \notin Stream

VARIABLES
  writer, readers, blocked, clients, buffer, closed, publisher, todo, seen, target,
  handler, closer, cancelled, sent, finished, before, missed

brokerVars ==
  <<writer, readers, blocked, clients, buffer, closed, publisher, todo, seen, target,
    handler, closer, cancelled, sent, finished, before, missed>>

\* An operation touches the accounts of one owner, or of two.
OneOrTwoOwners == {<<u>> : u \in User} \cup (User \X User)

Events ==
  INSTANCE BrokerProperties WITH Publisher <- Request, Operations <- OneOrTwoOwners

\* The event of leg i, whose row is the one with id <<r, i>>.
EventOf(r, i) ==
  [by |-> r, number |-> i, owner |-> copies[r][Legs(op[r])[i].account].owner]

ServiceInit == Init /\ Events!Init
-----------------------------------------------------------------------------
\* Mutant of Commits: a transfer's events all go to the owner of its source.
CommitsForTheSource(r) ==
  /\ Commit(r)
  /\ Events!Operation(r)
  /\ todo'[r] = [i \in DOMAIN Legs(op[r]) |->
                   [EventOf(r, i) EXCEPT !.owner = EventOf(r, 1).owner]]

\* WithinTx returns nil: the goroutine goes on to publish the rows of its legs.
Commits(r) ==
  /\ Commit(r)
  /\ Events!Operation(r)
  /\ todo'[r] = [i \in DOMAIN Legs(op[r]) |-> EventOf(r, i)]

\* It is inside Broker.Publish.
Delivers(r) ==
  /\ Events!RLock(r) \/ Events!Range(r) \/ \E s \in Stream : Events!Send(r, s)
  /\ UNCHANGED vars

\* Mutant of Returns: publish leaves the broker to a goroutine of its own.
ReturnsAtOnce(r) == Publish(r) /\ UNCHANGED brokerVars

\* Broker.Publish returns: on to the next event, or to the answer.
Returns(r) == Publish(r) /\ Events!RUnlock(r)

\* The goroutine of a request outside the broker.
Works(r) == Advance(r) /\ pc[r] \notin {"commit", "publish"} /\ UNCHANGED brokerVars
Breaks(r) == BreakDeadlock(r) /\ UNCHANGED brokerVars
Other(r) ==
  /\ Receive(r) \/ CreateAccount(r) \/ CommitUnacknowledged(r) \/ StatementFails(r)
  /\ UNCHANGED brokerVars

\* The goroutines of an event stream, and its client.
Ends(s) == Events!Return(s) /\ UNCHANGED vars
Manages(s) == Events!Manage(s) /\ UNCHANGED vars
Streams(s) ==
  /\ Events!Open(s) \/ Events!Disconnect(s) \/ Events!Receive(s)
  /\ UNCHANGED vars

\* The process dies: with the requests it loses the broker, the streams that are open and
\* the events that wait in their channels.  What clients have been sent they have.
Dies ==
  /\ Crash
  /\ writer' = Nil /\ readers' = {} /\ blocked' = {} /\ clients' = {}
  /\ publisher' = [r \in Request |-> IF publisher[r] = "idle" THEN "idle" ELSE "done"]
  /\ todo' = [r \in Request |-> <<>>]
  /\ seen' = [r \in Request |-> {}]
  /\ target' = [r \in Request |-> Nil]
  /\ buffer' = [s \in Stream |-> <<>>]
  /\ handler' = [s \in Stream |-> IF handler[s] = "idle" THEN "idle" ELSE "returned"]
  /\ closer' = [s \in Stream |-> IF handler[s] = "idle" THEN "none" ELSE "done"]
  /\ closed' = [s \in Stream |-> handler[s] # "idle"]
  /\ cancelled' = [s \in Stream |-> handler[s] # "idle"]
  /\ UNCHANGED <<sent, finished, before, missed>>

TimePasses == Tick /\ UNCHANGED brokerVars

\* All requests and all streams have ended.
ServiceDone ==
  /\ \A r \in Request : pc[r] = "done"
  /\ \A s \in Stream : handler[s] = "returned" /\ closer[s] = "done"
  /\ UNCHANGED <<vars, brokerVars>>

\* The goroutine of a request takes a step by itself.
Proceeds(r) == Works(r) \/ Commits(r) \/ Delivers(r) \/ Returns(r)

ServiceNext ==
  \/ \E r \in Request : Proceeds(r) \/ Breaks(r) \/ Other(r)
  \/ \E s \in Stream : Manages(s) \/ Ends(s) \/ Streams(s)
  \/ Dies
  \/ TimePasses
  \/ ServiceDone

serviceVars == <<vars, brokerVars>>

ServiceSpec == ServiceInit /\ [][ServiceNext]_serviceVars

\* A goroutine that can run is run, and the database breaks deadlocks; faults, requests,
\* readers and time are not owed.
ServiceFairSpec ==
  /\ ServiceSpec
  /\ \A r \in Request : WF_serviceVars(Proceeds(r)) /\ WF_serviceVars(Breaks(r))
  /\ \A s \in Stream : WF_serviceVars(Manages(s)) /\ WF_serviceVars(Ends(s))
=============================================================================
