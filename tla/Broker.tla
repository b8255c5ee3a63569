------------------------------- MODULE Broker -------------------------------
(***************************************************************************)
(* The event stream: events.Broker, the goroutines of money requests that  *)
(* publish to it, and for every GET /events the goroutine of its handler   *)
(* and the one Subscribe starts to end the subscription.                   *)
(*                                                                         *)
(* One action is what a goroutine does between two points where another    *)
(* can be noticed: taking or releasing the lock, a send, a receive.  The   *)
(* body of a writer's critical section is one step, with its Unlock.       *)
(*                                                                         *)
(* sync.RWMutex is Go's: a writer that waits for the readers inside keeps  *)
(* new ones out, and when it unlocks, those go in before the next writer.  *)
(***************************************************************************)
EXTENDS Integers, Sequences, FiniteSets

CONSTANTS
  Publisher,  \* money requests that were committed
  Stream,     \* GET /events requests
  User,       \* owners of accounts
  StreamActor,\* who opened each stream: [user, role]
  Operations, \* owners of the accounts of the rows one request has committed
  Capacity,   \* of a subscriber's channel: 16 in the code
  Nil         \* no writer

ASSUME CapacityAssumption == Capacity \in Nat \ {0}
ASSUME StreamActorAssumption ==
  StreamActor \in [Stream -> [user : User, role : {"customer", "admin"}]]
ASSUME OperationsAssumption ==
  Operations \subseteq {<<u>> : u \in User} \cup (User \X User)
ASSUME NoWriterAssumption == Nil \notin Stream

VARIABLES
  writer,     \* the stream whose goroutine is in, or announced to, mu.Lock
  readers,    \* publishers inside mu.RLock
  blocked,    \* publishers waiting in mu.RLock
  clients,    \* b.clients
  buffer,     \* contents of each client's channel
  closed,     \* whether it is closed
  publisher,  \* where each publishing goroutine is
  todo,       \* events it has still to publish, the one in hand first
  seen,       \* clients its loop has come to for the event in hand
  target,     \* the client its loop is at
  handler,    \* where the handler of each stream is
  closer,     \* where the goroutine that ends its subscription is
  cancelled,  \* whether its request's context is done
  sent,       \* events written to its client
  \* History, which no action reads:
  finished,   \* events whose Publish has returned
  before,     \* those of them published before the stream subscribed
  missed      \* events dropped because the stream's buffer was full

mu == <<writer, readers, blocked>>
publisherVars == <<publisher, todo, seen, target, finished>>
streamVars == <<handler, closer, cancelled, sent, before>>
vars == <<writer, readers, blocked, clients, buffer, closed, publisher, todo, seen, target,
          handler, closer, cancelled, sent, finished, before, missed>>

\* The events of one request are numbered in the order it publishes them.
Event == [by : Publisher, number : {1, 2}, owner : User]

\* events: the filter of the handler.
Visible(s, event) ==
  StreamActor[s].role = "admin" \/ event.owner = StreamActor[s].user

Init ==
  /\ writer = Nil /\ readers = {} /\ blocked = {}
  /\ clients = {}
  /\ buffer = [s \in Stream |-> <<>>]
  /\ closed = [s \in Stream |-> FALSE]
  /\ publisher = [p \in Publisher |-> "idle"]
  /\ todo = [p \in Publisher |-> <<>>]
  /\ seen = [p \in Publisher |-> {}]
  /\ target = [p \in Publisher |-> Nil]
  /\ handler = [s \in Stream |-> "idle"]
  /\ closer = [s \in Stream |-> "none"]
  /\ cancelled = [s \in Stream |-> FALSE]
  /\ sent = [s \in Stream |-> <<>>]
  /\ finished = {}
  /\ before = [s \in Stream |-> {}]
  /\ missed = [s \in Stream |-> {}]
-----------------------------------------------------------------------------
\* mu.Unlock: the readers that were waiting go in.
Unlock ==
  /\ writer' = Nil
  /\ readers' = blocked
  /\ blocked' = {}

\* A usecase reaches publish with the one or two rows it has committed.
Operation(p) ==
  /\ publisher[p] = "idle"
  /\ \E owners \in Operations :
       todo' = [todo EXCEPT ![p] =
                  [i \in 1..Len(owners) |-> [by |-> p, number |-> i, owner |-> owners[i]]]]
  /\ publisher' = [publisher EXCEPT ![p] = "publish"]
  /\ UNCHANGED <<mu, clients, buffer, closed, seen, target, finished, streamVars,
                 missed>>

\* Publish: mu.RLock
RLock(p) ==
  /\ publisher[p] = "publish"
  /\ p \notin readers \cup blocked
  /\ \/ writer = Nil /\ readers' = readers \cup {p} /\ UNCHANGED blocked
     \/ writer # Nil /\ blocked' = blocked \cup {p} /\ UNCHANGED readers
  /\ UNCHANGED <<writer, clients, buffer, closed, publisherVars, streamVars, missed>>

\* The range over b.clients gives it the next client.
Range(p) ==
  /\ p \in readers /\ target[p] = Nil
  /\ \E s \in clients \ seen[p] :
       /\ target' = [target EXCEPT ![p] = s]
       /\ seen' = [seen EXCEPT ![p] = @ \cup {s}]
  /\ UNCHANGED <<mu, clients, buffer, closed, publisher, todo, finished, streamVars,
                 missed>>

HasRoom(s) == Len(buffer[s]) < Capacity
Deliver(p, s) == buffer' = [buffer EXCEPT ![s] = Append(@, Head(todo[p]))]
Drop(p, s) == missed' = [missed EXCEPT ![s] = @ \cup {Head(todo[p])}]

\* Mutant of Send: it waits for the subscriber, without a default case.
SendWaits(p, s) ==
  /\ target[p] = s /\ ~closed[s] /\ HasRoom(s)
  /\ Deliver(p, s)
  /\ target' = [target EXCEPT ![p] = Nil]
  /\ UNCHANGED <<mu, clients, closed, publisher, todo, seen, finished, streamVars, missed>>

\* Mutant of Send: the default case returns from the loop.
SendGivesUp(p, s) ==
  /\ target[p] = s /\ ~closed[s]
  /\ \/ HasRoom(s) /\ Deliver(p, s) /\ UNCHANGED <<seen, missed>>
     \/ /\ ~HasRoom(s) /\ Drop(p, s)
        /\ seen' = [seen EXCEPT ![p] = clients] /\ UNCHANGED buffer
  /\ target' = [target EXCEPT ![p] = Nil]
  /\ UNCHANGED <<mu, clients, closed, publisher, todo, finished, streamVars>>

\* Mutant of Send: the default case has the event sent again, after the others.
SendLater(p, s) ==
  /\ target[p] = s /\ ~closed[s]
  /\ \/ HasRoom(s) /\ Deliver(p, s) /\ UNCHANGED <<todo, missed>>
     \/ /\ ~HasRoom(s) /\ Drop(p, s) /\ UNCHANGED buffer
        /\ todo' = [todo EXCEPT ![p] = Append(@, Head(@))]
  /\ target' = [target EXCEPT ![p] = Nil]
  /\ UNCHANGED <<mu, clients, closed, publisher, seen, finished, streamVars>>

\* The select of Publish.  (A send on a closed channel would panic.)
Send(p, s) ==
  /\ target[p] = s
  /\ \/ HasRoom(s) /\ Deliver(p, s) /\ UNCHANGED missed
     \/ ~HasRoom(s) /\ Drop(p, s) /\ UNCHANGED buffer
  /\ target' = [target EXCEPT ![p] = Nil]
  /\ UNCHANGED <<mu, clients, closed, publisher, todo, seen, finished, streamVars>>

\* The loop ends, and Publish returns: mu.RUnlock
RUnlock(p) ==
  /\ p \in readers /\ target[p] = Nil
  /\ clients \subseteq seen[p]
  /\ readers' = readers \ {p}
  /\ finished' = finished \cup {Head(todo[p])}
  /\ todo' = [todo EXCEPT ![p] = Tail(@)]
  /\ seen' = [seen EXCEPT ![p] = {}]
  /\ publisher' = [publisher EXCEPT ![p] = IF todo'[p] = <<>> THEN "done" ELSE "publish"]
  /\ UNCHANGED <<writer, blocked, clients, buffer, closed, target, streamVars, missed>>
-----------------------------------------------------------------------------
\* GET /events
Open(s) ==
  /\ handler[s] = "idle"
  /\ handler' = [handler EXCEPT ![s] = "subscribe"]
  /\ UNCHANGED <<mu, clients, buffer, closed, publisherVars, closer, cancelled, sent,
                 before, missed>>

\* mu.Lock, up to the wait for the readers inside: of Subscribe, or of the
\* goroutine it started, which has been waiting for <-ctx.Done().
Lock(s) ==
  /\ handler[s] = "subscribe" \/ (closer[s] = "wait" /\ cancelled[s])
  /\ writer = Nil
  /\ writer' = s
  /\ UNCHANGED <<readers, blocked, clients, buffer, closed, publisherVars, streamVars,
                 missed>>

\* mu.Lock has returned.
Exclusive(s) == writer = s /\ readers = {}

\* Mutant of Subscribe: nothing waits for the request to end.
SubscribeForEver(s) ==
  /\ handler[s] = "subscribe" /\ Exclusive(s)
  /\ clients' = clients \cup {s}
  /\ handler' = [handler EXCEPT ![s] = "stream"]
  /\ before' = [before EXCEPT ![s] = finished]
  /\ Unlock
  /\ UNCHANGED <<buffer, closed, publisherVars, closer, cancelled, sent, missed>>

\* Subscribe registers the channel and starts the goroutine that will close it.
Subscribe(s) ==
  /\ handler[s] = "subscribe"
  /\ Exclusive(s)
  /\ clients' = clients \cup {s}
  /\ handler' = [handler EXCEPT ![s] = "stream"]
  /\ closer' = [closer EXCEPT ![s] = "wait"]
  /\ before' = [before EXCEPT ![s] = finished]
  /\ Unlock
  /\ UNCHANGED <<buffer, closed, publisherVars, cancelled, sent, missed>>

\* The client goes away, or the server's connection to it is lost.
Disconnect(s) ==
  /\ handler[s] # "idle"
  /\ ~cancelled[s]
  /\ cancelled' = [cancelled EXCEPT ![s] = TRUE]
  /\ UNCHANGED <<mu, clients, buffer, closed, publisherVars, handler, closer, sent,
                 before, missed>>

\* Mutant of Delete: the goroutine does not take the lock.
DeleteUnlocked(s) ==
  /\ closer[s] = "wait" /\ cancelled[s]
  /\ clients' = clients \ {s}
  /\ closer' = [closer EXCEPT ![s] = "close"]
  /\ UNCHANGED <<mu, buffer, closed, publisherVars, handler, cancelled, sent, before,
                 missed>>

\* The woken goroutine deletes its client.
Delete(s) ==
  /\ closer[s] = "wait"
  /\ Exclusive(s)
  /\ clients' = clients \ {s}
  /\ closer' = [closer EXCEPT ![s] = "close"]
  /\ UNCHANGED <<mu, buffer, closed, publisherVars, handler, cancelled, sent, before,
                 missed>>

\* It closes its channel.
Close(s) ==
  /\ closer[s] = "close"
  /\ closed' = [closed EXCEPT ![s] = TRUE]
  /\ closer' = [closer EXCEPT ![s] = "done"]
  /\ Unlock
  /\ UNCHANGED <<clients, buffer, publisherVars, handler, cancelled, sent, before, missed>>

\* The loop of the handler receives an event, and writes it if it may be seen.
Receive(s) ==
  /\ handler[s] = "stream"
  /\ buffer[s] # <<>>
  /\ buffer' = [buffer EXCEPT ![s] = Tail(@)]
  /\ sent' = [sent EXCEPT ![s] =
                IF Visible(s, Head(buffer[s])) THEN Append(@, Head(buffer[s])) ELSE @]
  /\ UNCHANGED <<mu, clients, closed, publisherVars, handler, closer, cancelled, before,
                 missed>>

\* It returns when the context is done, or the channel closed and empty.
Return(s) ==
  /\ handler[s] = "stream"
  /\ cancelled[s] \/ (closed[s] /\ buffer[s] = <<>>)
  /\ handler' = [handler EXCEPT ![s] = "returned"]
  /\ UNCHANGED <<mu, clients, buffer, closed, publisherVars, closer, cancelled, sent,
                 before, missed>>

\* All requests have ended.
AllDone ==
  /\ \A p \in Publisher : publisher[p] = "done"
  /\ \A s \in Stream : handler[s] = "returned" /\ closer[s] = "done"
  /\ UNCHANGED vars

Publish(p) == RLock(p) \/ Range(p) \/ (\E s \in Stream : Send(p, s)) \/ RUnlock(p)
Manage(s) == Lock(s) \/ Subscribe(s) \/ Delete(s) \/ Close(s)

Next ==
  \/ \E p \in Publisher : Operation(p) \/ Publish(p)
  \/ \E s \in Stream :
       Open(s) \/ Manage(s) \/ Disconnect(s) \/ Receive(s) \/ Return(s)
  \/ AllDone

Spec == Init /\ [][Next]_vars

\* Goroutines that can run are run, and a handler notices that its context is
\* done.  Nothing is owed by a client: it may read slowly or never, which keeps
\* its handler from receiving, and it need not disconnect.
FairSpec ==
  /\ Spec
  /\ \A p \in Publisher : WF_vars(Publish(p))
  /\ \A s \in Stream : WF_vars(Manage(s)) /\ WF_vars(Return(s))
=============================================================================
