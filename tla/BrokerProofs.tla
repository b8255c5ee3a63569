---------------------------- MODULE BrokerProofs ----------------------------
(***************************************************************************)
(* Proofs that BrokerInv is inductive, for any number of publishers and    *)
(* streams and any capacity, and of what it implies.                       *)
(***************************************************************************)
EXTENDS BrokerProperties, TLAPS

\* When the service starts there are no subscribers.
LEMMA BrokerInitInv == Init => BrokerInv
<1> SUFFICES ASSUME Init
             PROVE  BrokerInv
  OBVIOUS
<1> USE DEF Init
<1>1. BrokerTypeOK
  BY CapacityAssumption DEF BrokerTypeOK, CapacityAssumption
<1>2. \A p \in Publisher : PublisherInv(p)
  BY DEF PublisherInv
<1>3. \A s \in Stream : StreamInv(s)
  BY DEF StreamInv
<1> QED BY <1>1, <1>2, <1>3 DEF BrokerInv

\* The events of an operation, in a sequence that is not empty.
LEMMA OperationEvents ==
  ASSUME NEW p \in Publisher, NEW owners \in Operations
  PROVE  LET events == [i \in 1..Len(owners) |->
                          [by |-> p, number |-> i, owner |-> owners[i]]]
         IN  events \in Seq(Event) /\ events # <<>>
<1> DEFINE events == [i \in 1..Len(owners) |->
                        [by |-> p, number |-> i, owner |-> owners[i]]]
<1>1. /\ Len(owners) \in {1, 2}
      /\ \A i \in 1..Len(owners) : owners[i] \in User
  <2>1. CASE owners \in {<<u>> : u \in User}
    BY <2>1
  <2>2. CASE owners \in User \X User
    <3>1. PICK u \in User, v \in User : owners = <<u, v>>
      BY <2>2
    <3> QED BY <3>1
  <2>3. owners \in {<<u>> : u \in User} \cup (User \X User)
    BY OperationsAssumption DEF OperationsAssumption
  <2> QED BY <2>1, <2>2, <2>3
<1>2. \A i \in 1..Len(owners) : events[i] \in Event
  BY <1>1 DEF Event
<1>3. Len(owners) \in Nat /\ 1 \in 1..Len(owners)
  BY <1>1
<1>4. events \in Seq(Event)
  BY <1>2, <1>3
<1>5. events # <<>>
  <2>1. DOMAIN events = 1..Len(owners)
    OBVIOUS
  <2> HIDE DEF events
  <2> QED BY <1>3, <2>1
<1> QED BY <1>4, <1>5

\* A publisher's step that only moves itself preserves the invariant.
LEMMA OperationKeepsInv ==
  ASSUME BrokerInv, NEW p \in Publisher, Operation(p)
  PROVE  BrokerInv'
<1> USE DEF Operation, mu, streamVars
<1>1. PICK events \in Seq(Event) : events # <<>> /\ todo' = [todo EXCEPT ![p] = events]
  BY OperationEvents
<1>2. BrokerTypeOK'
  BY <1>1 DEF BrokerInv, BrokerTypeOK
<1>3. \A q \in Publisher : PublisherInv(q)'
  BY <1>1 DEF BrokerInv, BrokerTypeOK, PublisherInv
<1>4. \A s \in Stream : StreamInv(s)'
  BY DEF BrokerInv, StreamInv
<1> QED BY <1>2, <1>3, <1>4 DEF BrokerInv

\* mu.RLock does: a publisher goes in only if no writer is there.
LEMMA RLockKeepsInv ==
  ASSUME BrokerInv, NEW p \in Publisher, RLock(p)
  PROVE  BrokerInv'
<1> USE DEF RLock, publisherVars, streamVars
<1>1. BrokerTypeOK'
  BY DEF BrokerInv, BrokerTypeOK
<1>2. (readers \cap blocked)' = {}
  BY DEF BrokerInv
<1>3. \A q \in Publisher : PublisherInv(q)'
  BY DEF BrokerInv, BrokerTypeOK, PublisherInv
<1>4. ASSUME NEW s \in Stream
      PROVE  StreamInv(s)'
  BY NoWriterAssumption DEF BrokerInv, StreamInv, NoWriterAssumption
<1> QED BY <1>1, <1>2, <1>3, <1>4 DEF BrokerInv

\* Coming to a client, sending to it or dropping the event does.
LEMMA RangeAndSendKeepInv ==
  ASSUME BrokerInv, NEW p \in Publisher,
         Range(p) \/ \E s \in Stream : Send(p, s)
  PROVE  BrokerInv'
<1>1. CASE Range(p)
  <2> USE <1>1 DEF Range, mu, streamVars
  <2>1. BrokerTypeOK'
    BY DEF BrokerInv, BrokerTypeOK
  <2>2. \A q \in Publisher : PublisherInv(q)'
    BY DEF BrokerInv, BrokerTypeOK, PublisherInv
  <2>3. \A s \in Stream : StreamInv(s)'
    BY DEF BrokerInv, StreamInv
  <2> QED BY <2>1, <2>2, <2>3 DEF BrokerInv
<1>2. ASSUME NEW s \in Stream, Send(p, s)
      PROVE  BrokerInv'
  <2> USE <1>2 DEF Send, mu, streamVars
  <2>1. Head(todo[p]) \in Event
    <3>1. p \in readers
      BY NoWriterAssumption DEF BrokerInv, PublisherInv, NoWriterAssumption
    <3>2. todo[p] \in Seq(Event) /\ todo[p] # <<>>
      BY <3>1 DEF BrokerInv, PublisherInv, BrokerTypeOK
    <3> QED BY <3>2
  <2>2. BrokerTypeOK'
    <3>1. CASE HasRoom(s) /\ Deliver(p, s) /\ UNCHANGED missed
      <4>1. Append(buffer[s], Head(todo[p])) \in Seq(Event)
        BY <2>1 DEF BrokerInv, BrokerTypeOK
      <4>2. Len(Append(buffer[s], Head(todo[p]))) <= Capacity
        BY <2>1, <3>1, CapacityAssumption
           DEF BrokerInv, BrokerTypeOK, HasRoom, CapacityAssumption
      <4> QED BY <3>1, <4>1, <4>2 DEF BrokerInv, BrokerTypeOK, Deliver
    <3>2. CASE ~HasRoom(s) /\ Drop(p, s) /\ UNCHANGED buffer
      BY <2>1, <3>2 DEF BrokerInv, BrokerTypeOK, Drop
    <3> QED BY <3>1, <3>2
  <2>3. \A q \in Publisher : PublisherInv(q)'
    BY DEF BrokerInv, BrokerTypeOK, PublisherInv
  <2>4. \A t \in Stream : StreamInv(t)'
    BY DEF BrokerInv, StreamInv
  <2> QED BY <2>2, <2>3, <2>4 DEF BrokerInv
<1> QED BY <1>1, <1>2

\* mu.RUnlock does.
LEMMA RUnlockKeepsInv ==
  ASSUME BrokerInv, NEW p \in Publisher, RUnlock(p)
  PROVE  BrokerInv'
<1> USE DEF RUnlock, streamVars
<1>1. todo[p] \in Seq(Event) /\ todo[p] # <<>>
  BY DEF BrokerInv, PublisherInv, BrokerTypeOK
<1>2. Head(todo[p]) \in Event /\ Tail(todo[p]) \in Seq(Event)
  BY <1>1
<1>3. BrokerTypeOK'
  BY <1>2 DEF BrokerInv, BrokerTypeOK
<1>4. ASSUME NEW q \in Publisher
      PROVE  PublisherInv(q)'
  <2>1. CASE q = p
    <3>1. /\ p \notin readers' \cup blocked'
          /\ seen'[p] = {} /\ target'[p] = Nil
          /\ publisher'[p] = "publish" => todo'[p] # <<>>
      BY DEF BrokerInv, BrokerTypeOK
    <3> QED BY <2>1, <3>1 DEF PublisherInv
  <2>2. CASE q # p
    BY <2>2 DEF BrokerInv, BrokerTypeOK, PublisherInv
  <2> QED BY <2>1, <2>2
<1>5. \A s \in Stream : StreamInv(s)'
  BY DEF BrokerInv, StreamInv
<1> QED BY <1>3, <1>4, <1>5 DEF BrokerInv

\* So do the steps of streams that change neither the map nor who holds the lock.
LEMMA QuietStreamKeepsInv ==
  ASSUME BrokerInv, NEW s \in Stream,
         Open(s) \/ Disconnect(s) \/ Receive(s) \/ Return(s)
  PROVE  BrokerInv'
<1> USE DEF mu, publisherVars, Open, Disconnect, Receive, Return
<1>1. BrokerTypeOK'
  <2>1. CASE Receive(s)
    <3>1. buffer[s] \in Seq(Event) /\ buffer[s] # <<>>
      BY <2>1 DEF BrokerInv, BrokerTypeOK
    <3>2. /\ Head(buffer[s]) \in Event /\ Tail(buffer[s]) \in Seq(Event)
          /\ Len(Tail(buffer[s])) <= Len(buffer[s])
      BY <3>1
    <3>3. /\ buffer' \in [Stream -> Seq(Event)]
          /\ \A t \in Stream : Len(buffer'[t]) <= Capacity
      BY <2>1, <3>1, <3>2, CapacityAssumption
         DEF BrokerInv, BrokerTypeOK, CapacityAssumption
    <3>4. sent' \in [Stream -> Seq(Event)]
      BY <2>1, <3>2 DEF BrokerInv, BrokerTypeOK
    <3> QED BY <2>1, <3>3, <3>4 DEF BrokerInv, BrokerTypeOK
  <2>2. CASE Open(s) \/ Disconnect(s) \/ Return(s)
    BY <2>2 DEF BrokerInv, BrokerTypeOK
  <2> QED BY <2>1, <2>2
<1>2. \A p \in Publisher : PublisherInv(p)'
  BY DEF BrokerInv, PublisherInv
<1>3. \A t \in Stream : StreamInv(t)'
  BY DEF BrokerInv, BrokerTypeOK, StreamInv
<1> QED BY <1>1, <1>2, <1>3 DEF BrokerInv

\* A writer announces itself; another one that closes a channel holds the lock.
LEMMA LockKeepsInv ==
  ASSUME BrokerInv, NEW s \in Stream, Lock(s)
  PROVE  BrokerInv'
<1> USE DEF Lock, publisherVars, streamVars
<1>1. BrokerTypeOK'
  BY DEF BrokerInv, BrokerTypeOK
<1>2. \A p \in Publisher : PublisherInv(p)'
  BY DEF BrokerInv, PublisherInv
<1>3. \A t \in Stream : StreamInv(t)'
  BY NoWriterAssumption DEF BrokerInv, StreamInv, NoWriterAssumption
<1> QED BY <1>1, <1>2, <1>3 DEF BrokerInv

\* No publisher has reached a client when a writer is inside; those that were
\* waiting have not begun their loop.
LEMMA NobodyInside ==
  ASSUME BrokerInv, readers = {}
  PROVE  \A p \in Publisher : seen[p] = {} /\ target[p] = Nil
BY DEF BrokerInv, PublisherInv

\* Subscribing, and the two halves of unsubscribing, preserve the invariant.
LEMMA WriterKeepsInv ==
  ASSUME BrokerInv, NEW s \in Stream, Subscribe(s) \/ Delete(s) \/ Close(s)
  PROVE  BrokerInv'
<1> USE DEF Subscribe, Delete, Close, mu, publisherVars, Unlock, Exclusive
<1>0. writer = s /\ readers = {}
  BY DEF BrokerInv, StreamInv
<1>1. BrokerTypeOK'
  <2>1. CASE Subscribe(s)
    BY <2>1 DEF BrokerInv, BrokerTypeOK
  <2>2. CASE Delete(s)
    BY <2>2 DEF BrokerInv, BrokerTypeOK
  <2>3. CASE Close(s)
    BY <2>3 DEF BrokerInv, BrokerTypeOK
  <2> QED BY <2>1, <2>2, <2>3
<1>2. (readers \cap blocked)' = {}
  BY <1>0 DEF BrokerInv
<1>3. ASSUME NEW p \in Publisher
      PROVE  PublisherInv(p)'
  <2>1. seen[p] = {} /\ target[p] = Nil
    BY <1>0, NobodyInside
  <2>2. /\ seen'[p] = {} /\ target'[p] = Nil /\ publisher' = publisher /\ todo' = todo
        /\ readers' \cup blocked' = readers \cup blocked
    BY <1>0, <2>1
  <2> QED BY <2>2 DEF BrokerInv, PublisherInv
<1>4. ASSUME NEW t \in Stream
      PROVE  StreamInv(t)'
  BY <1>0 DEF BrokerInv, BrokerTypeOK, StreamInv
<1> QED BY <1>1, <1>2, <1>3, <1>4 DEF BrokerInv

\* Every step of the event stream preserves the invariant.
LEMMA BrokerNextKeepsInv ==
  ASSUME BrokerInv, [Next]_vars
  PROVE  BrokerInv'
<1>1. ASSUME NEW p \in Publisher, Operation(p) \/ Publish(p)
      PROVE  BrokerInv'
  BY <1>1, OperationKeepsInv, RLockKeepsInv, RangeAndSendKeepInv, RUnlockKeepsInv
     DEF Publish
<1>2. ASSUME NEW s \in Stream,
             Open(s) \/ Manage(s) \/ Disconnect(s) \/ Receive(s) \/ Return(s)
      PROVE  BrokerInv'
  BY <1>2, QuietStreamKeepsInv, LockKeepsInv, WriterKeepsInv DEF Manage
<1>3. CASE AllDone \/ UNCHANGED vars
  <2> USE <1>3 DEF AllDone, vars
  <2>1. BrokerTypeOK'
    BY DEF BrokerInv, BrokerTypeOK
  <2>2. \A p \in Publisher : PublisherInv(p)'
    BY DEF BrokerInv, PublisherInv
  <2>3. \A s \in Stream : StreamInv(s)'
    BY DEF BrokerInv, StreamInv
  <2> QED BY <2>1, <2>2, <2>3 DEF BrokerInv
<1> QED BY <1>1, <1>2, <1>3 DEF Next
-----------------------------------------------------------------------------
\* The invariant holds of every reachable state.
THEOREM BrokerInvHolds == Spec => []BrokerInv
<1>1. BrokerInv /\ [Next]_vars => BrokerInv'
  BY BrokerNextKeepsInv
<1> QED BY <1>1, BrokerInitInv, PTL DEF Spec

\* A publisher never sends on a closed channel, and never ranges over a map that
\* changes: the read lock it holds keeps every writer out.
THEOREM PublishersAreSafe == Spec => []NobodyPanics
<1>1. BrokerInv => NobodyPanics
  BY DEF BrokerInv, PublisherInv, StreamInv, NobodyPanics, BrokerTypeOK
<1> QED BY <1>1, BrokerInvHolds, PTL
-----------------------------------------------------------------------------
\* What streams receive.

LEMMA InIsEvents ==
  ASSUME NEW q \in Seq(Event)
  PROVE  In(q) \subseteq Event /\ In(<<>>) = {}
BY DEF In

LEMMA InAppend ==
  ASSUME NEW q \in Seq(Event), NEW e \in Event
  PROVE  /\ In(Append(q, e)) = In(q) \cup {e}
         /\ Rising(q) /\ (\A f \in In(q) : f.by = e.by => f.number < e.number)
              => Rising(Append(q, e))
<1> DEFINE n == Len(q)
           longer == Append(q, e)
<1>1. /\ n \in Nat /\ Len(longer) = n + 1 /\ longer[n + 1] = e
      /\ \A i \in 1..n : longer[i] = q[i]
      /\ \A i \in 1..(n + 1) : i \in 1..n \/ i = n + 1
      /\ n + 1 \in 1..(n + 1) /\ 1..n \subseteq 1..(n + 1)
  OBVIOUS
<1> HIDE DEF n, longer
<1>2. In(longer) = In(q) \cup {e}
  BY <1>1 DEF In, n
<1>3. ASSUME Rising(q), \A f \in In(q) : f.by = e.by => f.number < e.number,
             NEW j \in 1..(n + 1), NEW i \in 1..(j - 1), longer[i].by = longer[j].by
      PROVE  longer[i].number < longer[j].number
  <2>1. i \in 1..n
    BY <1>1
  <2>2. CASE j \in 1..n
    BY <1>1, <1>3, <2>1, <2>2 DEF Rising, n
  <2>3. CASE j = n + 1
    BY <1>1, <1>3, <2>1, <2>3 DEF In, n
  <2> QED BY <1>1, <2>2, <2>3
<1> QED BY <1>1, <1>2, <1>3 DEF Rising, longer

LEMMA InTail ==
  ASSUME NEW q \in Seq(Event), q # <<>>
  PROVE  /\ Head(q) \in In(q) /\ Head(q) = q[1] /\ Head(q) \in Event
         /\ Tail(q) \in Seq(Event) /\ Len(Tail(q)) = Len(q) - 1
         /\ Len(q) \in Nat /\ 1 \in 1..Len(q)
         /\ \A i \in 1..Len(Tail(q)) : i + 1 \in 1..Len(q) /\ Tail(q)[i] = q[i + 1]
         /\ In(q) = In(Tail(q)) \cup {Head(q)}
         /\ Rising(q) => /\ Rising(Tail(q))
                         /\ \A f \in In(Tail(q)) :
                              Head(q).by = f.by => Head(q).number < f.number
<1> DEFINE n == Len(q)
           rest == Tail(q)
           first == Head(q)
<1>1. /\ n \in Nat /\ n >= 1 /\ rest \in Seq(Event) /\ Len(rest) = n - 1
      /\ first = q[1] /\ first \in Event
  OBVIOUS
<1>2. \A i \in 1..Len(rest) : i + 1 \in 1..n /\ rest[i] = q[i + 1]
  OBVIOUS
<1> HIDE DEF n, rest, first
<1>3. \A i \in 1..n : i = 1 \/ (i - 1 \in 1..Len(rest) /\ (i - 1) + 1 = i)
  BY <1>1
<1>4. In(q) = In(rest) \cup {first} /\ first \in In(q)
  <2>1. 1 \in 1..n
    BY <1>1
  <2>2. ASSUME NEW e \in In(q)
        PROVE  e \in In(rest) \cup {first}
    <3>1. PICK i \in 1..n : e = q[i]
      BY <2>2 DEF In, n
    <3>2. CASE i = 1
      BY <1>1, <3>1, <3>2
    <3>3. CASE i - 1 \in 1..Len(rest) /\ (i - 1) + 1 = i
      <4>1. rest[i - 1] = q[i]
        BY <1>2, <3>3
      <4> QED BY <3>1, <3>3, <4>1 DEF In
    <3> QED BY <1>3, <3>2, <3>3
  <2>3. In(rest) \subseteq In(q)
    BY <1>2 DEF In, n
  <2>4. first \in In(q)
    BY <1>1, <2>1 DEF In, n
  <2> QED BY <2>2, <2>3, <2>4
<1>5. ASSUME Rising(q)
      PROVE  /\ Rising(rest)
             /\ \A f \in In(rest) : first.by = f.by => first.number < f.number
  <2>1. ASSUME NEW j \in 1..Len(rest), NEW i \in 1..(j - 1), rest[i].by = rest[j].by
        PROVE  rest[i].number < rest[j].number
    <3>1. i \in 1..Len(rest) /\ i + 1 \in 1..((j + 1) - 1) /\ j + 1 \in 1..n
      BY <1>1, <1>2
    <3>2. rest[i] = q[i + 1] /\ rest[j] = q[j + 1]
      BY <1>2, <3>1
    <3> QED BY <1>5, <2>1, <3>1, <3>2 DEF Rising, n
  <2>2. ASSUME NEW j \in 1..Len(rest), first.by = rest[j].by
        PROVE  first.number < rest[j].number
    <3>1. j + 1 \in 1..n /\ 1 \in 1..((j + 1) - 1) /\ rest[j] = q[j + 1]
      BY <1>1, <1>2
    <3> QED BY <1>1, <1>5, <2>2, <3>1 DEF Rising, n
  <2> QED BY <2>1, <2>2 DEF Rising, In
<1> QED BY <1>1, <1>2, <1>4, <1>5 DEF n, rest, first

\* What publishers have published and streams have received does not change.
Quiet ==
  /\ UNCHANGED <<finished, todo, seen, target, publisher, buffer, sent, missed, before>>
  /\ clients' \subseteq clients
  /\ \A s \in Stream : handler'[s] \in {"idle", "subscribe"} =>
                         handler[s] \in {"idle", "subscribe"}

LEMMA QuietKeepsStreams ==
  ASSUME StreamsInv, Quiet
  PROVE  StreamsInv'
<1> USE DEF Quiet, Met, Reached
<1>1. \A p \in Publisher : PendingInv(p)'
  BY DEF StreamsInv, PendingInv
<1>2. \A p \in Publisher, s \in Stream : LoopInv(p, s)'
  BY DEF StreamsInv, LoopInv, Past
<1>3. ASSUME NEW s \in Stream
      PROVE  DeliveryInv(s)'
  BY DEF StreamsInv, DeliveryInv
<1> QED BY <1>1, <1>2, <1>3 DEF StreamsInv

LEMMA OperationKeepsStreams ==
  ASSUME BrokerInv, StreamsInv, NEW p \in Publisher, Operation(p)
  PROVE  StreamsInv'
<1>0. PICK owners \in Operations :
        todo' = [todo EXCEPT ![p] = [i \in 1..Len(owners) |->
                                       [by |-> p, number |-> i, owner |-> owners[i]]]]
  BY DEF Operation
<1> DEFINE events == [i \in 1..Len(owners) |-> [by |-> p, number |-> i, owner |-> owners[i]]]
<1>1. /\ publisher[p] = "idle" /\ publisher' = [publisher EXCEPT ![p] = "publish"]
      /\ UNCHANGED <<finished, seen, target, buffer, sent, missed, before, clients, handler>>
      /\ publisher \in [Publisher -> {"idle", "publish", "done"}]
      /\ todo \in [Publisher -> Seq(Event)]
  BY DEF Operation, streamVars, BrokerInv, BrokerTypeOK
<1>2. seen[p] = {} /\ target[p] = Nil
  BY <1>1 DEF BrokerInv, PublisherInv
<1>3. /\ events \in Seq(Event) /\ todo'[p] = events
      /\ \A i \in 1..Len(events) : events[i].by = p /\ events[i].number = i
  BY <1>0, <1>1, OperationEvents
<1> HIDE DEF events
<1>4. /\ In(todo'[p]) = In(events) /\ Rising(todo'[p])
      /\ \A event \in In(todo'[p]) : event.by = p
  <2>1. Len(events) \in Nat
    BY <1>3
  <2>2. Rising(events)
    BY <1>3, <2>1 DEF Rising
  <2> QED BY <1>3, <2>2 DEF In
<1>5. ASSUME NEW q \in Publisher
      PROVE  PendingInv(q)'
  <2>1. CASE q = p
    <3>1. \A event \in finished : event.by # p
      BY <1>1 DEF StreamsInv, PendingInv
    <3>2. publisher'[p] = "publish" /\ target'[p] = Nil /\ finished' = finished
      BY <1>1, <1>2
    <3> QED BY <1>4, <2>1, <3>1, <3>2 DEF PendingInv
  <2>2. CASE q # p
    <3>1. publisher'[q] = publisher[q] /\ todo'[q] = todo[q]
      BY <1>0, <1>1, <2>2
    <3> QED BY <1>1, <3>1 DEF StreamsInv, PendingInv
  <2> QED BY <2>1, <2>2
<1>6. ASSUME NEW q \in Publisher, NEW s \in Stream
      PROVE  LoopInv(q, s)'
  <2>1. Met(s)' = Met(s) /\ Past(q, s)' = Past(q, s)
    BY <1>1 DEF Met, Reached, Past
  <2>2. CASE q = p
    <3>1. \A event \in Met(s) : event.by # p
      BY <1>1 DEF StreamsInv, LoopInv
    <3>2. ~Past(p, s)
      BY <1>2 DEF Past
    <3> QED BY <2>1, <2>2, <3>1, <3>2 DEF LoopInv
  <2>3. CASE q # p
    <3>1. publisher'[q] = publisher[q] /\ todo'[q] = todo[q]
      BY <1>0, <1>1, <2>3
    <3> QED BY <2>1, <3>1 DEF StreamsInv, LoopInv
  <2> QED BY <2>2, <2>3
<1>7. \A s \in Stream : DeliveryInv(s)'
  BY <1>1 DEF StreamsInv, DeliveryInv, Met, Reached
<1> QED BY <1>5, <1>6, <1>7 DEF StreamsInv

\* Coming to a stream leaves the loop past the same streams as before.
LEMMA RangeKeepsStreams ==
  ASSUME BrokerInv, StreamsInv, NEW p \in Publisher, Range(p)
  PROVE  StreamsInv'
<1>1. PICK s \in clients \ seen[p] :
        /\ target' = [target EXCEPT ![p] = s]
        /\ seen' = [seen EXCEPT ![p] = @ \cup {s}]
  BY DEF Range
<1>2. /\ target[p] = Nil
      /\ UNCHANGED <<finished, todo, publisher, buffer, sent, missed, before, clients, handler>>
      /\ seen \in [Publisher -> SUBSET Stream]
      /\ target \in [Publisher -> Stream \cup {Nil}]
  BY DEF Range, streamVars, BrokerInv, BrokerTypeOK
<1>3. \A q \in Publisher, t \in Stream : Past(q, t)' <=> Past(q, t)
  BY <1>1, <1>2, NoWriterAssumption DEF Past, NoWriterAssumption
<1>4. \A t \in Stream : Met(t)' = Met(t)
  BY <1>2 DEF Met, Reached
<1>5. \A q \in Publisher : PendingInv(q)'
  BY <1>1, <1>2 DEF StreamsInv, PendingInv
<1>6. \A q \in Publisher, t \in Stream : LoopInv(q, t)'
  BY <1>2, <1>3, <1>4 DEF StreamsInv, LoopInv
<1>7. \A t \in Stream : DeliveryInv(t)'
  BY <1>2 DEF StreamsInv, DeliveryInv, Met, Reached
<1> QED BY <1>5, <1>6, <1>7 DEF StreamsInv

LEMMA SendKeepsStreams ==
  ASSUME BrokerInv, StreamsInv, NEW p \in Publisher, NEW s \in Stream, Send(p, s)
  PROVE  StreamsInv'
<1> DEFINE e == Head(todo[p])
<1>1. /\ target[p] = s /\ target' = [target EXCEPT ![p] = Nil]
      /\ UNCHANGED <<finished, todo, seen, publisher, sent, before, clients, handler>>
      /\ target \in [Publisher -> Stream \cup {Nil}]
      /\ todo[p] \in Seq(Event) /\ buffer[s] \in Seq(Event) /\ sent[s] \in Seq(Event)
      /\ buffer \in [Stream -> Seq(Event)] /\ missed \in [Stream -> SUBSET Event]
  BY DEF Send, streamVars, BrokerInv, BrokerTypeOK
<1>2. s # Nil /\ p \in readers /\ publisher[p] = "publish" /\ todo[p] # <<>>
  BY <1>1, NoWriterAssumption DEF BrokerInv, PublisherInv, NoWriterAssumption
<1>3. /\ e \in In(todo[p]) /\ e = todo[p][1] /\ e \in Event /\ e.by = p
      /\ 1 \in 1..Len(todo[p]) /\ Len(todo[p]) \in Nat /\ e.number \in {1, 2}
      /\ \A j \in 1..Len(todo[p]) : j # 1 => e.number < todo[p][j].number
  <2>1. /\ e \in In(todo[p]) /\ e = todo[p][1] /\ e \in Event
        /\ 1 \in 1..Len(todo[p]) /\ Len(todo[p]) \in Nat
    BY <1>1, <1>2, InTail
  <2>2. e.by = p
    BY <2>1 DEF StreamsInv, PendingInv
  <2>3. Rising(todo[p]) /\ \A event \in In(todo[p]) : event.by = p
    BY DEF StreamsInv, PendingInv
  <2>4. ASSUME NEW j \in 1..Len(todo[p]), j # 1
        PROVE  e.number < todo[p][j].number
    <3>1. 1 \in 1..(j - 1)
      BY <2>1, <2>4
    <3>2. todo[p][j].by = p
      BY <2>3 DEF In
    <3> QED BY <2>1, <2>2, <2>3, <3>1, <3>2 DEF Rising
  <2> QED BY <2>1, <2>2, <2>4 DEF Event
<1>4. ~Past(p, s) /\ Past(p, s)'
  <2>1. s \in seen[p]
    BY <1>1, <1>2 DEF StreamsInv, PendingInv
  <2> QED BY <1>1, <1>2, <2>1 DEF Past
<1>5. \A q \in Publisher, t \in Stream : q # p \/ t # s => (Past(q, t)' <=> Past(q, t))
  BY <1>1, NoWriterAssumption DEF Past, NoWriterAssumption
<1>6. \A f \in Met(s) : f.by = p => f.number < e.number
  BY <1>3, <1>4 DEF StreamsInv, LoopInv
<1>7. e \notin Met(s) /\ e \notin finished /\ e \notin before[s]
  <2>1. ~(e.number < e.number)
    BY <1>3
  <2>2. e \notin finished
    BY <1>3, <2>1 DEF StreamsInv, PendingInv
  <2> QED BY <1>3, <1>6, <2>1, <2>2 DEF StreamsInv, DeliveryInv
<1>8. handler[s] \notin {"idle", "subscribe"}
  <2>1. s \in clients
    BY <1>1, <1>2 DEF BrokerInv, PublisherInv
  <2> QED BY <2>1 DEF BrokerInv, StreamInv
<1> HIDE DEF e
<1>9. /\ Met(s)' = Met(s) \cup {e}
      /\ \A t \in Stream \ {s} : buffer'[t] = buffer[t] /\ missed'[t] = missed[t]
      /\ \/ /\ In(buffer'[s]) = In(buffer[s]) \cup {e} /\ missed'[s] = missed[s]
            /\ buffer'[s] = Append(buffer[s], e)
         \/ /\ buffer'[s] = buffer[s] /\ missed'[s] = missed[s] \cup {e}
  <2>1. CASE Deliver(p, s) /\ UNCHANGED missed
    <3>1. buffer' = [buffer EXCEPT ![s] = Append(@, e)]
      BY <2>1 DEF Deliver, e
    <3>2. In(Append(buffer[s], e)) = In(buffer[s]) \cup {e}
      BY <1>1, <1>3, InAppend
    <3> QED BY <1>1, <2>1, <3>1, <3>2 DEF Met, Reached
  <2>2. CASE Drop(p, s) /\ UNCHANGED buffer
    <3>1. missed' = [missed EXCEPT ![s] = @ \cup {e}]
      BY <2>2 DEF Drop, e
    <3> QED BY <1>1, <2>2, <3>1 DEF Met, Reached
  <2> QED BY <2>1, <2>2 DEF Send
<1>10. \A t \in Stream \ {s} : Met(t)' = Met(t)
  BY <1>1, <1>9 DEF Met, Reached
<1>11. \A q \in Publisher : PendingInv(q)'
  BY <1>1, <1>2 DEF StreamsInv, PendingInv
<1>12. ASSUME NEW q \in Publisher, NEW t \in Stream
       PROVE  LoopInv(q, t)'
  <2>0. LoopInv(q, t)
    BY DEF StreamsInv
  <2>1. CASE t # s
    <3>1. Met(t)' = Met(t) /\ (Past(q, t)' <=> Past(q, t))
      BY <1>5, <1>10, <2>1
    <3> QED BY <1>1, <2>0, <3>1 DEF LoopInv
  <2>2. CASE t = s /\ q # p
    <3>1. Met(t)' = Met(t) \cup {e} /\ e.by # q /\ (Past(q, t)' <=> Past(q, t))
      BY <1>3, <1>5, <1>9, <2>2
    <3> QED BY <1>1, <2>0, <3>1 DEF LoopInv
  <2>3. CASE t = s /\ q = p
    <3>1. publisher'[p] # "idle"
      BY <1>1, <1>2
    <3>2. ASSUME NEW f \in Met(s) \cup {e}, f.by = p, NEW j \in 1..Len(todo[p])
          PROVE  f.number < todo[p][j].number \/ j = 1
      BY <1>3, <1>4, <2>0, <2>3, <3>2 DEF LoopInv
    <3>3. Head(todo[p]) \in Met(s)'
      BY <1>9 DEF e
    <3> QED BY <1>1, <1>4, <1>9, <2>3, <3>1, <3>2, <3>3 DEF LoopInv
  <2> QED BY <2>1, <2>2, <2>3
<1>13. ASSUME NEW t \in Stream
       PROVE  DeliveryInv(t)'
  <2>0. DeliveryInv(t)
    BY DEF StreamsInv
  <2>1. CASE t # s
    BY <1>1, <1>9, <2>0, <2>1 DEF DeliveryInv, Met, Reached
  <2>2. CASE t = s
    <3>1. handler'[s] \notin {"idle", "subscribe"} /\ before'[s] \subseteq finished'
      BY <1>1, <1>8, <2>0, <2>2 DEF DeliveryInv
    <3>2. (Reached(s) \cap (before[s] \cup missed[s]))' = {}
      BY <1>1, <1>7, <1>9, <2>0, <2>2 DEF DeliveryInv, Met, Reached
    <3>3. /\ \A event \in In(sent'[s]) : Visible(s, event)
          /\ s \in clients' => \A event \in finished' \ before'[s] :
                                 Visible(s, event) => event \in Met(s)'
          /\ Rising(sent'[s])
      BY <1>1, <1>9, <2>0, <2>2 DEF DeliveryInv
    <3>4. /\ Rising(buffer'[s])
          /\ \A early \in In(sent'[s]) : \A late \in In(buffer'[s]) :
               early.by = late.by => early.number < late.number
      <4>1. /\ \A f \in In(buffer[s]) : f.by = e.by => f.number < e.number
            /\ \A f \in In(sent[s]) : f.by = e.by => f.number < e.number
        BY <1>3, <1>6 DEF Met, Reached
      <4>2. CASE buffer'[s] = buffer[s]
        BY <1>1, <2>0, <2>2, <4>2 DEF DeliveryInv
      <4>3. CASE buffer'[s] = Append(buffer[s], e) /\ In(buffer'[s]) = In(buffer[s]) \cup {e}
        <5>1. Rising(buffer'[s])
          BY <1>1, <1>3, <2>0, <2>2, <4>1, <4>3, InAppend DEF DeliveryInv
        <5> QED BY <1>1, <2>0, <2>2, <4>1, <4>3, <5>1 DEF DeliveryInv
      <4> QED BY <1>9, <4>2, <4>3
    <3> QED BY <2>2, <3>1, <3>2, <3>3, <3>4 DEF DeliveryInv
  <2> QED BY <2>1, <2>2
<1> QED BY <1>11, <1>12, <1>13 DEF StreamsInv

\* When a publisher has been to all subscribers, they have met its event.
LEMMA RUnlockKeepsStreams ==
  ASSUME BrokerInv, StreamsInv, NEW p \in Publisher, RUnlock(p)
  PROVE  StreamsInv'
<1> DEFINE e == Head(todo[p])
<1>1. /\ p \in readers /\ target[p] = Nil /\ clients \subseteq seen[p]
      /\ finished' = finished \cup {e}
      /\ todo' = [todo EXCEPT ![p] = Tail(@)]
      /\ seen' = [seen EXCEPT ![p] = {}]
      /\ publisher' = [publisher EXCEPT ![p] = IF todo'[p] = <<>> THEN "done" ELSE "publish"]
      /\ UNCHANGED <<target, buffer, sent, missed, before, clients, handler>>
      /\ todo \in [Publisher -> Seq(Event)]
      /\ publisher \in [Publisher -> {"idle", "publish", "done"}]
      /\ seen \in [Publisher -> SUBSET Stream] /\ clients \subseteq Stream
  BY DEF RUnlock, streamVars, BrokerInv, BrokerTypeOK
<1>2. publisher[p] = "publish" /\ todo[p] # <<>>
  BY <1>1 DEF BrokerInv, PublisherInv
<1>3. /\ e \in In(todo[p]) /\ todo'[p] = Tail(todo[p])
      /\ In(todo[p]) = In(todo'[p]) \cup {e}
      /\ Rising(todo'[p]) /\ e.by = p
      /\ \A f \in In(todo'[p]) : e.number < f.number
      /\ \A j \in 1..Len(todo'[p]) : /\ j + 1 \in 1..Len(todo[p]) /\ j + 1 # 1
                                     /\ todo'[p][j] = todo[p][j + 1]
  <2>1. /\ todo'[p] = Tail(todo[p]) /\ todo[p] \in Seq(Event)
    BY <1>1
  <2>2. /\ e \in In(todo[p]) /\ In(todo[p]) = In(Tail(todo[p])) \cup {e}
        /\ \A j \in 1..Len(Tail(todo[p])) : /\ j + 1 \in 1..Len(todo[p])
                                            /\ Tail(todo[p])[j] = todo[p][j + 1]
        /\ Len(Tail(todo[p])) = Len(todo[p]) - 1 /\ Len(todo[p]) \in Nat
    BY <1>2, <2>1, InTail
  <2>3. Rising(todo[p]) /\ \A f \in In(todo[p]) : f.by = p
    BY DEF StreamsInv, PendingInv
  <2>4. /\ Rising(Tail(todo[p]))
        /\ \A f \in In(Tail(todo[p])) : e.by = f.by => e.number < f.number
    BY <1>2, <2>1, <2>3, InTail
  <2>5. \A j \in 1..Len(Tail(todo[p])) : j + 1 # 1
    BY <2>2
  <2> HIDE DEF e
  <2> QED BY <2>1, <2>2, <2>3, <2>4, <2>5
<1>4. \A q \in Publisher \ {p} : /\ todo'[q] = todo[q] /\ publisher'[q] = publisher[q]
                                 /\ seen'[q] = seen[q]
  BY <1>1
<1>5. publisher'[p] # "idle" /\ seen'[p] = {} /\ target'[p] = Nil
  BY <1>1
<1>6. /\ \A t \in Stream : Met(t)' = Met(t)
      /\ \A t \in Stream : ~Past(p, t)'
      /\ \A q \in Publisher \ {p}, t \in Stream : Past(q, t)' <=> Past(q, t)
  BY <1>1, <1>4, <1>5 DEF Met, Reached, Past
<1>7. ASSUME NEW t \in Stream, t \in clients, Visible(t, e)
      PROVE  e \in Met(t)
  <2>1. Past(p, t)
    BY <1>1, <1>7, NoWriterAssumption DEF Past, NoWriterAssumption
  <2> QED BY <1>7, <2>1 DEF StreamsInv, LoopInv
<1> HIDE DEF e
<1>8. ASSUME NEW q \in Publisher
      PROVE  PendingInv(q)'
  <2>0. PendingInv(q)
    BY DEF StreamsInv
  <2>1. CASE q = p
    BY <1>1, <1>3, <1>5, <2>0, <2>1 DEF PendingInv
  <2>2. CASE q # p
    BY <1>1, <1>3, <1>4, <2>0, <2>2 DEF PendingInv
  <2> QED BY <2>1, <2>2
<1>9. ASSUME NEW q \in Publisher, NEW t \in Stream
      PROVE  LoopInv(q, t)'
  <2>0. LoopInv(q, t)
    BY DEF StreamsInv
  <2>1. CASE q = p
    <3>1. ASSUME NEW f \in Met(t), f.by = p, NEW j \in 1..Len(todo'[p])
          PROVE  f.number < todo'[p][j].number
      <4>1. /\ j + 1 \in 1..Len(todo[p]) /\ j + 1 # 1 /\ todo'[p][j] = todo[p][j + 1]
        BY <1>3
      <4> QED BY <2>0, <2>1, <3>1, <4>1 DEF LoopInv
    <3> QED BY <1>5, <1>6, <2>1, <3>1 DEF LoopInv
  <2>2. CASE q # p
    BY <1>1, <1>4, <1>6, <2>0, <2>2 DEF LoopInv
  <2> QED BY <2>1, <2>2
<1>10. ASSUME NEW t \in Stream
       PROVE  DeliveryInv(t)'
  <2>0. DeliveryInv(t)
    BY DEF StreamsInv
  <2>1. t \in clients' =>
          \A event \in finished' \ before'[t] : Visible(t, event) => event \in Met(t)'
    BY <1>1, <1>6, <1>7, <2>0 DEF DeliveryInv
  <2>2. before'[t] \subseteq finished'
    BY <1>1, <2>0 DEF DeliveryInv
  <2> QED BY <1>1, <1>6, <2>0, <2>1, <2>2 DEF DeliveryInv, Reached
<1> QED BY <1>8, <1>9, <1>10 DEF StreamsInv

LEMMA SubscribeKeepsStreams ==
  ASSUME BrokerInv, StreamsInv, NEW s \in Stream, Subscribe(s)
  PROVE  StreamsInv'
<1>1. /\ handler[s] = "subscribe" /\ handler' = [handler EXCEPT ![s] = "stream"]
      /\ clients' = clients \cup {s} /\ before' = [before EXCEPT ![s] = finished]
      /\ UNCHANGED <<finished, todo, seen, target, publisher, buffer, sent, missed>>
      /\ handler \in [Stream -> {"idle", "subscribe", "stream", "returned"}]
      /\ before \in [Stream -> SUBSET Event]
  BY DEF Subscribe, publisherVars, BrokerInv, BrokerTypeOK
<1>2. \A p \in Publisher : PendingInv(p)'
  BY <1>1 DEF StreamsInv, PendingInv
<1>3. \A p \in Publisher, t \in Stream : LoopInv(p, t)'
  BY <1>1 DEF StreamsInv, LoopInv, Past, Met, Reached
<1>4. ASSUME NEW t \in Stream
      PROVE  DeliveryInv(t)'
  <2>0. DeliveryInv(t)
    BY DEF StreamsInv
  <2>1. CASE t # s
    BY <1>1, <2>0, <2>1 DEF DeliveryInv, Met, Reached
  <2>2. CASE t = s
    <3>1. Met(s) = {} /\ handler'[s] = "stream" /\ before'[s] = finished
      BY <1>1, <2>0, <2>2 DEF DeliveryInv
    <3> QED BY <1>1, <2>0, <2>2, <3>1 DEF DeliveryInv, Met, Reached
  <2> QED BY <2>1, <2>2
<1> QED BY <1>2, <1>3, <1>4 DEF StreamsInv

LEMMA ReceiveKeepsStreams ==
  ASSUME BrokerInv, StreamsInv, NEW s \in Stream, Receive(s)
  PROVE  StreamsInv'
<1> DEFINE e == Head(buffer[s])
<1>1. /\ handler[s] = "stream" /\ buffer[s] # <<>>
      /\ buffer' = [buffer EXCEPT ![s] = Tail(@)]
      /\ sent' = [sent EXCEPT ![s] = IF Visible(s, e) THEN Append(@, e) ELSE @]
      /\ UNCHANGED <<finished, todo, seen, target, publisher, missed, before, clients, handler>>
      /\ buffer \in [Stream -> Seq(Event)] /\ sent \in [Stream -> Seq(Event)]
  BY DEF Receive, publisherVars, BrokerInv, BrokerTypeOK
<1>0. DeliveryInv(s)
  BY DEF StreamsInv
<1>2. /\ e \in In(buffer[s]) /\ e \in Event
      /\ buffer'[s] = Tail(buffer[s])
      /\ In(buffer[s]) = In(buffer'[s]) \cup {e}
      /\ Rising(buffer'[s])
      /\ \A f \in In(buffer'[s]) : e.by = f.by => e.number < f.number
  <2>1. buffer[s] \in Seq(Event) /\ buffer'[s] = Tail(buffer[s])
    BY <1>1
  <2>2. Rising(buffer[s])
    BY <1>0 DEF DeliveryInv
  <2> QED BY <1>1, <2>1, <2>2, InTail
<1> HIDE DEF e
<1>3. /\ In(sent'[s]) \subseteq In(sent[s]) \cup {e}
      /\ In(sent[s]) \subseteq In(sent'[s])
      /\ e \in In(sent'[s]) => e \in In(sent[s]) \/ Visible(s, e)
      /\ Visible(s, e) => e \in In(sent'[s])
      /\ Rising(sent'[s])
  <2>1. Rising(sent[s]) /\ \A f \in In(sent[s]) : f.by = e.by => f.number < e.number
    BY <1>0, <1>2 DEF DeliveryInv
  <2>2. CASE Visible(s, e)
    <3>1. sent'[s] = Append(sent[s], e) /\ sent[s] \in Seq(Event)
      BY <1>1, <2>2
    <3> QED BY <1>2, <2>1, <2>2, <3>1, InAppend
  <2>3. CASE ~Visible(s, e)
    BY <1>1, <2>1, <2>3
  <2> QED BY <2>2, <2>3
<1>4. /\ \A t \in Stream \ {s} : sent'[t] = sent[t] /\ buffer'[t] = buffer[t]
      /\ \A t \in Stream \ {s} : Reached(t)' = Reached(t)
      /\ Reached(s)' \subseteq Reached(s)
      /\ \A f \in Reached(s) : Visible(s, f) => f \in Reached(s)'
  BY <1>1, <1>2, <1>3 DEF Reached
<1>5. \A p \in Publisher : PendingInv(p)'
  BY <1>1 DEF StreamsInv, PendingInv
<1>6. ASSUME NEW p \in Publisher, NEW t \in Stream
      PROVE  LoopInv(p, t)'
  <2>1. /\ Met(t)' \subseteq Met(t)
        /\ \A f \in Met(t) : Visible(t, f) => f \in Met(t)'
    <3>1. missed'[t] = missed[t]
      BY <1>1
    <3>2. /\ Reached(t)' \subseteq Reached(t)
          /\ \A f \in Reached(t) : Visible(t, f) => f \in Reached(t)'
      <4>1. CASE t = s
        BY <1>4, <4>1
      <4>2. CASE t # s
        BY <1>4, <4>2
      <4> QED BY <4>1, <4>2
    <3> QED BY <3>1, <3>2 DEF Met
  <2>2. Past(p, t)' = Past(p, t)
    BY <1>1 DEF Past
  <2> QED BY <1>1, <2>1, <2>2 DEF StreamsInv, LoopInv
<1>7. ASSUME NEW t \in Stream
      PROVE  DeliveryInv(t)'
  <2>0. DeliveryInv(t)
    BY DEF StreamsInv
  <2>1. CASE t # s
    BY <1>1, <1>4, <2>0, <2>1 DEF DeliveryInv, Met
  <2>2. CASE t = s
    <3>1. /\ handler'[s] \notin {"idle", "subscribe"}
          /\ before'[s] \subseteq finished'
          /\ (Reached(s) \cap (before[s] \cup missed[s]))' = {}
          /\ \A event \in In(sent'[s]) : Visible(s, event)
      BY <1>0, <1>1, <1>3, <1>4 DEF DeliveryInv
    <3>2. s \in clients' =>
            \A event \in finished' \ before'[s] : Visible(s, event) => event \in Met(s)'
      BY <1>0, <1>1, <1>4 DEF DeliveryInv, Met
    <3>3. \A early \in In(sent'[s]) : \A late \in In(buffer'[s]) :
            early.by = late.by => early.number < late.number
      BY <1>0, <1>2, <1>3 DEF DeliveryInv
    <3> QED BY <1>2, <1>3, <2>2, <3>1, <3>2, <3>3 DEF DeliveryInv
  <2> QED BY <2>1, <2>2
<1> QED BY <1>5, <1>6, <1>7 DEF StreamsInv

LEMMA NextKeepsStreams ==
  ASSUME BrokerInv, StreamsInv, [Next]_vars
  PROVE  StreamsInv'
<1>1. ASSUME NEW p \in Publisher, Operation(p) \/ Publish(p)
      PROVE  StreamsInv'
  <2>1. CASE RLock(p)
    BY <2>1, QuietKeepsStreams DEF RLock, Quiet, publisherVars, streamVars
  <2> QED BY <1>1, <2>1, OperationKeepsStreams, RangeKeepsStreams, SendKeepsStreams,
             RUnlockKeepsStreams DEF Publish
<1>2. ASSUME NEW s \in Stream,
             Open(s) \/ Manage(s) \/ Disconnect(s) \/ Receive(s) \/ Return(s)
      PROVE  StreamsInv'
  <2>1. CASE Open(s) \/ Disconnect(s) \/ Return(s) \/ Lock(s) \/ Delete(s) \/ Close(s)
    <3>1. handler \in [Stream -> {"idle", "subscribe", "stream", "returned"}]
      BY DEF BrokerInv, BrokerTypeOK
    <3> QED BY <2>1, <3>1, QuietKeepsStreams
            DEF Open, Disconnect, Return, Lock, Delete, Close, Quiet, publisherVars, streamVars
  <2> QED BY <1>2, <2>1, SubscribeKeepsStreams, ReceiveKeepsStreams DEF Manage
<1>3. CASE AllDone \/ UNCHANGED vars
  BY <1>3, QuietKeepsStreams DEF AllDone, vars, Quiet
<1> QED BY <1>1, <1>2, <1>3 DEF Next

LEMMA InitStreams == Init => StreamsInv
<1> SUFFICES ASSUME Init
             PROVE  StreamsInv
  OBVIOUS
<1> USE DEF Init
<1>1. In(<<>>) = {} /\ Rising(<<>>)
  BY DEF In, Rising
<1>2. \A p \in Publisher : PendingInv(p)
  BY <1>1 DEF PendingInv
<1>3. \A s \in Stream : Met(s) = {}
  BY <1>1 DEF Met, Reached
<1>4. \A p \in Publisher, s \in Stream : LoopInv(p, s)
  BY <1>3 DEF LoopInv, Past
<1>5. \A s \in Stream : DeliveryInv(s)
  BY <1>1, <1>3 DEF DeliveryInv, Reached
<1> QED BY <1>2, <1>4, <1>5 DEF StreamsInv

LEMMA StreamsInvHolds == Spec => [](BrokerInv /\ StreamsInv)
<1>1. BrokerInv /\ StreamsInv /\ [Next]_vars => StreamsInv'
  BY NextKeepsStreams
<1> QED BY <1>1, InitStreams, BrokerInvHolds, PTL DEF Spec

\* Where the elements of two sequences stand in their concatenation.
LEMMA ConcatIndices ==
  ASSUME NEW S, NEW a \in Seq(S), NEW b \in Seq(S)
  PROVE  /\ Len(a) \in Nat /\ Len(b) \in Nat /\ Len(a \o b) = Len(a) + Len(b)
         /\ \A k \in 1..Len(a) : k \in 1..(Len(a) + Len(b)) /\ (a \o b)[k] = a[k]
         /\ \A k \in 1..Len(b) :
              Len(a) + k \in 1..(Len(a) + Len(b)) /\ (a \o b)[Len(a) + k] = b[k]
<1>1. Len(a) \in Nat /\ Len(b) \in Nat /\ Len(a \o b) = Len(a) + Len(b)
  OBVIOUS
<1>2. \A k \in 1..Len(a) : k \in 1..(Len(a) + Len(b)) /\ (a \o b)[k] = a[k]
  <2> SUFFICES ASSUME NEW k \in 1..Len(a)
               PROVE  k \in 1..(Len(a) + Len(b)) /\ (a \o b)[k] = a[k]
    OBVIOUS
  <2>1. k \in 1..(Len(a) + Len(b))
    BY <1>1
  <2> QED BY <2>1
<1>3. ASSUME NEW k \in 1..Len(b)
      PROVE  Len(a) + k \in 1..(Len(a) + Len(b)) /\ (a \o b)[Len(a) + k] = b[k]
  <2>1. Len(a) + k \in 1..(Len(a) + Len(b)) /\ Len(a) + k > Len(a)
    BY <1>1
  <2>2. (Len(a) + k) - Len(a) = k
    BY <1>1
  <2> QED BY <2>1, <2>2
<1> QED BY <1>1, <1>2, <1>3

\* Received: what has been sent, then what waits.
LEMMA ReceivedIndices ==
  ASSUME NEW s \in Stream, sent[s] \in Seq(Event), buffer[s] \in Seq(Event)
  PROVE  /\ Len(sent[s]) \in Nat /\ Len(buffer[s]) \in Nat
         /\ Len(Received(s)) = Len(sent[s]) + Len(buffer[s])
         /\ \A k \in 1..Len(sent[s]) :
              /\ k \in 1..(Len(sent[s]) + Len(buffer[s]))
              /\ Received(s)[k] = sent[s][k]
         /\ \A k \in 1..Len(buffer[s]) :
              /\ Len(sent[s]) + k \in 1..(Len(sent[s]) + Len(buffer[s]))
              /\ Received(s)[Len(sent[s]) + k] = buffer[s][k]
<1> DEFINE a == sent[s]
           b == buffer[s]
<1>1. a \in Seq(Event) /\ b \in Seq(Event)
  OBVIOUS
<1> HIDE DEF a, b
<1>2. /\ Len(a) \in Nat /\ Len(b) \in Nat /\ Len(a \o b) = Len(a) + Len(b)
      /\ \A k \in 1..Len(a) : k \in 1..(Len(a) + Len(b)) /\ (a \o b)[k] = a[k]
      /\ \A k \in 1..Len(b) :
           Len(a) + k \in 1..(Len(a) + Len(b)) /\ (a \o b)[Len(a) + k] = b[k]
  BY <1>1, ConcatIndices
<1>3. Received(s) = a \o b
  BY DEF Received, a, b
<1> QED BY <1>2, <1>3 DEF a, b

\* A reader sees the events of one request in the order they were published, and neither
\* of them twice, across its channel and what it has been sent.
THEOREM EventsAreInOrder == Spec => []SentInOrder
<1>1. BrokerInv /\ StreamsInv => SentInOrder
  <2> SUFFICES ASSUME BrokerInv, StreamsInv, NEW s \in Stream,
                      NEW j \in 1..Len(Received(s)), NEW i \in 1..(j - 1),
                      Received(s)[i].by = Received(s)[j].by
               PROVE  Received(s)[i].number < Received(s)[j].number
    BY DEF SentInOrder
  <2>1. sent[s] \in Seq(Event) /\ buffer[s] \in Seq(Event)
    BY DEF BrokerInv, BrokerTypeOK
  <2> DEFINE m == Len(sent[s])
             n == Len(buffer[s])
  <2>2. /\ m \in Nat /\ n \in Nat /\ Len(Received(s)) = m + n
        /\ \A k \in 1..m : Received(s)[k] = sent[s][k]
        /\ \A k \in 1..n : Received(s)[m + k] = buffer[s][k]
    BY <2>1, ReceivedIndices
  <2>3. /\ Rising(sent[s]) /\ Rising(buffer[s])
        /\ \A early \in In(sent[s]) : \A late \in In(buffer[s]) :
             early.by = late.by => early.number < late.number
    BY DEF StreamsInv, DeliveryInv
  <2> HIDE DEF m, n
  <2>4. CASE j \in 1..m
    <3>1. i \in 1..m
      BY <2>2, <2>4
    <3> QED BY <2>2, <2>3, <2>4, <3>1 DEF Rising, m
  <2>5. CASE j \notin 1..m /\ i \in 1..m
    <3>1. j - m \in 1..n /\ m + (j - m) = j
      BY <2>2, <2>5
    <3>2. Received(s)[j] \in In(buffer[s])
      BY <2>2, <3>1 DEF In, n
    <3>3. Received(s)[i] \in In(sent[s])
      BY <2>2, <2>5 DEF In, m
    <3> QED BY <2>3, <3>2, <3>3
  <2>6. CASE i \notin 1..m
    <3>1. /\ i - m \in 1..((j - m) - 1) /\ j - m \in 1..n
          /\ m + (j - m) = j /\ m + (i - m) = i /\ i - m \in 1..n
      BY <2>2, <2>6
    <3>2. Received(s)[i] = buffer[s][i - m] /\ Received(s)[j] = buffer[s][j - m]
      BY <2>2, <3>1
    <3> QED BY <2>3, <3>1, <3>2 DEF Rising, n
  <2> QED BY <2>4, <2>5, <2>6
<1> QED BY <1>1, StreamsInvHolds, PTL

\* From its subscription on a stream gets every event its actor may see, except those that
\* found its own channel full, and none of the others.
THEOREM StreamsMissNothing == Spec => []StreamIsComplete
<1>1. BrokerInv /\ StreamsInv => StreamIsComplete
  <2> SUFFICES ASSUME BrokerInv, StreamsInv, NEW s \in Stream
               PROVE  /\ s \in clients => \A event \in finished \ before[s] :
                           Visible(s, event) => IsIn(event, Received(s)) \/ event \in missed[s]
                      /\ \A i \in 1..Len(sent[s]) :
                           /\ Visible(s, sent[s][i])
                           /\ sent[s][i] \notin before[s] \cup missed[s]
    BY DEF StreamIsComplete
  <2>1. DeliveryInv(s) /\ sent[s] \in Seq(Event) /\ buffer[s] \in Seq(Event)
    BY DEF BrokerInv, BrokerTypeOK, StreamsInv
  <2>2. \A event \in Reached(s) : IsIn(event, Received(s))
    <3> DEFINE m == Len(sent[s])
               n == Len(buffer[s])
    <3>1. /\ m \in Nat /\ n \in Nat /\ Len(Received(s)) = m + n
          /\ \A k \in 1..m : k \in 1..(m + n) /\ Received(s)[k] = sent[s][k]
          /\ \A k \in 1..n : m + k \in 1..(m + n) /\ Received(s)[m + k] = buffer[s][k]
      BY <2>1, ReceivedIndices
    <3> HIDE DEF m, n
    <3>2. \A event \in In(sent[s]) : IsIn(event, Received(s))
      BY <3>1 DEF In, IsIn, m
    <3>3. \A event \in In(buffer[s]) : IsIn(event, Received(s))
      BY <3>1 DEF In, IsIn, n
    <3> QED BY <3>2, <3>3 DEF Reached
  <2>3. \A i \in 1..Len(sent[s]) : sent[s][i] \in In(sent[s])
    BY DEF In
  <2> QED BY <2>1, <2>2, <2>3 DEF DeliveryInv, Met, Reached
<1> QED BY <1>1, StreamsInvHolds, PTL
=============================================================================
