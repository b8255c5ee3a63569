-------------------------- MODULE BrokerProperties --------------------------
(***************************************************************************)
(* What the event stream promises to publishers and to its readers.        *)
(***************************************************************************)
EXTENDS Broker

Received(s) == sent[s] \o buffer[s]
IsIn(event, seq) == \E i \in 1..Len(seq) : seq[i] = event

\* Every variable has a value of its type, and no channel is over its capacity.
BrokerTypeOK ==
  /\ writer \in Stream \cup {Nil}
  /\ readers \in SUBSET Publisher
  /\ blocked \in SUBSET Publisher
  /\ clients \in SUBSET Stream
  /\ buffer \in [Stream -> Seq(Event)]
  /\ \A s \in Stream : Len(buffer[s]) <= Capacity
  /\ closed \in [Stream -> BOOLEAN]
  /\ publisher \in [Publisher -> {"idle", "publish", "done"}]
  /\ todo \in [Publisher -> Seq(Event)]
  /\ seen \in [Publisher -> SUBSET Stream]
  /\ target \in [Publisher -> Stream \cup {Nil}]
  /\ handler \in [Stream -> {"idle", "subscribe", "stream", "returned"}]
  /\ closer \in [Stream -> {"none", "wait", "close", "done"}]
  /\ cancelled \in [Stream -> BOOLEAN]
  /\ sent \in [Stream -> Seq(Event)]
  /\ finished \in SUBSET Event
  /\ before \in [Stream -> SUBSET Event]
  /\ missed \in [Stream -> SUBSET Event]

\* However subscribers come and go, no request that has moved money panics on a
\* channel that was closed under its loop, and no goroutine changes the map while
\* a loop ranges over it.
NobodyPanics ==
  /\ \A p \in Publisher : target[p] # Nil => ~closed[target[p]]
  /\ \A p \in Publisher : p \in readers => seen[p] \subseteq clients

\* A reader sees the two events of a transfer in the order they were published,
\* and neither of them twice.
SentInOrder ==
  \A s \in Stream : \A j \in 1..Len(Received(s)) : \A i \in 1..(j - 1) :
    Received(s)[i].by = Received(s)[j].by =>
      Received(s)[i].number < Received(s)[j].number

\* From the moment a stream has subscribed it gets every event its actor may
\* see, except those that found its own buffer full: another reader's full
\* buffer, or other readers coming and going, cost it nothing.  It is sent none
\* of the others.
StreamIsComplete ==
  \A s \in Stream :
    /\ s \in clients => \A event \in finished \ before[s] :
         Visible(s, event) => IsIn(event, Received(s)) \/ event \in missed[s]
    /\ \A i \in 1..Len(sent[s]) :
         Visible(s, sent[s][i]) /\ sent[s][i] \notin before[s] \cup missed[s]

\* A request that has moved money gets through publish, and can be answered,
\* even if no reader reads, while others wait for the write lock.
PublishReturns ==
  \A p \in Publisher : publisher[p] = "publish" ~> publisher[p] = "done"

\* When the request of a stream ends, its handler returns and its subscription is
\* removed, even if it ended while the handler was waiting to subscribe, and
\* however busy the publishers keep the lock: no goroutine stays behind.
StreamsAreReleased ==
  \A s \in Stream :
    cancelled[s] ~> handler[s] = "returned" /\ closer[s] = "done" /\ s \notin clients
-----------------------------------------------------------------------------
\* The inductive invariant behind NobodyPanics.

\* Only while no publisher is inside does a writer change the map or a channel;
\* while one is, the client it has reached is subscribed.
PublisherInv(p) ==
  /\ p \in readers \cup blocked => publisher[p] = "publish"
  /\ publisher[p] = "publish" => todo[p] # <<>>
  /\ p \in readers => seen[p] \subseteq clients
  /\ p \notin readers => seen[p] = {} /\ target[p] = Nil
  /\ target[p] # Nil => target[p] \in clients

\* Where a stream's two goroutines are tells whether it is subscribed.
StreamInv(s) ==
  /\ s \in clients <=> closer[s] = "wait"
  /\ closed[s] <=> closer[s] = "done"
  /\ closer[s] # "none" => handler[s] \in {"stream", "returned"}
  /\ closer[s] = "close" => writer = s /\ readers = {}

\* The inductive invariant: types, and the parts of publishers and streams.
BrokerInv ==
  /\ BrokerTypeOK
  /\ readers \cap blocked = {}
  /\ \A p \in Publisher : PublisherInv(p)
  /\ \A s \in Stream : StreamInv(s)
-----------------------------------------------------------------------------
\* The inductive invariant behind SentInOrder and StreamIsComplete.

In(seq) == {seq[i] : i \in 1..Len(seq)}
Rising(seq) ==
  \A j \in 1..Len(seq) : \A i \in 1..(j - 1) :
    seq[i].by = seq[j].by => seq[i].number < seq[j].number

\* The events a stream has received, and those it has met: received or had no room for.
Reached(s) == In(sent[s]) \cup In(buffer[s])
Met(s) == Reached(s) \cup missed[s]

\* The events a publisher has still to publish are its own, in order, and not published.
PendingInv(p) ==
  /\ target[p] # Nil => target[p] \in seen[p]
  /\ \A event \in In(todo[p]) : event.by = p
  /\ Rising(todo[p])
  /\ publisher[p] = "idle" => todo[p] = <<>>
  /\ publisher[p] = "idle" => \A event \in finished : event.by # p
  /\ \A event \in finished : event.by = p =>
       \A next \in In(todo[p]) : event.number < next.number

\* Its loop is past stream s.
Past(p, s) == s \in seen[p] /\ target[p] # s

\* A stream has met no event that is still to come, and the one in hand only when the loop
\* is past it, but then for certain if its actor may see it.
LoopInv(p, s) ==
  /\ publisher[p] = "idle" => \A event \in Met(s) : event.by # p
  /\ \A event \in Met(s) : event.by = p =>
       \A j \in 1..Len(todo[p]) :
         event.number < todo[p][j].number \/ (j = 1 /\ Past(p, s))
  /\ Past(p, s) /\ Visible(s, Head(todo[p])) => Head(todo[p]) \in Met(s)

\* What a stream has received and missed.
DeliveryInv(s) ==
  /\ handler[s] \in {"idle", "subscribe"} => Met(s) = {} /\ sent[s] = <<>> /\ buffer[s] = <<>>
  /\ before[s] \subseteq finished
  /\ Reached(s) \cap (before[s] \cup missed[s]) = {}
  /\ \A event \in In(sent[s]) : Visible(s, event)
  /\ s \in clients =>
       \A event \in finished \ before[s] : Visible(s, event) => event \in Met(s)
  /\ Rising(sent[s]) /\ Rising(buffer[s])
  /\ \A early \in In(sent[s]) : \A late \in In(buffer[s]) :
       early.by = late.by => early.number < late.number

StreamsInv ==
  /\ \A p \in Publisher : PendingInv(p)
  /\ \A p \in Publisher : \A s \in Stream : LoopInv(p, s)
  /\ \A s \in Stream : DeliveryInv(s)
=============================================================================
