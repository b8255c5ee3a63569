--------------------------- MODULE LifecycleProofs ---------------------------
(***************************************************************************)
(* Proofs that LifecycleInv is inductive, for any number of connections    *)
(* and calls, and of what it implies about those a service cuts off.       *)
(***************************************************************************)
EXTENDS LifecycleProperties, TLAPS

USE DEF LifecycleTypeOK, NobodyIsCutOff, DatabaseOutlivesHandlers, Server, Busy, AtWork, Ended,
        Running, Place

\* Nothing runs before main has opened it.
LEMMA InitIsGood == Init => LifecycleInv
BY DEF Init, LifecycleInv

\* However the process ends, those it cuts off are counted against a signal only if main
\* has come to its end in order.
LEMMA EndIsGood ==
  ASSUME LifecycleInv, NEW where, NEW why, End(where, why),
         \/ where = "dead" /\ why \in {"fatal", "killed"}
         \/ where = "exited" /\ why = "signal" /\ main = "exit"
  PROVE  LifecycleInv'
BY DEF LifecycleInv, End

LEMMA StartKeeps == ASSUME LifecycleInv, Start PROVE LifecycleInv'
<1>1. CASE End("dead", "fatal")
  BY <1>1, EndIsGood
<1>2. CASE main = "open" /\ Goto("ping") /\ database' = "open"
           /\ Unchanged(<<listener, failed, signal>>)
  BY <1>2 DEF LifecycleInv, Goto, Unchanged
<1>3. CASE main = "ping" /\ Goto("listen") /\ Unchanged(<<database, listener, failed, signal>>)
  BY <1>3 DEF LifecycleInv, Goto, Unchanged
<1>4. CASE /\ main = "listen" /\ Goto("notify")
           /\ listener' = [listener EXCEPT !["grpc"] = "open"]
           /\ Unchanged(<<database, failed, signal>>)
  BY <1>4 DEF LifecycleInv, Goto, Unchanged
<1> QED BY <1>1, <1>2, <1>3, <1>4 DEF Start, Fatal

LEMMA NotifyKeeps == ASSUME LifecycleInv, Notify PROVE LifecycleInv'
BY DEF LifecycleInv, Notify, Goto, Unchanged

\* The servers: their listeners matter only while main waits.
LEMMA ServersKeep ==
  ASSUME LifecycleInv, HttpListens \/ \E s \in Server : ServerFails(s)
  PROVE  LifecycleInv'
<1>1. CASE HttpListens
  <2>1. /\ listener' \in [Server -> {"none", "open", "closed"}] /\ failed' \subseteq Server
        /\ UNCHANGED <<main, database, signal, conn, rpc, late, ending>>
    <3>1. CASE listener' = [listener EXCEPT !["http"] = "open"] /\ UNCHANGED failed
      BY <1>1, <3>1 DEF LifecycleInv, HttpListens
    <3>2. CASE failed' = failed \cup {"http"} /\ UNCHANGED listener
      BY <1>1, <3>2 DEF LifecycleInv, HttpListens
    <3> QED BY <1>1, <3>1, <3>2 DEF HttpListens
  <2>2. main \in {"notify", "select"}
    BY <1>1 DEF HttpListens
  <2> QED BY <2>1, <2>2 DEF LifecycleInv
<1>2. CASE \E s \in Server : ServerFails(s)
  BY <1>2 DEF LifecycleInv, ServerFails
<1> QED BY <1>1, <1>2

LEMMA SignalsKeep == ASSUME LifecycleInv, Signal \/ Killed PROVE LifecycleInv'
<1>1. CASE End("dead", "killed")
  BY <1>1, EndIsGood
<1>2. CASE /\ Running /\ signal' = TRUE
           /\ UNCHANGED <<main, database, listener, failed, conn, rpc, late, ending>>
  BY <1>2 DEF LifecycleInv
<1> QED BY <1>1, <1>2 DEF Signal, Killed

LEMMA SelectKeeps == ASSUME LifecycleInv, Select PROVE LifecycleInv'
<1>1. CASE End("dead", "fatal")
  BY <1>1, EndIsGood
<1>2. CASE /\ main = "select" /\ signal' = FALSE /\ Goto("shutdown")
           /\ listener' = [listener EXCEPT !["http"] = "closed"]
           /\ Unchanged(<<database, failed>>)
  BY <1>2 DEF LifecycleInv, Goto, Unchanged
<1> QED BY <1>1, <1>2 DEF Select, Fatal

\* Shutdown leaves no connection idle, and a busy one only when it was late.
LEMMA ShutdownKeeps == ASSUME LifecycleInv, ShutdownReturns PROVE LifecycleInv'
BY DEF LifecycleInv, ShutdownReturns, Goto

\* GracefulStop leaves no call.
LEMMA GracefulStopKeeps == ASSUME LifecycleInv, GracefulStop PROVE LifecycleInv'
<1>1. CASE /\ main = "stop" /\ listener' = [listener EXCEPT !["grpc"] = "closed"]
           /\ Goto("drain") /\ UNCHANGED <<database, failed, signal, conn, rpc, late>>
  BY <1>1 DEF LifecycleInv, Goto
<1>2. CASE /\ main = "drain" /\ \A r \in Call : rpc[r] # "active"
           /\ Goto("close") /\ UNCHANGED <<listener, database, failed, signal, conn, rpc, late>>
  BY <1>2 DEF LifecycleInv, Goto
<1> QED BY <1>1, <1>2 DEF GracefulStop

LEMMA ReturnKeeps == ASSUME LifecycleInv, Return PROVE LifecycleInv'
<1>1. CASE /\ main = "close" /\ database' = "closed" /\ Goto("exit")
           /\ Unchanged(<<listener, failed, signal>>)
  BY <1>1 DEF LifecycleInv, Goto, Unchanged
<1>2. CASE main = "exit" /\ End("exited", "signal")
  BY <1>2, EndIsGood
<1> QED BY <1>1, <1>2 DEF Return

\* Clients and handlers of HTTP requests.
LEMMA ConnectionsKeep ==
  ASSUME LifecycleInv, NEW c \in Connection,
         Connect(c) \/ Request(c) \/ HandlerReturns(c) \/ HandlerFails(c) \/ ClientLeaves(c)
  PROVE  LifecycleInv'
<1>1. CASE Connect(c)
  BY <1>1 DEF LifecycleInv, Connect
<1>2. CASE Request(c)
  BY <1>2 DEF LifecycleInv, Request
<1>3. CASE HandlerReturns(c)
  BY <1>3 DEF LifecycleInv, HandlerReturns
<1>4. CASE HandlerFails(c)
  BY <1>4 DEF LifecycleInv, HandlerFails
<1>5. CASE ClientLeaves(c)
  BY <1>5 DEF LifecycleInv, ClientLeaves
<1> QED BY <1>1, <1>2, <1>3, <1>4, <1>5

\* Calls come only while the listener is open, and find the database open.
LEMMA CallsKeep ==
  ASSUME LifecycleInv, NEW r \in Call, CallArrives(r) \/ CallReturns(r)
  PROVE  LifecycleInv'
<1>1. CASE CallArrives(r)
  BY <1>1 DEF LifecycleInv, CallArrives
<1>2. CASE CallReturns(r)
  BY <1>2 DEF LifecycleInv, CallReturns
<1> QED BY <1>1, <1>2

LEMMA StepKeeps == LifecycleInv /\ [Next]_lifeVars => LifecycleInv'
<1> SUFFICES ASSUME LifecycleInv, [Next]_lifeVars PROVE LifecycleInv'
  OBVIOUS
<1>1. CASE UNCHANGED lifeVars
  BY <1>1 DEF lifeVars, LifecycleInv
<1>2. CASE Next
  BY <1>2, StartKeeps, NotifyKeeps, ServersKeep, SignalsKeep, SelectKeeps, ShutdownKeeps,
     GracefulStopKeeps, ReturnKeeps, ConnectionsKeep, CallsKeep DEF Next, MainStep
<1> QED BY <1>1, <1>2

\* LifecycleInv holds in every state of every service process.
THEOREM LifecycleInvHolds == Spec => []LifecycleInv
BY InitIsGood, StepKeeps, PTL DEF Spec

\* A process that stops on a signal answers every call it has accepted and, unless the ten
\* seconds have passed, every HTTP request.
THEOREM AcceptedIsAnswered == Spec => []NobodyIsCutOff
<1>1. LifecycleInv => NobodyIsCutOff
  BY DEF LifecycleInv
<1> QED BY <1>1, LifecycleInvHolds, PTL

\* No handler of a call, and no handler of an HTTP request that Shutdown has waited for,
\* meets a database that main has closed.
THEOREM HandlersFindTheDatabase == Spec => []DatabaseOutlivesHandlers
<1>1. LifecycleInv => DatabaseOutlivesHandlers
  BY DEF LifecycleInv
<1> QED BY <1>1, LifecycleInvHolds, PTL
=============================================================================
