------------------------------ MODULE Lifecycle ------------------------------
(***************************************************************************)
(* The life of a service process, as main of either service writes it: it  *)
(* opens its database, starts an HTTP and a gRPC server on goroutines of   *)
(* their own, waits for a signal or for the failure of a server, and stops *)
(* in order: the HTTP server, within ten seconds, the gRPC server, however *)
(* long it takes, the database, by a deferred Close, and itself.           *)
(*                                                                         *)
(* Clients connect, send requests and go away at any time.  An event       *)
(* stream of the transaction service is a request whose handler returns    *)
(* only when its client goes.                                              *)
(***************************************************************************)
EXTENDS Naturals

CONSTANTS
  Connection,  \* HTTP connections, kept alive between requests
  Call         \* gRPC calls

VARIABLES
  main,      \* where function main is
  database,  \* the sql.DB: "none", "open" or "closed"
  listener,  \* of each server: "none", "open" or "closed"
  failed,    \* servers whose goroutine has sent its error to errCh
  signal,    \* a signal waits in signalCh
  conn,      \* the state of each connection
  rpc,       \* the state of each call
  late,      \* Shutdown has returned since its deadline had passed
  ending     \* why the process ended

lifeVars == <<main, database, listener, failed, signal, conn, rpc, late, ending>>

Server == {"http", "grpc"}

\* Requests being handled; a stream is one whose handler does not return by itself.
Busy == {"active", "stream"}

\* Handlers at work, also those whose clients have left.
AtWork == Busy \cup {"left"}
Ended == {"exited", "dead"}
Running == main \notin Ended

Init ==
  /\ main = "open" /\ database = "none"
  /\ listener = [s \in Server |-> "none"]
  /\ failed = {} /\ signal = FALSE
  /\ conn = [c \in Connection |-> "none"]
  /\ rpc = [r \in Call |-> "none"]
  /\ late = FALSE
  /\ ending = "none"
-----------------------------------------------------------------------------
\* The process ends, and with it its goroutines: requests at work are cut off.
End(where, why) ==
  /\ main' = where
  /\ ending' = why
  /\ conn' = [c \in Connection |-> IF conn[c] \in Busy THEN "cut"
                                   ELSE IF conn[c] \in {"idle", "left"} THEN "closed"
                                   ELSE conn[c]]
  /\ rpc' = [r \in Call |-> IF rpc[r] = "active" THEN "cut" ELSE rpc[r]]
  /\ UNCHANGED <<database, listener, failed, signal, late>>

Goto(where) ==
  /\ main' = where
  /\ UNCHANGED ending

Unchanged(rest) == UNCHANGED <<conn, rpc, late>> /\ UNCHANGED rest

\* logger.Fatal calls os.Exit: no deferred call runs.
Fatal == End("dead", "fatal")

\* sql.Open and PingContext within ten seconds; the client of the auth service
\* or the encryptor; net.Listen for gRPC.
Start ==
  \/ /\ main = "open"
     /\ \/ Fatal
        \/ Goto("ping") /\ database' = "open" /\ Unchanged(<<listener, failed, signal>>)
  \/ /\ main = "ping"
     /\ \/ Fatal
        \/ Goto("listen") /\ Unchanged(<<database, listener, failed, signal>>)
  \/ /\ main = "listen"
     /\ \/ Fatal
        \/ /\ Goto("notify")
           /\ listener' = [listener EXCEPT !["grpc"] = "open"]
           /\ Unchanged(<<database, failed, signal>>)

\* The servers' goroutines run from here on; then signal.Notify.
Notify ==
  /\ main = "notify"
  /\ Goto("select")
  /\ Unchanged(<<database, listener, failed, signal>>)

\* The goroutine of ListenAndServe, which may find the address taken.
HttpListens ==
  /\ main \in {"notify", "select"} /\ listener["http"] = "none" /\ "http" \notin failed
  /\ \/ /\ listener' = [listener EXCEPT !["http"] = "open"]
        /\ UNCHANGED failed
     \/ /\ failed' = failed \cup {"http"}
        /\ UNCHANGED listener
  /\ UNCHANGED <<main, database, signal, conn, rpc, late, ending>>

\* Accept fails, and Serve returns the error to errCh.
ServerFails(s) ==
  /\ main \in {"notify", "select"} /\ listener[s] = "open"
  /\ listener' = [listener EXCEPT ![s] = "closed"]
  /\ failed' = failed \cup {s}
  /\ UNCHANGED <<main, database, signal, conn, rpc, late, ending>>

\* SIGINT or SIGTERM.  Before Notify it kills the process; afterwards the
\* channel takes one, and nobody reads a second.
Signal ==
  /\ Running
  /\ IF main \in {"open", "ping", "listen", "notify"}
     THEN End("dead", "killed")
     ELSE /\ signal' = TRUE
          /\ UNCHANGED <<main, database, listener, failed, conn, rpc, late, ending>>

\* The select of main: the failure of a server is fatal; a signal makes
\* Shutdown close the listener of the HTTP server.
Select ==
  /\ main = "select"
  /\ \/ failed # {} /\ Fatal
     \/ /\ signal
        /\ signal' = FALSE
        /\ Goto("shutdown")
        /\ listener' = [listener EXCEPT !["http"] = "closed"]
        /\ Unchanged(<<database, failed>>)
-----------------------------------------------------------------------------
\* Mutant of ShutdownReturns: Shutdown is given a context without a deadline.
ShutdownWaits ==
  /\ main = "shutdown"
  /\ \A c \in Connection : conn[c] \notin AtWork
  /\ conn' = [c \in Connection |-> IF conn[c] = "idle" THEN "closed" ELSE conn[c]]
  /\ Goto("stop")
  /\ UNCHANGED <<database, listener, failed, signal, rpc, late>>

\* Mutant of ShutdownReturns: main does not wait for Shutdown, called by a goroutine.
ShutdownInBackground ==
  /\ main = "shutdown"
  /\ conn' = [c \in Connection |-> IF conn[c] = "idle" THEN "closed" ELSE conn[c]]
  /\ Goto("stop")
  /\ UNCHANGED <<database, listener, failed, signal, rpc, late>>

\* Shutdown closes connections as they become idle, until all are, or until
\* shutdownCtx ends; then main goes on whatever it returns.
ShutdownReturns ==
  /\ main = "shutdown"
  /\ \/ /\ \A c \in Connection : conn[c] \notin AtWork
        /\ UNCHANGED late
     \/ late' = TRUE
  /\ conn' = [c \in Connection |-> IF conn[c] = "idle" THEN "closed" ELSE conn[c]]
  /\ Goto("stop")
  /\ UNCHANGED <<database, listener, failed, signal, rpc>>

\* Mutant of GracefulStop: Stop, which cancels the calls it finds.
Stop ==
  /\ \/ /\ main = "stop"
        /\ listener' = [listener EXCEPT !["grpc"] = "closed"]
        /\ Goto("drain")
     \/ main = "drain" /\ Goto("close") /\ UNCHANGED listener
  /\ UNCHANGED <<database, failed, signal, conn, rpc, late>>

\* GracefulStop accepts no more connections and waits until no call is left on those
\* there are.
GracefulStop ==
  /\ \/ /\ main = "stop"
        /\ listener' = [listener EXCEPT !["grpc"] = "closed"]
        /\ Goto("drain")
     \/ /\ main = "drain" /\ \A r \in Call : rpc[r] # "active"
        /\ Goto("close")
        /\ UNCHANGED listener
  /\ UNCHANGED <<database, failed, signal, conn, rpc, late>>

\* The deferred db.Close; main then returns.
Return ==
  \/ /\ main = "close"
     /\ database' = "closed"
     /\ Goto("exit")
     /\ Unchanged(<<listener, failed, signal>>)
  \/ main = "exit" /\ End("exited", "signal")

\* SIGKILL, a crash, or a panic outside the handlers.
Killed == Running /\ End("dead", "killed")
-----------------------------------------------------------------------------
\* A client opens a connection.
Connect(c) ==
  /\ Running /\ listener["http"] = "open"
  /\ conn[c] = "none"
  /\ conn' = [conn EXCEPT ![c] = "idle"]
  /\ UNCHANGED <<main, database, listener, failed, signal, rpc, late, ending>>

\* A request comes on a connection, which may be one that Shutdown has not closed yet.
Request(c) ==
  /\ Running /\ conn[c] = "idle"
  /\ \E kind \in Busy : conn' = [conn EXCEPT ![c] = kind]
  /\ UNCHANGED <<main, database, listener, failed, signal, rpc, late, ending>>

\* A handler returns; the server keeps the connection unless it is stopping, or the
\* client has left.
HandlerReturns(c) ==
  /\ Running /\ conn[c] \in {"active", "left"}
  /\ conn' = [conn EXCEPT ![c] = IF conn[c] = "active" /\ main \in {"notify", "select"}
                                 THEN "idle" ELSE "closed"]
  /\ UNCHANGED <<main, database, listener, failed, signal, rpc, late, ending>>

\* A handler asks for a connection to a database that has been closed.
HandlerFails(c) ==
  /\ Running /\ conn[c] \in {"active", "left"} /\ database = "closed"
  /\ conn' = [conn EXCEPT ![c] = "failed"]
  /\ UNCHANGED <<main, database, listener, failed, signal, rpc, late, ending>>

\* The client goes away: its request's context is cancelled.  The handler, also that of a
\* stream, then returns by itself, in a step of its own; until then its connection is not
\* idle.
ClientLeaves(c) ==
  /\ Running /\ conn[c] \in Busy \cup {"idle"}
  /\ conn' = [conn EXCEPT ![c] = IF conn[c] = "idle" THEN "closed" ELSE "left"]
  /\ UNCHANGED <<main, database, listener, failed, signal, rpc, late, ending>>

\* A call comes on a connection which the gRPC server has accepted, also while it drains:
\* the client may not have heard that it is to go elsewhere.
CallArrives(r) ==
  /\ main \in {"notify", "select", "shutdown", "stop", "drain"}
  /\ rpc[r] = "none"
  /\ rpc' = [rpc EXCEPT ![r] = "active"]
  /\ UNCHANGED <<main, database, listener, failed, signal, conn, late, ending>>

\* The handler of a call returns: its answer, or its error if the database is
\* closed.
CallReturns(r) ==
  /\ Running /\ rpc[r] = "active"
  /\ rpc' = [rpc EXCEPT ![r] = IF database = "closed" THEN "failed" ELSE "done"]
  /\ UNCHANGED <<main, database, listener, failed, signal, conn, late, ending>>

MainStep == Start \/ Notify \/ Select \/ ShutdownReturns \/ GracefulStop \/ Return

Next ==
  \/ MainStep \/ HttpListens \/ Signal \/ Killed
  \/ \E s \in Server : ServerFails(s)
  \/ \E c \in Connection :
       \/ Connect(c) \/ Request(c) \/ HandlerReturns(c)
       \/ HandlerFails(c) \/ ClientLeaves(c)
  \/ \E r \in Call : CallArrives(r) \/ CallReturns(r)

Spec == Init /\ [][Next]_lifeVars

\* main goes on when it can, and a call, which is one query, returns.  Nothing
\* is owed by the handlers of HTTP requests or by clients.
FairSpec ==
  Spec /\ WF_lifeVars(MainStep) /\ \A r \in Call : WF_lifeVars(CallReturns(r))
=============================================================================
