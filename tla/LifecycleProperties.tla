------------------------- MODULE LifecycleProperties -------------------------
(***************************************************************************)
(* What stopping a service does to those who are using it.                 *)
(***************************************************************************)
EXTENDS Lifecycle

Place ==
  {"open", "ping", "listen", "notify", "select", "shutdown", "stop", "drain", "close",
   "exit"} \cup Ended

LifecycleTypeOK ==
  /\ main \in Place
  /\ database \in {"none", "open", "closed"}
  /\ listener \in [Server -> {"none", "open", "closed"}]
  /\ failed \subseteq Server
  /\ signal \in BOOLEAN /\ late \in BOOLEAN
  /\ conn \in [Connection -> {"none", "idle", "closed", "cut", "failed"} \cup AtWork]
  /\ rpc \in [Call -> {"none", "active", "done", "cut", "failed"}]
  /\ ending \in {"none", "fatal", "killed", "signal"}

\* A process that stops on a signal answers the requests it has accepted: a call to the
\* gRPC server always, although calls are accepted while the HTTP server is shut down and
\* while the gRPC server drains, and an HTTP request unless the ten seconds of Shutdown
\* have passed or its client has left.
NobodyIsCutOff ==
  ending = "signal" =>
    /\ \A r \in Call : rpc[r] # "cut"
    /\ ~late => \A c \in Connection : conn[c] # "cut"

\* No handler finds the database closed, except that of an HTTP request which has
\* outlived the ten seconds, whether its client waits for it or has left; in particular no
\* request comes in on a kept connection once Shutdown has returned in time.
DatabaseOutlivesHandlers ==
  /\ \A r \in Call : rpc[r] = "active" => database = "open"
  /\ \A r \in Call : rpc[r] # "failed"
  /\ \A c \in Connection : conn[c] \in AtWork => database = "open" \/ late
  /\ \A c \in Connection : conn[c] = "failed" => late

\* A signal ends the process, although a stream may be open that never ends and although
\* nothing but the calls is waited for without a deadline.
ShutdownEnds == main = "select" /\ signal ~> main \in Ended
-----------------------------------------------------------------------------
\* The inductive invariant: what has been opened and closed at each place of main.
LifecycleInv ==
  /\ LifecycleTypeOK
  /\ main \in {"ping", "listen", "notify", "select", "shutdown", "stop", "drain", "close"} =>
       database = "open"
  /\ main \in {"open", "ping", "listen"} =>
       /\ \A s \in Server : listener[s] = "none"
       /\ \A c \in Connection : conn[c] = "none"
       /\ \A r \in Call : rpc[r] = "none"
  /\ main \in {"shutdown", "stop", "drain", "close", "exit"} => listener["http"] = "closed"
  /\ main \in {"drain", "close", "exit"} => listener["grpc"] = "closed"
  /\ main \in {"stop", "drain", "close", "exit"} =>
       \A c \in Connection : conn[c] # "idle" /\ (conn[c] \in AtWork => late)
  /\ main \in {"close", "exit"} => \A r \in Call : rpc[r] # "active"
  /\ main = "exit" => database = "closed"
  /\ ending = "none" <=> Running
  /\ ~Running => \A c \in Connection : conn[c] \notin AtWork \cup {"idle"}
  /\ ~Running => \A r \in Call : rpc[r] # "active"
  /\ Running => \A c \in Connection : conn[c] # "cut"
  /\ Running => \A r \in Call : rpc[r] # "cut"
  /\ NobodyIsCutOff
  /\ DatabaseOutlivesHandlers
=============================================================================
