---------------------------- MODULE AuthGateway ----------------------------
(***************************************************************************)
(* Who a request of the transaction service runs as: authMiddleware takes  *)
(* a token from the request and asks the auth service over gRPC, with a    *)
(* deadline.  Composed with the auth service, whose ValidateToken runs as  *)
(* a goroutine of its own there and may still be at it when its caller has *)
(* given up.                                                               *)
(***************************************************************************)
EXTENDS Auth

CONSTANTS
  Caller,    \* requests of the transaction service
  Absent,    \* no Authorization header, or no token parameter
  Malformed  \* a header that is not a bearer token

ASSUME BearerAssumption ==
  /\ NoToken \notin {Absent, Malformed, Forged} /\ Absent # Malformed
  /\ Forged \notin {Absent, Malformed}
  /\ {Absent, Malformed} \cap Token = {}

Actor == [user : Id, role : Role]
ASSUME NobodyAssumption == Nil \notin Actor

VARIABLES
  caller,   \* where the goroutine of each is
  header,   \* its Authorization header
  query,    \* its token query parameter
  server,   \* where its call is, in the auth service or on the way back
  answer,   \* whom the auth service has answered, or Nil for an invalid token
  actor,    \* what the handler runs as
  \* History, which no action reads:
  arrived,  \* when the request came
  judged,   \* when the auth service looked at the expiry of its token
  disturbed \* whether its call has met a failure

callVars == <<caller, header, query, server, answer, actor, arrived, judged, disturbed>>
gatewayVars == <<authVars, callVars>>

GatewayInit ==
  /\ Init
  /\ caller = [c \in Caller |-> "idle"]
  /\ header = [c \in Caller |-> Absent]
  /\ query = [c \in Caller |-> Absent]
  /\ server = [c \in Caller |-> "none"]
  /\ answer = [c \in Caller |-> Nil]
  /\ actor = [c \in Caller |-> Nil]
  /\ arrived = [c \in Caller |-> 0]
  /\ judged = [c \in Caller |-> 0]
  /\ disturbed = [c \in Caller |-> FALSE]
-----------------------------------------------------------------------------
\* Mutant of bearerToken: the parameter, meant for streams, is not looked at.
HeaderOnly(head, parameter) == IF head \in {Absent, Malformed} THEN NoToken ELSE head

\* The token of the header; that of the parameter only if there is no header.
bearerToken(head, parameter) ==
  IF head = Absent THEN (IF parameter = Absent THEN NoToken ELSE parameter)
  ELSE IF head = Malformed THEN NoToken
  ELSE head

Bearer(c) == bearerToken(header[c], query[c])

\* authMiddleware: a request without a token is refused, the others call.
Arrive(c) ==
  /\ caller[c] = "idle"
  /\ \E head \in tokens \cup {Forged, Absent, Malformed},
        parameter \in tokens \cup {Forged, Absent} :
       /\ header' = [header EXCEPT ![c] = head]
       /\ query' = [query EXCEPT ![c] = parameter]
       /\ IF bearerToken(head, parameter) = NoToken
            THEN /\ caller' = [caller EXCEPT ![c] = "refused"]
                 /\ UNCHANGED server
            ELSE /\ caller' = [caller EXCEPT ![c] = "calling"]
                 /\ server' = [server EXCEPT ![c] = "validate"]
  /\ arrived' = [arrived EXCEPT ![c] = clock]
  /\ UNCHANGED <<authVars, answer, actor, judged, disturbed>>

\* AuthServer.ValidateToken: the token itself.
ServerValidates(c) ==
  /\ server[c] = "validate"
  /\ server' = [server EXCEPT ![c] = IF Validate(Bearer(c)) THEN "confirm" ELSE "answered"]
  /\ judged' = [judged EXCEPT ![c] = clock]
  /\ UNCHANGED <<authVars, caller, header, query, answer, actor, arrived, disturbed>>

\* Mutant of ServerConfirms: the user's row is not looked for.
ServerBelieves(c) ==
  /\ server[c] = "confirm"
  /\ server' = [server EXCEPT ![c] = "answered"]
  /\ answer' = [answer EXCEPT ![c] = [user |-> Bearer(c).user, role |-> Bearer(c).role]]
  /\ UNCHANGED <<authVars, caller, header, query, actor, arrived, judged, disturbed>>

\* AuthServer.ValidateToken: the user's row, and the answer.
ServerConfirms(c) ==
  /\ server[c] = "confirm"
  /\ server' = [server EXCEPT ![c] = "answered"]
  /\ answer' = [answer EXCEPT ![c] =
                  IF GetByID(Bearer(c).user) = {} THEN Nil
                  ELSE [user |-> Bearer(c).user, role |-> Bearer(c).role]]
  /\ UNCHANGED <<authVars, caller, header, query, actor, arrived, judged, disturbed>>

\* Its query fails: the answer is that of an invalid token.
ServerQueryFails(c) ==
  /\ server[c] = "confirm"
  /\ server' = [server EXCEPT ![c] = "answered"]
  /\ disturbed' = [disturbed EXCEPT ![c] = TRUE]
  /\ UNCHANGED <<authVars, caller, header, query, answer, actor, arrived, judged>>

\* The request or the answer is lost, and nobody is told.
Lose(c) ==
  /\ server[c] \in {"validate", "confirm", "answered"} /\ caller[c] = "calling"
  /\ server' = [server EXCEPT ![c] = "lost"]
  /\ disturbed' = [disturbed EXCEPT ![c] = TRUE]
  /\ UNCHANGED <<authVars, caller, header, query, answer, actor, arrived, judged>>

\* Invoke returns the answer: a valid token makes an actor, any other a 401.
Answered(c) ==
  /\ caller[c] = "calling" /\ server[c] = "answered"
  /\ caller' = [caller EXCEPT ![c] = IF answer[c] = Nil THEN "refused" ELSE "serving"]
  /\ actor' = [actor EXCEPT ![c] = answer[c]]
  /\ UNCHANGED <<authVars, header, query, server, answer, arrived, judged, disturbed>>

\* Mutant of CallFails: without a deadline, a call whose answer is lost hangs.
CallFailsWhenTold(c) ==
  /\ caller[c] = "calling" /\ server[c] # "lost"
  /\ caller' = [caller EXCEPT ![c] = "refused"]
  /\ disturbed' = [disturbed EXCEPT ![c] = TRUE]
  /\ UNCHANGED <<authVars, header, query, server, answer, actor, arrived, judged>>

\* Invoke returns an error: the deadline has passed, the connection is down or the
\* client has gone.  The auth service may go on.
CallFails(c) ==
  /\ caller[c] = "calling"
  /\ caller' = [caller EXCEPT ![c] = "refused"]
  /\ disturbed' = [disturbed EXCEPT ![c] = TRUE]
  /\ UNCHANGED <<authVars, header, query, server, answer, actor, arrived, judged>>

\* The handler, modelled in Ledger, has run as actor[c].  That of an event stream runs
\* until its client leaves: no handler need ever end.
Serve(c) ==
  /\ caller[c] = "serving"
  /\ caller' = [caller EXCEPT ![c] = "served"]
  /\ UNCHANGED <<authVars, header, query, server, answer, actor, arrived, judged, disturbed>>

\* A crash of the auth service takes the calls it is at with it.
AuthCrashes ==
  /\ Crash
  /\ server' = [c \in Caller |-> IF server[c] \in {"validate", "confirm"}
                                 THEN "lost" ELSE server[c]]
  /\ disturbed' = [c \in Caller |-> disturbed[c] \/ server[c] \in {"validate", "confirm"}]
  /\ UNCHANGED <<caller, header, query, answer, actor, arrived, judged>>

CallerStep(c) == Answered(c) \/ CallFails(c) \/ Serve(c)

GatewayNext ==
  \/ \E c \in Caller :
       \/ Arrive(c) \/ CallerStep(c)
       \/ ServerValidates(c) \/ ServerConfirms(c) \/ ServerQueryFails(c) \/ Lose(c)
  \/ \E r \in Request : (Advance(r) \/ QueryFails(r)) /\ UNCHANGED callVars
  \/ AuthCrashes
  \/ Tick /\ UNCHANGED callVars

GatewaySpec == GatewayInit /\ [][GatewayNext]_gatewayVars

\* The deadline of a call passes, whatever the auth service does; nothing else is owed.
GatewayFairSpec == GatewaySpec /\ \A c \in Caller : WF_gatewayVars(CallFails(c))
=============================================================================
