------------------------- MODULE GatewayProperties -------------------------
(***************************************************************************)
(* What the transaction service may rely on: who its handlers run as.      *)
(***************************************************************************)
EXTENDS AuthGateway, AuthProperties

\* Every variable has a value of its type.
CallTypeOK ==
  /\ caller \in [Caller -> {"idle", "calling", "serving", "served", "refused"}]
  /\ header \in [Caller -> Token \cup {Forged, Absent, Malformed}]
  /\ query \in [Caller -> Token \cup {Forged, Absent}]
  /\ server \in [Caller -> {"none", "validate", "confirm", "answered", "lost"}]
  /\ answer \in [Caller -> Actor \cup {Nil}]
  /\ actor \in [Caller -> Actor \cup {Nil}]
  /\ arrived \in [Caller -> Nat]
  /\ judged \in [Caller -> Nat]
  /\ disturbed \in [Caller -> BOOLEAN]

\* A handler runs only as the user and in the role that a row of the users table has,
\* with a token the auth service has signed for them, which had not expired at some
\* instant since the request came, whatever else the two services, the calls between
\* them and the other requests were doing.
ActorsAreConfirmed ==
  \A c \in Caller : caller[c] \in {"serving", "served"} =>
    /\ Bearer(c) \in tokens
    /\ \E u \in users : actor[c] = [user |-> u.id, role |-> u.role]
    /\ actor[c].user = Bearer(c).user
    /\ arrived[c] <= judged[c] /\ judged[c] < Bearer(c).exp

\* The text a client means as its token.
Presented(c) == IF header[c] = Absent THEN query[c] ELSE header[c]

HasReason(c) ==
  \/ disturbed[c]
  \/ Presented(c) \in {Absent, Malformed, Forged}
  \/ Presented(c) \in tokens /\ Presented(c).exp <= clock
  \/ Presented(c) \in tokens /\ GetByID(Presented(c).user) = {}

\* A request is answered 401 only for a reason: it carries no token, or one the service
\* has not signed, or one that has expired, or of a user who is gone, or its call met a
\* failure.
RefusalsHaveReasons == \A c \in Caller : caller[c] = "refused" => HasReason(c)

\* Whatever becomes of the auth service, and of the messages, no request waits for it
\* for ever: it is refused, or its handler runs, which may be a stream that never ends.
EveryCallEnds ==
  \A c \in Caller : caller[c] = "calling" ~> caller[c] \in {"serving", "served", "refused"}
-----------------------------------------------------------------------------
\* The inductive invariant: what is known at each place of a call.

\* The auth service has looked at the token of c, in time.
Judged(c) ==
  /\ Bearer(c) \in tokens
  /\ arrived[c] <= judged[c] /\ judged[c] < Bearer(c).exp

CallInv(c) ==
  /\ caller[c] = "idle" => server[c] = "none"
  /\ caller[c] \in {"calling", "serving", "served"} => server[c] # "none"
  /\ server[c] # "none" => Bearer(c) \in tokens \cup {Forged}
  /\ arrived[c] <= clock
  /\ server[c] \in {"none", "validate", "confirm"} => answer[c] = Nil
  /\ server[c] = "confirm" => Judged(c)
  /\ answer[c] # Nil =>
       /\ Judged(c)
       /\ answer[c].user = Bearer(c).user
       /\ \E u \in users : answer[c] = [user |-> u.id, role |-> u.role]
  /\ server[c] = "answered" /\ answer[c] = Nil => HasReason(c)
  /\ caller[c] \in {"serving", "served"} => answer[c] # Nil /\ actor[c] = answer[c]
  /\ caller[c] \in {"serving", "served"} => server[c] = "answered"

GatewayInv ==
  /\ AuthInv
  /\ CallTypeOK
  /\ \A c \in Caller : CallInv(c)
  /\ ActorsAreConfirmed
  /\ RefusalsHaveReasons
=============================================================================
