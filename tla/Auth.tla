-------------------------------- MODULE Auth --------------------------------
(***************************************************************************)
(* The auth service: the goroutines of its HTTP requests (register, log    *)
(* in, own profile, an administrator's look at a user), the users table of *)
(* MySQL, and the tokens it has signed.                                    *)
(*                                                                         *)
(* A statement sees the committed rows at one instant; between two         *)
(* statements of a request, and while it hashes a password, anything may   *)
(* happen.  The service keeps no state of its own: a crash loses only the  *)
(* requests in flight.                                                     *)
(***************************************************************************)
EXTENDS Integers, FiniteSets

CONSTANTS
  Request,    \* HTTP requests; the id a registration draws is its request
  EmailText,  \* what clients write as email
  Address,    \* those of them that mail.ParseAddress accepts
  Normalized, \* NormalizeEmail: lower case, without spaces around it
  Password,   \* what clients write as password
  Length,     \* its length in bytes
  Digest,     \* the password of at most 72 bytes that bcrypt cannot tell from it
  NameLength, \* lengths of full names, trimmed
  RoleText,   \* what clients write as role
  Departed,   \* the id of a user who is no longer in the table
  OldTokens,  \* tokens such users still have
  Forged,     \* a text the service has not signed
  NoToken,    \* no Authorization header, or a malformed one
  Nil,
  TTL,        \* JWT_TTL
  MaxClock    \* a bound on the clock

Role == {"customer", "admin"}
Id == Request \cup {Departed}
Row == [id : Request, email : EmailText, role : Role, password : Password]
Token == [user : Id, role : Role, exp : Nat]

ASSUME EmailAssumption ==
  /\ Address \subseteq EmailText
  /\ Normalized \in [EmailText -> EmailText]
ASSUME PasswordAssumption ==
  /\ Length \in [Password -> Nat]
  /\ Digest \in [Password -> Password]
ASSUME IdAssumption == Departed \notin Request
ASSUME TokenAssumption ==
  /\ OldTokens \subseteq [user : {Departed}, role : Role, exp : Nat]
  /\ {Forged, NoToken} \cap Token = {}
ASSUME NothingAssumption == Nil \notin Row
ASSUME TimeAssumption == TTL \in Nat /\ MaxClock \in Nat

VARIABLES
  users,   \* the table
  tokens,  \* tokens signed so far
  clock,   \* seconds
  pc,      \* where the goroutine of each request is
  input,   \* its decoded body, or the token it carries
  found,   \* the row it has read, or is about to insert
  shown,   \* the user its answer shows
  reply,   \* the status of its answer
  earlier  \* history, which no action reads: registrations answered before it came

requestVars == <<pc, input, found, shown, reply>>
authVars == <<users, tokens, clock, requestVars, earlier>>

RegisterInput ==
  [kind : {"register"}, email : EmailText, name : NameLength, password : Password,
   role : RoleText]
LoginInput == [kind : {"login"}, email : EmailText, password : Password]
MeInput(texts) == [kind : {"me"}, token : texts]
AdminInput(texts) == [kind : {"admin"}, token : texts, id : Id]

Init ==
  /\ users = {} /\ tokens = OldTokens /\ clock = 0
  /\ pc = [r \in Request |-> "idle"]
  /\ input = [r \in Request |-> Nil]
  /\ found = [r \in Request |-> Nil]
  /\ shown = [r \in Request |-> Nil]
  /\ reply = [r \in Request |-> "none"]
  /\ earlier = [r \in Request |-> {}]
-----------------------------------------------------------------------------
\* What the functions of the service compute.

\* Mutant of LookupHash: the text as the client wrote it.
LookupHashVerbatim(email) == email

\* HMAC-SHA256 of the normalised email, which tells normalised emails apart.
LookupHash(email) == Normalized[email]

validateRegister(in) ==
  /\ in.email \in Address
  /\ in.name >= 2
  /\ Length[in.password] >= 12

ParseRole(text) == text \in Role

RoleOf(in) == IF in.role = "" THEN "customer" ELSE in.role

\* Mutant of CheckPassword: a comparison that never fails.
CheckNothing(hash, password) == TRUE

CheckPassword(hash, password) == hash = Digest[password]

\* Generate: a token for user u that is valid for TTL.
Generate(u) == [user |-> u.id, role |-> u.role, exp |-> clock + TTL]

\* Mutant of Validate: the expiry is not looked at.
ValidateSignature(text) == text \in tokens

\* JWTManager.Validate: the signature is the service's and exp is in the future.
Validate(text) == text \in tokens /\ clock < text.exp

GetByEmailHash(hash) == {u \in users : u.email = hash}
GetByID(id) == {u \in users : u.id = id}
-----------------------------------------------------------------------------
\* The request ends: its handler has written this status.
Answer(r, status) ==
  /\ pc' = [pc EXCEPT ![r] = "done"]
  /\ reply' = [reply EXCEPT ![r] = status]

Goto(r, place) ==
  /\ pc' = [pc EXCEPT ![r] = place]
  /\ UNCHANGED reply

\* A request arrives and what needs no database is checked: the body decodes,
\* its fields are acceptable.
Receive(r) ==
  /\ pc[r] = "idle"
  /\ \/ Answer(r, "bad_request") /\ UNCHANGED input
     \/ \E in \in RegisterInput :
          /\ input' = [input EXCEPT ![r] = in]
          /\ IF validateRegister(in) /\ (in.role = "" \/ ParseRole(in.role))
               THEN Goto(r, "lookup") ELSE Answer(r, "bad_request")
     \/ \E in \in LoginInput :
          /\ input' = [input EXCEPT ![r] = in]
          /\ IF in.email \in Address /\ Length[in.password] # 0
               THEN Goto(r, "lookup") ELSE Answer(r, "bad_request")
     \/ LET texts == tokens \cup {Forged, NoToken} IN
        \E in \in MeInput(texts) \cup AdminInput(texts) :
          /\ input' = [input EXCEPT ![r] = in]
          /\ IF in.token # NoToken
               THEN Goto(r, "authenticate") ELSE Answer(r, "unauthorized")
  /\ earlier' = [earlier EXCEPT ![r] = {q \in Request : reply[q] = "created"}]
  /\ UNCHANGED <<users, tokens, clock, found, shown>>

\* Register and Login: GetByEmailHash.
LookUp(r) ==
  /\ pc[r] = "lookup"
  /\ LET rows == GetByEmailHash(LookupHash(input[r].email)) IN
     IF input[r].kind = "register"
       THEN /\ IF rows = {} THEN Goto(r, "hash") ELSE Answer(r, "conflict")
            /\ UNCHANGED found
       ELSE \/ rows = {} /\ Answer(r, "unauthorized") /\ UNCHANGED found
            \/ \E u \in rows :
                 Goto(r, "check") /\ found' = [found EXCEPT ![r] = u]
  /\ UNCHANGED <<users, tokens, clock, input, shown, earlier>>

\* Register: bcrypt takes its time, and no password of more than 72 bytes; then the
\* row is built.
HashPassword(r) ==
  /\ pc[r] = "hash"
  /\ IF Length[input[r].password] > 72
       THEN Answer(r, "internal") /\ UNCHANGED found
       ELSE /\ Goto(r, "create")
            /\ found' = [found EXCEPT ![r] =
                           [id |-> r, email |-> LookupHash(input[r].email),
                            role |-> RoleOf(input[r]),
                            password |-> Digest[input[r].password]]]
  /\ UNCHANGED <<users, tokens, clock, input, shown, earlier>>

\* Mutant of Create: a table without the UNIQUE key.
CreateTwice(r) ==
  /\ pc[r] = "create"
  /\ users' = users \cup {found[r]}
  /\ Goto(r, "issue")
  /\ UNCHANGED <<tokens, clock, input, found, shown, earlier>>

\* Mutant of Create: an INSERT that says nothing of a duplicate.
CreateIgnoringDuplicates(r) ==
  /\ pc[r] = "create"
  /\ users' = IF GetByEmailHash(found[r].email) = {} THEN users \cup {found[r]} ELSE users
  /\ Goto(r, "issue")
  /\ UNCHANGED <<tokens, clock, input, found, shown, earlier>>

\* Register: the INSERT, which the UNIQUE key refuses if a row with this email has
\* come since the look-up, and whose acknowledgement may be lost.
Create(r) ==
  /\ pc[r] = "create"
  /\ IF GetByEmailHash(found[r].email) = {}
       THEN /\ users' = users \cup {found[r]}
            /\ Goto(r, "issue") \/ Answer(r, "internal")
       ELSE /\ Answer(r, "internal")
            /\ UNCHANGED users
  /\ UNCHANGED <<tokens, clock, input, found, shown, earlier>>

\* Login: bcrypt compares.
Check(r) ==
  /\ pc[r] = "check"
  /\ IF CheckPassword(found[r].password, input[r].password)
       THEN Goto(r, "issue") ELSE Answer(r, "unauthorized")
  /\ UNCHANGED <<users, tokens, clock, input, found, shown, earlier>>

\* issueToken: a token for the row at hand, and the user it shows.
IssueToken(r) ==
  /\ pc[r] = "issue"
  /\ tokens' = tokens \cup {Generate(found[r])}
  /\ shown' = [shown EXCEPT ![r] = found[r]]
  /\ Answer(r, IF input[r].kind = "register" THEN "created" ELSE "ok")
  /\ UNCHANGED <<users, clock, input, found, earlier>>

\* authMiddleware, ValidateToken: the token itself.
Authenticate(r) ==
  /\ pc[r] = "authenticate"
  /\ IF Validate(input[r].token) THEN Goto(r, "confirm") ELSE Answer(r, "unauthorized")
  /\ UNCHANGED <<users, tokens, clock, input, found, shown, earlier>>

\* Mutant of Confirm: the user's row is not looked for.
ConfirmNothing(r) ==
  /\ pc[r] = "confirm"
  /\ IF input[r].kind = "admin" /\ input[r].token.role # "admin"
       THEN Answer(r, "forbidden") ELSE Goto(r, "profile")
  /\ UNCHANGED <<users, tokens, clock, input, found, shown, earlier>>

\* ValidateToken: the user still exists.  Then requireRoles, for administrators.
Confirm(r) ==
  /\ pc[r] = "confirm"
  /\ IF GetByID(input[r].token.user) = {} THEN Answer(r, "unauthorized")
     ELSE IF input[r].kind = "admin" /\ input[r].token.role # "admin"
       THEN Answer(r, "forbidden")
     ELSE Goto(r, "profile")
  /\ UNCHANGED <<users, tokens, clock, input, found, shown, earlier>>

\* me, adminGetUser: GetProfile.
GetProfile(r) ==
  /\ pc[r] = "profile"
  /\ LET id == IF input[r].kind = "me" THEN input[r].token.user ELSE input[r].id IN
     \/ GetByID(id) = {} /\ Answer(r, "not_found") /\ UNCHANGED shown
     \/ \E u \in GetByID(id) :
          Answer(r, "ok") /\ shown' = [shown EXCEPT ![r] = u]
  /\ UNCHANGED <<users, tokens, clock, input, found, earlier>>

\* A statement fails without effect: connection lost, client gone.  The middleware
\* makes a 401 of it, the handlers a 500.
QueryFails(r) ==
  /\ \/ pc[r] \in {"lookup", "create", "profile"} /\ Answer(r, "internal")
     \/ pc[r] = "confirm" /\ Answer(r, "unauthorized")
  /\ UNCHANGED <<users, tokens, clock, input, found, shown, earlier>>

\* The process dies, with the requests in flight.
Crash ==
  /\ pc' = [r \in Request |-> IF pc[r] = "idle" THEN "idle" ELSE "done"]
  /\ UNCHANGED <<users, tokens, clock, input, found, shown, reply, earlier>>

Tick ==
  /\ clock < MaxClock
  /\ clock' = clock + 1
  /\ UNCHANGED <<users, tokens, requestVars, earlier>>

Advance(r) ==
  \/ Receive(r) \/ LookUp(r) \/ HashPassword(r) \/ Create(r) \/ Check(r)
  \/ IssueToken(r) \/ Authenticate(r) \/ Confirm(r) \/ GetProfile(r)

Next ==
  \/ \E r \in Request : Advance(r) \/ QueryFails(r)
  \/ Crash
  \/ Tick

Spec == Init /\ [][Next]_authVars
=============================================================================
