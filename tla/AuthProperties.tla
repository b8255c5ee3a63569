--------------------------- MODULE AuthProperties ---------------------------
(***************************************************************************)
(* What the auth service promises, over the table, the tokens it has       *)
(* signed and the answers it has given.                                    *)
(***************************************************************************)
EXTENDS Auth

Place ==
  {"idle", "lookup", "hash", "create", "check", "issue", "authenticate", "confirm",
   "profile", "done"}
Status ==
  {"none", "ok", "created", "bad_request", "unauthorized", "forbidden", "not_found",
   "conflict", "internal"}
Text == Token \cup {Forged, NoToken}

\* Every variable has a value of its type.
AuthTypeOK ==
  /\ users \subseteq Row
  /\ tokens \subseteq Token
  /\ clock \in Nat
  /\ pc \in [Request -> Place]
  /\ input \in [Request -> RegisterInput \cup LoginInput \cup MeInput(Text)
                             \cup AdminInput(Text) \cup {Nil}]
  /\ found \in [Request -> Row \cup {Nil}]
  /\ shown \in [Request -> Row \cup {Nil}]
  /\ reply \in [Request -> Status]
  /\ earlier \in [Request -> SUBSET Request]

\* However registrations race between their look-up and their INSERT, an email, in
\* whatever spelling, has one row, and a row has one id.
OneUserForAnEmail ==
  \A u, v \in users : u.email = v.email \/ u.id = v.id => u = v

\* The row that an accepted registration describes.
Registered(r) ==
  [id |-> r, email |-> LookupHash(input[r].email), role |-> RoleOf(input[r]),
   password |-> Digest[input[r].password]]

\* A registration answered 201 has its row, with the values it sent; one answered 400
\* or 409 has none, and 409 means that another has the email; and every row comes from a
\* registration, whose answer, if it had one, was 201 or 500.
RegistrationIsTruthful ==
  /\ \A r \in Request : reply[r] = "created" => Registered(r) \in users
  /\ \A r \in Request : reply[r] = "conflict" =>
       \E u \in users : u.email = LookupHash(input[r].email) /\ u.id # r
  /\ \A u \in users :
       /\ u = Registered(u.id)
       /\ reply[u.id] \in {"none", "created", "internal"}

\* Once a registration has been answered 201, no log-in that comes later with this email,
\* in whatever spelling, and this password is answered 401.
RegisteredCanLogIn ==
  \A r \in Request : reply[r] = "unauthorized" /\ input[r].kind = "login" =>
    ~ \E q \in earlier[r] :
        /\ Normalized[input[q].email] = Normalized[input[r].email]
        /\ Digest[input[q].password] = Digest[input[r].password]

\* A token says the id and the role of a row, or is one of the old ones; and it expires
\* within TTL.
TokensAreHonest ==
  \A t \in tokens \ OldTokens :
    /\ \E u \in users : t.user = u.id /\ t.role = u.role
    /\ t.exp <= clock + TTL

\* Whoever is shown a user has proved who they are: by the password of that row; by a
\* token of that row; or by a token of an administrator's row.
AnswersAreAuthorized ==
  \A r \in Request : shown[r] # Nil =>
    /\ shown[r] \in users
    /\ input[r].kind = "register" => shown[r] = Registered(r)
    /\ input[r].kind = "login" =>
         /\ shown[r].email = Normalized[input[r].email]
         /\ shown[r].password = Digest[input[r].password]
    /\ input[r].kind = "me" => shown[r].id = input[r].token.user
    /\ input[r].kind = "admin" =>
         \E u \in users : u.id = input[r].token.user /\ u.role = "admin"
-----------------------------------------------------------------------------
\* The inductive invariant: what a request knows at each place.

IsRegistration(r) == input[r] \in RegisterInput /\ RoleOf(input[r]) \in Role

RequestInv(r) ==
  \* What it has decoded.
  /\ pc[r] = "lookup" =>
       input[r] \in LoginInput \/ IsRegistration(r)
  /\ pc[r] \in {"hash", "create"} => IsRegistration(r)
  /\ pc[r] = "check" => input[r] \in LoginInput
  /\ pc[r] \in {"authenticate", "confirm", "profile"} =>
       input[r] \in MeInput(Token \cup {Forged}) \cup AdminInput(Token \cup {Forged})
  /\ pc[r] \in {"confirm", "profile"} => input[r].token \in tokens
  \* What it has read or built.
  /\ pc[r] = "create" => found[r] = Registered(r)
  /\ pc[r] \in {"check", "issue"} => found[r] \in users
  /\ pc[r] = "check" => found[r].email = LookupHash(input[r].email)
  /\ pc[r] = "issue" =>
       \/ IsRegistration(r) /\ found[r] = Registered(r)
       \/ /\ input[r] \in LoginInput
          /\ found[r].email = LookupHash(input[r].email)
          /\ found[r].password = Digest[input[r].password]
  /\ pc[r] = "profile" =>
       \E u \in users :
         /\ u.id = input[r].token.user
         /\ input[r].kind = "admin" => u.role = "admin"
  \* What it has answered.
  /\ pc[r] # "done" => reply[r] = "none" /\ shown[r] = Nil
  /\ \A q \in earlier[r] : reply[q] = "created"

\* A row belongs to a registration that is past its INSERT.
RowInv(u) ==
  /\ pc[u.id] \in {"issue", "done"}
  /\ IsRegistration(u.id)

AuthInv ==
  /\ AuthTypeOK
  /\ \A r \in Request : RequestInv(r)
  /\ \A u \in users : RowInv(u)
  /\ OneUserForAnEmail
  /\ RegistrationIsTruthful
  /\ RegisteredCanLogIn
  /\ TokensAreHonest
  /\ AnswersAreAuthorized
=============================================================================
