----------------------------- MODULE AuthProofs -----------------------------
(***************************************************************************)
(* Proofs that AuthInv is inductive, for any number of requests, any       *)
(* emails, passwords and roles, that GatewayInv is when the transaction    *)
(* service calls the auth service, and of what the two imply.              *)
(***************************************************************************)
EXTENDS GatewayProperties, TLAPS

\* When the service starts the table is empty and only old tokens exist.
LEMMA AuthInitInv == Init => AuthInv
<1> SUFFICES ASSUME Init
             PROVE  AuthInv
  OBVIOUS
<1> USE DEF Init
<1>1. AuthTypeOK
  BY TokenAssumption DEF AuthTypeOK, Place, Status, Token, Id, TokenAssumption
<1>2. \A r \in Request : RequestInv(r)
  BY DEF RequestInv
<1>3. TokensAreHonest
  BY DEF TokensAreHonest
<1>4. /\ \A u \in users : RowInv(u)
      /\ OneUserForAnEmail /\ RegistrationIsTruthful
      /\ RegisteredCanLogIn /\ AnswersAreAuthorized
  BY DEF OneUserForAnEmail, RegistrationIsTruthful, RegisteredCanLogIn,
         AnswersAreAuthorized
<1> QED BY <1>1, <1>2, <1>3, <1>4 DEF AuthInv

\* The row that a registration builds is one.
LEMMA RegisteredIsRow ==
  ASSUME NEW r \in Request, IsRegistration(r)
  PROVE  Registered(r) \in Row
BY EmailAssumption, PasswordAssumption
   DEF Registered, Row, IsRegistration, RegisterInput, LookupHash, EmailAssumption,
       PasswordAssumption

\* A request that is before its INSERT has no row.
LEMMA NoRowYet ==
  ASSUME AuthInv, NEW r \in Request, pc[r] \notin {"issue", "done"}
  PROVE  \A u \in users : u.id # r
BY DEF AuthInv, RowInv

\* What request q knows stays true while others move: rows and tokens only come, and
\* a 201 remains one.
LEMMA RequestFrame ==
  ASSUME AuthInv, NEW q \in Request,
         users \subseteq users', tokens \subseteq tokens',
         pc'[q] = pc[q], input'[q] = input[q], found'[q] = found[q],
         shown'[q] = shown[q], reply'[q] = reply[q], earlier'[q] = earlier[q],
         \A x \in Request : reply[x] = "created" => reply'[x] = "created"
  PROVE  RequestInv(q)'
<1>1. RequestInv(q)
  BY DEF AuthInv
<1>2. earlier[q] \subseteq Request
  BY DEF AuthInv, AuthTypeOK
<1>3. pc[q] = "profile" =>
        \E u \in users' : /\ u.id = input[q].token.user
                          /\ input[q].kind = "admin" => u.role = "admin"
  BY <1>1 DEF RequestInv
<1> QED BY <1>1, <1>2, <1>3 DEF RequestInv, IsRegistration, Registered

\* The steps of request r that touch neither table nor tokens: they preserve the
\* invariant if r still knows what it should, answers 409 and 401 only for good reasons
\* and shows a row only to its owner or an administrator.
LEMMA QuietStepKeepsInv ==
  ASSUME AuthInv, NEW r \in Request,
         pc[r] \notin {"issue", "done"},
         AuthTypeOK', RequestInv(r)',
         users' = users, tokens' = tokens, clock' = clock,
         input'[r] = input[r] \/ pc[r] = "idle",
         \A q \in Request \ {r} :
           /\ pc'[q] = pc[q] /\ input'[q] = input[q] /\ found'[q] = found[q]
           /\ reply'[q] = reply[q] /\ earlier'[q] = earlier[q] /\ shown'[q] = shown[q],
         shown'[r] # Nil =>
           /\ shown'[r] \in users
           /\ \/ /\ input'[r].kind = "me"
                 /\ shown'[r].id = input'[r].token.user
              \/ /\ input'[r].kind = "admin"
                 /\ \E u \in users : u.id = input'[r].token.user /\ u.role = "admin",
         reply'[r] # "created",
         reply'[r] = "conflict" => \E u \in users : u.email = LookupHash(input'[r].email),
         reply'[r] = "unauthorized" /\ input'[r].kind = "login" =>
           ~ \E q \in earlier'[r] :
               /\ q # r
               /\ Normalized[input[q].email] = Normalized[input'[r].email]
               /\ Digest[input[q].password] = Digest[input'[r].password]
  PROVE  AuthInv'
<1>1. RequestInv(r) /\ reply[r] = "none" /\ shown[r] = Nil
  BY DEF AuthInv, RequestInv
<1>2. \A u \in users : u.id # r /\ u.id \in Request
  BY NoRowYet DEF AuthInv, AuthTypeOK, Row
<1>3. \A q \in Request : RequestInv(q)'
  <2>1. ASSUME NEW q \in Request, q # r
        PROVE  RequestInv(q)'
    BY <1>1, <2>1, RequestFrame
  <2> QED BY <2>1
<1>4. \A u \in users' : RowInv(u)'
  BY <1>2 DEF AuthInv, RowInv, IsRegistration
<1>5. OneUserForAnEmail' /\ TokensAreHonest'
  BY DEF AuthInv, OneUserForAnEmail, TokensAreHonest
<1>6. RegistrationIsTruthful'
  <2>1. ASSUME NEW q \in Request, reply'[q] = "created"
        PROVE  Registered(q)' \in users'
    BY <2>1 DEF AuthInv, RegistrationIsTruthful, Registered
  <2>2. ASSUME NEW q \in Request, reply'[q] = "conflict"
        PROVE  \E u \in users' : u.email = LookupHash(input'[q].email) /\ u.id # q
    BY <1>2, <2>2 DEF AuthInv, RegistrationIsTruthful
  <2>3. ASSUME NEW u \in users'
        PROVE  u = Registered(u.id)' /\ reply'[u.id] \in {"none", "created", "internal"}
    BY <1>2, <2>3 DEF AuthInv, RegistrationIsTruthful, Registered
  <2> QED BY <2>1, <2>2, <2>3 DEF RegistrationIsTruthful
<1>7. RegisteredCanLogIn'
  <2>1. ASSUME NEW q \in Request, reply'[q] = "unauthorized", input'[q].kind = "login",
               NEW x \in earlier'[q],
               Normalized[input'[x].email] = Normalized[input'[q].email],
               Digest[input'[x].password] = Digest[input'[q].password]
        PROVE  FALSE
    <3>1. x \in Request /\ x # r
      BY <1>3, <2>1 DEF RequestInv, AuthTypeOK
    <3>2. CASE q = r
      BY <2>1, <3>1, <3>2
    <3>3. CASE q # r
      BY <2>1, <3>1, <3>3 DEF AuthInv, RegisteredCanLogIn
    <3> QED BY <3>2, <3>3
  <2> QED BY <2>1 DEF RegisteredCanLogIn
<1>8. AnswersAreAuthorized'
  <2>1. ASSUME NEW q \in Request, q # r
        PROVE  /\ shown'[q] = shown[q] /\ input'[q] = input[q]
               /\ Registered(q)' = Registered(q)
    BY <2>1 DEF Registered
  <2> QED BY <2>1 DEF AuthInv, AnswersAreAuthorized
<1> QED BY <1>3, <1>4, <1>5, <1>6, <1>7, <1>8 DEF AuthInv
-----------------------------------------------------------------------------
\* One lemma for each action.

LEMMA ReceiveKeepsInv ==
  ASSUME AuthInv, NEW r \in Request, Receive(r)
  PROVE  AuthInv'
<1>1. AuthTypeOK /\ RequestInv(r)
  BY DEF AuthInv
<1>2. /\ pc[r] = "idle" /\ UNCHANGED <<users, tokens, clock, found, shown>>
      /\ earlier' = [earlier EXCEPT ![r] = {q \in Request : reply[q] = "created"}]
  BY DEF Receive
<1>3. shown[r] = Nil /\ reply[r] = "none"
  BY <1>1, <1>2 DEF RequestInv
\* What has been decoded is of its type, and leads to its place.
<1>4. ASSUME NEW in \in RegisterInput \cup LoginInput \cup MeInput(Text)
                          \cup AdminInput(Text) \cup {Nil},
             input' = [input EXCEPT ![r] = in],
             \/ Goto(r, "lookup") /\ (in \in LoginInput \/ IsRegistration(r)')
             \/ /\ Goto(r, "authenticate")
                /\ in \in MeInput(Token \cup {Forged}) \cup AdminInput(Token \cup {Forged})
             \/ Answer(r, "bad_request")
             \/ Answer(r, "unauthorized") /\ in.kind # "login"
      PROVE  AuthInv'
  <2> USE DEF Goto, Answer
  <2>1. AuthTypeOK'
    <3>1. /\ pc' \in [Request -> Place] /\ reply' \in [Request -> Status]
      BY <1>1, <1>4 DEF AuthTypeOK, Place, Status
    <3>2. input' \in [Request -> RegisterInput \cup LoginInput \cup MeInput(Text)
                                   \cup AdminInput(Text) \cup {Nil}]
      BY <1>1, <1>4 DEF AuthTypeOK
    <3>3. earlier' \in [Request -> SUBSET Request]
      BY <1>1, <1>2 DEF AuthTypeOK
    <3> QED BY <1>1, <1>2, <3>1, <3>2, <3>3 DEF AuthTypeOK
  <2>2. /\ pc'[r] \in {"lookup", "authenticate", "done"}
        /\ reply'[r] \in {"none", "bad_request", "unauthorized"}
        /\ pc'[r] # "done" => reply'[r] = "none"
        /\ input'[r] = in
        /\ pc'[r] = "lookup" => in \in LoginInput \/ IsRegistration(r)'
        /\ pc'[r] = "authenticate" =>
             in \in MeInput(Token \cup {Forged}) \cup AdminInput(Token \cup {Forged})
        /\ reply'[r] = "unauthorized" => in.kind # "login"
    BY <1>1, <1>3, <1>4 DEF AuthTypeOK
  <2>3. \A q \in earlier'[r] : reply'[q] = "created"
    BY <1>1, <1>2, <1>3, <1>4 DEF AuthTypeOK
  <2>4. RequestInv(r)'
    BY <1>2, <1>3, <2>2, <2>3 DEF RequestInv
  <2>5. \A q \in Request \ {r} :
           /\ pc'[q] = pc[q] /\ input'[q] = input[q] /\ found'[q] = found[q]
           /\ reply'[q] = reply[q] /\ earlier'[q] = earlier[q]
    BY <1>1, <1>2, <1>4 DEF AuthTypeOK
  <2> HIDE DEF Goto, Answer
  <2> QED BY <1>2, <1>3, <2>1, <2>2, <2>4, <2>5, QuietStepKeepsInv
<1>5. CASE Answer(r, "bad_request") /\ UNCHANGED input
  <2>1. input' = [input EXCEPT ![r] = input[r]]
    BY <1>1, <1>5 DEF AuthTypeOK
  <2>2. input[r] \in RegisterInput \cup LoginInput \cup MeInput(Text)
                       \cup AdminInput(Text) \cup {Nil}
    BY <1>1 DEF AuthTypeOK
  <2> QED BY <1>4, <1>5, <2>1, <2>2
<1>6. ASSUME NEW in \in RegisterInput,
             input' = [input EXCEPT ![r] = in],
             IF validateRegister(in) /\ (in.role = "" \/ ParseRole(in.role))
               THEN Goto(r, "lookup") ELSE Answer(r, "bad_request")
      PROVE  AuthInv'
  <2>1. Goto(r, "lookup") => IsRegistration(r)'
    <3>1. input'[r] = in
      BY <1>1, <1>6 DEF AuthTypeOK
    <3>2. CASE in.role = "" \/ ParseRole(in.role)
      BY <1>6, <3>1, <3>2 DEF IsRegistration, RoleOf, Role, ParseRole
    <3>3. CASE ~(in.role = "" \/ ParseRole(in.role))
      <4>1. pc'[r] = "done"
        BY <1>1, <1>6, <3>3 DEF Answer, AuthTypeOK
      <4> QED BY <1>1, <4>1 DEF Goto, AuthTypeOK
    <3> QED BY <3>2, <3>3
  <2> QED BY <1>4, <1>6, <2>1
<1>7. ASSUME NEW in \in LoginInput,
             input' = [input EXCEPT ![r] = in],
             IF in.email \in Address /\ Length[in.password] # 0
               THEN Goto(r, "lookup") ELSE Answer(r, "bad_request")
      PROVE  AuthInv'
  BY <1>4, <1>7
<1>8. ASSUME NEW in \in MeInput(tokens \cup {Forged, NoToken})
                          \cup AdminInput(tokens \cup {Forged, NoToken}),
             input' = [input EXCEPT ![r] = in],
             IF in.token # NoToken
               THEN Goto(r, "authenticate") ELSE Answer(r, "unauthorized")
      PROVE  AuthInv'
  <2>1. /\ in \in MeInput(Text) \cup AdminInput(Text)
        /\ in.token # NoToken =>
             in \in MeInput(Token \cup {Forged}) \cup AdminInput(Token \cup {Forged})
        /\ in.kind # "login"
    BY <1>1, <1>8 DEF MeInput, AdminInput, AuthTypeOK, Text
  <2> QED BY <1>4, <1>8, <2>1
<1> QED BY <1>5, <1>6, <1>7, <1>8 DEF Receive

LEMMA LookUpKeepsInv ==
  ASSUME AuthInv, NEW r \in Request, LookUp(r)
  PROVE  AuthInv'
<1> DEFINE rows == GetByEmailHash(LookupHash(input[r].email))
<1>1. AuthTypeOK /\ RequestInv(r)
  BY DEF AuthInv
<1>2. /\ pc[r] = "lookup" /\ shown[r] = Nil /\ reply[r] = "none"
      /\ input[r] \in LoginInput \/ IsRegistration(r)
  BY <1>1 DEF LookUp, RequestInv
<1>3. /\ input[r].kind = "register" => IsRegistration(r)
      /\ input[r].kind # "register" => input[r] \in LoginInput
  BY <1>2 DEF LoginInput, IsRegistration, RegisterInput
<1>4. rows = {u \in users : u.email = LookupHash(input[r].email)}
  BY DEF GetByEmailHash
<1> HIDE DEF rows
<1>5. CASE input[r].kind = "register"
  <2>1. /\ IF rows = {} THEN Goto(r, "hash") ELSE Answer(r, "conflict")
        /\ UNCHANGED found
    BY <1>5 DEF LookUp, rows
  <2>2. AuthTypeOK' /\ RequestInv(r)'
    BY <1>1, <1>2, <1>3, <1>5, <2>1
       DEF LookUp, Goto, Answer, AuthTypeOK, RequestInv, Place, Status, IsRegistration
  <2> QED BY <1>1, <1>2, <1>4, <1>5, <2>1, <2>2, QuietStepKeepsInv
          DEF LookUp, Goto, Answer, AuthTypeOK
<1>6. CASE input[r].kind # "register" /\ rows = {} /\ Answer(r, "unauthorized")
           /\ UNCHANGED found
  <2>1. AuthTypeOK' /\ RequestInv(r)'
    BY <1>1, <1>2, <1>3, <1>6
       DEF LookUp, Answer, AuthTypeOK, RequestInv, Place, Status, IsRegistration
  <2>2. \A q \in earlier[r] :
          Normalized[input[q].email] # Normalized[input[r].email]
    <3>1. ASSUME NEW q \in earlier[r],
                 Normalized[input[q].email] = Normalized[input[r].email]
          PROVE  FALSE
      <4>1. q \in Request /\ reply[q] = "created"
        BY <1>1 DEF RequestInv, AuthTypeOK
      <4>2. Registered(q) \in users /\ Registered(q).email = LookupHash(input[r].email)
        BY <3>1, <4>1 DEF AuthInv, RegistrationIsTruthful, Registered, LookupHash
      <4> QED BY <1>4, <1>6, <4>2
    <3> QED BY <3>1
  <2> QED BY <1>1, <1>2, <1>6, <2>1, <2>2, QuietStepKeepsInv
          DEF LookUp, Answer, AuthTypeOK
<1>7. ASSUME input[r].kind # "register", NEW u \in rows, Goto(r, "check"),
             found' = [found EXCEPT ![r] = u]
      PROVE  AuthInv'
  <2>1. u \in users /\ u.email = LookupHash(input[r].email)
    BY <1>4, <1>7
  <2>2. AuthTypeOK' /\ RequestInv(r)'
    BY <1>1, <1>2, <1>3, <1>7, <2>1
       DEF LookUp, Goto, AuthTypeOK, RequestInv, Place
  <2> QED BY <1>1, <1>2, <1>7, <2>2, QuietStepKeepsInv
          DEF LookUp, Goto, AuthTypeOK
<1> QED BY <1>5, <1>6, <1>7 DEF LookUp, rows

LEMMA HashPasswordKeepsInv ==
  ASSUME AuthInv, NEW r \in Request, HashPassword(r)
  PROVE  AuthInv'
<1> USE DEF HashPassword, Answer, Goto
<1>1. AuthTypeOK /\ RequestInv(r)
  BY DEF AuthInv
<1>2. /\ pc[r] = "hash" /\ shown[r] = Nil /\ reply[r] = "none"
      /\ IsRegistration(r) /\ Registered(r) \in Row
  BY <1>1, RegisteredIsRow DEF RequestInv
<1>3. \/ Answer(r, "internal") /\ UNCHANGED found
      \/ Goto(r, "create") /\ found' = [found EXCEPT ![r] = Registered(r)]
  BY DEF Registered
<1>4. AuthTypeOK'
  BY <1>1, <1>2, <1>3 DEF AuthTypeOK, Place, Status
<1>5. RequestInv(r)'
  BY <1>1, <1>2, <1>3 DEF RequestInv, AuthTypeOK, IsRegistration, Registered
<1> QED BY <1>1, <1>2, <1>3, <1>4, <1>5, QuietStepKeepsInv DEF AuthTypeOK

LEMMA CheckKeepsInv ==
  ASSUME AuthInv, NEW r \in Request, Check(r)
  PROVE  AuthInv'
<1> USE DEF Check, Answer, Goto
<1>1. AuthTypeOK /\ RequestInv(r)
  BY DEF AuthInv
<1>2. /\ pc[r] = "check" /\ shown[r] = Nil /\ reply[r] = "none"
      /\ input[r] \in LoginInput /\ found[r] \in users
      /\ found[r].email = LookupHash(input[r].email)
  BY <1>1 DEF RequestInv
<1>3. AuthTypeOK'
  BY <1>1, <1>2 DEF AuthTypeOK, Place, Status
<1>4. RequestInv(r)'
  BY <1>1, <1>2 DEF RequestInv, AuthTypeOK, IsRegistration, CheckPassword
<1>5. reply'[r] = "unauthorized" =>
        \A q \in earlier[r] :
          Normalized[input[q].email] = Normalized[input[r].email] =>
            Digest[input[q].password] # Digest[input[r].password]
  <2>1. ASSUME reply'[r] = "unauthorized", NEW q \in earlier[r],
               Normalized[input[q].email] = Normalized[input[r].email],
               Digest[input[q].password] = Digest[input[r].password]
        PROVE  FALSE
    <3>1. q \in Request /\ reply[q] = "created"
      BY <1>1 DEF RequestInv, AuthTypeOK
    <3>2. /\ Registered(q) \in users
          /\ Registered(q).email = found[r].email
          /\ Registered(q).password = Digest[input[r].password]
      BY <1>2, <2>1, <3>1 DEF AuthInv, RegistrationIsTruthful, Registered, LookupHash
    <3>3. found[r] = Registered(q)
      BY <1>2, <3>2 DEF AuthInv, OneUserForAnEmail
    <3>4. found[r].password # Digest[input[r].password]
      BY <1>1, <1>2, <2>1 DEF CheckPassword, AuthTypeOK
    <3> QED BY <3>2, <3>3, <3>4
  <2> QED BY <2>1
<1> QED BY <1>1, <1>2, <1>3, <1>4, <1>5, QuietStepKeepsInv DEF AuthTypeOK

LEMMA AuthenticateKeepsInv ==
  ASSUME AuthInv, NEW r \in Request, Authenticate(r) \/ Confirm(r)
  PROVE  AuthInv'
<1> USE DEF Authenticate, Confirm, Answer, Goto
<1>1. AuthTypeOK /\ RequestInv(r)
  BY DEF AuthInv
<1>2. /\ pc[r] \in {"authenticate", "confirm"} /\ shown[r] = Nil /\ reply[r] = "none"
      /\ input[r] \in MeInput(Token \cup {Forged}) \cup AdminInput(Token \cup {Forged})
      /\ pc[r] = "confirm" => input[r].token \in tokens
  BY <1>1 DEF RequestInv
<1>3. input[r].kind \in {"me", "admin"}
  BY <1>2 DEF MeInput, AdminInput
<1>4. AuthTypeOK'
  BY <1>1, <1>2 DEF AuthTypeOK, Place, Status
<1>5. pc'[r] \in {"confirm", "profile"} => input[r].token \in tokens
  BY <1>1, <1>2 DEF Validate, AuthTypeOK
<1>6. pc'[r] = "profile" =>
        \E u \in users : /\ u.id = input[r].token.user
                         /\ input[r].kind = "admin" => u.role = "admin"
  <2>1. ASSUME pc'[r] = "profile"
        PROVE  \E u \in users : /\ u.id = input[r].token.user
                                /\ input[r].kind = "admin" => u.role = "admin"
    <3>1. /\ GetByID(input[r].token.user) # {} /\ input[r].token \in tokens
          /\ input[r].kind = "admin" => input[r].token.role = "admin"
      BY <1>1, <1>2, <2>1 DEF AuthTypeOK
    <3>2. PICK u \in users : u.id = input[r].token.user
      BY <3>1 DEF GetByID
    <3>3. input[r].token \notin OldTokens
      BY <1>1, <3>2, IdAssumption, TokenAssumption
         DEF AuthTypeOK, Row, IdAssumption, TokenAssumption
    <3>4. PICK v \in users : input[r].token.user = v.id /\ input[r].token.role = v.role
      BY <3>1, <3>3 DEF AuthInv, TokensAreHonest
    <3> QED BY <3>1, <3>4
  <2> QED BY <2>1
<1>7. RequestInv(r)'
  BY <1>1, <1>2, <1>3, <1>5, <1>6 DEF RequestInv, AuthTypeOK, IsRegistration
<1> QED BY <1>1, <1>2, <1>3, <1>4, <1>7, QuietStepKeepsInv DEF AuthTypeOK

LEMMA QueryFailsKeepsInv ==
  ASSUME AuthInv, NEW r \in Request, QueryFails(r)
  PROVE  AuthInv'
<1> USE DEF QueryFails, Answer
<1>1. AuthTypeOK /\ RequestInv(r)
  BY DEF AuthInv
<1>2. /\ pc[r] \in {"lookup", "create", "profile", "confirm"}
      /\ shown[r] = Nil /\ reply[r] = "none"
      /\ pc[r] = "confirm" => input[r].kind \in {"me", "admin"}
  BY <1>1 DEF RequestInv, MeInput, AdminInput
<1>3. AuthTypeOK' /\ RequestInv(r)'
  BY <1>1, <1>2 DEF AuthTypeOK, RequestInv, Place, Status, IsRegistration
<1> QED BY <1>1, <1>2, <1>3, QuietStepKeepsInv DEF AuthTypeOK

LEMMA CreateKeepsInv ==
  ASSUME AuthInv, NEW r \in Request, Create(r)
  PROVE  AuthInv'
<1> USE DEF Answer, Goto
<1>1. AuthTypeOK /\ RequestInv(r)
  BY DEF AuthInv
<1>2. /\ pc[r] = "create" /\ shown[r] = Nil /\ reply[r] = "none"
      /\ IsRegistration(r) /\ found[r] = Registered(r) /\ Registered(r) \in Row
  BY <1>1, RegisteredIsRow DEF Create, RequestInv
<1>3. CASE users' = users
  <2>1. AuthTypeOK' /\ RequestInv(r)'
    <3>1. pc' = [pc EXCEPT ![r] = "done"] /\ reply' = [reply EXCEPT ![r] = "internal"]
      <4>1. CASE GetByEmailHash(found[r].email) = {}
        <5>1. users' = users \cup {found[r]}
          BY <4>1 DEF Create
        <5>2. found[r] \in GetByEmailHash(found[r].email)
          BY <1>3, <5>1 DEF GetByEmailHash
        <5> QED BY <4>1, <5>2
      <4>2. CASE GetByEmailHash(found[r].email) # {}
        BY <4>2 DEF Create
      <4> QED BY <4>1, <4>2
    <3> QED BY <1>1, <1>2, <1>3, <3>1
            DEF Create, AuthTypeOK, RequestInv, Place, Status, IsRegistration
  <2> QED BY <1>1, <1>2, <1>3, <2>1, QuietStepKeepsInv DEF Create, AuthTypeOK
<1>4. CASE users' # users
  <2>1. /\ users' = users \cup {Registered(r)}
        /\ \A u \in users : u.email # Registered(r).email
        /\ Goto(r, "issue") \/ Answer(r, "internal")
        /\ UNCHANGED <<tokens, clock, input, found, shown, earlier>>
    BY <1>2, <1>4 DEF Create, GetByEmailHash
  <2>2. \A u \in users : u.id # r /\ u.id \in Request
    BY <1>1, <1>2, NoRowYet DEF AuthTypeOK, Row
  <2>3. Registered(r).id = r /\ \A q \in Request : Registered(q)' = Registered(q)
    BY <2>1 DEF Registered
  <2>4. AuthTypeOK'
    BY <1>1, <1>2, <2>1 DEF AuthTypeOK, Place, Status
  <2>5. \A q \in Request : q # r => pc'[q] = pc[q] /\ reply'[q] = reply[q]
    BY <1>1, <2>1 DEF AuthTypeOK
  <2>6. pc'[r] \in {"issue", "done"} /\ reply'[r] \in {"none", "internal"}
        /\ (pc'[r] = "issue" => reply'[r] = "none")
    BY <1>1, <1>2, <2>1 DEF AuthTypeOK
  <2>7. \A q \in Request : RequestInv(q)'
    <3>1. ASSUME NEW q \in Request, q # r
          PROVE  RequestInv(q)'
      BY <1>2, <2>1, <2>5, <3>1, RequestFrame
    <3>2. RequestInv(r)'
      BY <1>1, <1>2, <2>1, <2>3, <2>5, <2>6 DEF RequestInv, IsRegistration, AuthTypeOK
    <3> QED BY <3>1, <3>2
  <2>8. \A u \in users' : RowInv(u)'
    BY <1>2, <2>1, <2>2, <2>3, <2>5, <2>6 DEF AuthInv, RowInv, IsRegistration
  <2>9. OneUserForAnEmail'
    BY <2>1, <2>2, <2>3 DEF AuthInv, OneUserForAnEmail
  <2>10. RegistrationIsTruthful'
    <3>1. \A q \in Request : reply'[q] = "created" => Registered(q)' \in users'
      BY <2>1, <2>3, <2>5, <2>6 DEF AuthInv, RegistrationIsTruthful
    <3>2. ASSUME NEW q \in Request, reply'[q] = "conflict"
          PROVE  \E u \in users' : u.email = LookupHash(input'[q].email) /\ u.id # q
      BY <2>1, <2>5, <2>6, <3>2 DEF AuthInv, RegistrationIsTruthful
    <3>3. ASSUME NEW u \in users'
          PROVE  u = Registered(u.id)' /\ reply'[u.id] \in {"none", "created", "internal"}
      BY <2>1, <2>2, <2>3, <2>5, <2>6, <3>3 DEF AuthInv, RegistrationIsTruthful
    <3> QED BY <3>1, <3>2, <3>3 DEF RegistrationIsTruthful
  <2>11. RegisteredCanLogIn'
    BY <2>1, <2>5, <2>6 DEF AuthInv, RegisteredCanLogIn
  <2>12. TokensAreHonest' /\ AnswersAreAuthorized'
    <3>1. TokensAreHonest'
      BY <2>1 DEF AuthInv, TokensAreHonest
    <3>2. AnswersAreAuthorized'
      BY <2>1, <2>3 DEF AuthInv, AnswersAreAuthorized
    <3> QED BY <3>1, <3>2
  <2> QED BY <2>4, <2>7, <2>8, <2>9, <2>10, <2>11, <2>12 DEF AuthInv
<1> QED BY <1>3, <1>4

\* The token and the answer of a registration or log-in are for the row it has.
LEMMA IssueTokenKeepsInv ==
  ASSUME AuthInv, NEW r \in Request, IssueToken(r)
  PROVE  AuthInv'
<1> DEFINE status == IF input[r].kind = "register" THEN "created" ELSE "ok"
<1>1. AuthTypeOK /\ RequestInv(r)
  BY DEF AuthInv
<1>2. /\ pc[r] = "issue" /\ reply[r] = "none" /\ found[r] \in users
      /\ \/ IsRegistration(r) /\ found[r] = Registered(r)
         \/ /\ input[r] \in LoginInput
            /\ found[r].email = LookupHash(input[r].email)
            /\ found[r].password = Digest[input[r].password]
  BY <1>1 DEF IssueToken, RequestInv
<1>3. /\ IsRegistration(r) => input[r].kind = "register"
      /\ input[r] \in LoginInput => input[r].kind = "login"
      /\ input[r].kind = "register" => IsRegistration(r) /\ found[r] = Registered(r)
  BY <1>2 DEF IsRegistration, RegisterInput, LoginInput
<1>4. /\ found[r] \in Row /\ Generate(found[r]) \in Token
      /\ clock + TTL \in Nat
  BY <1>1, <1>2, TimeAssumption
     DEF AuthTypeOK, Row, Generate, Token, Id, TimeAssumption
<1>5. /\ tokens' = tokens \cup {Generate(found[r])}
      /\ shown' = [shown EXCEPT ![r] = found[r]]
      /\ pc' = [pc EXCEPT ![r] = "done"] /\ reply' = [reply EXCEPT ![r] = status]
      /\ UNCHANGED <<users, clock, input, found, earlier>>
  BY DEF IssueToken, Answer
<1>6. /\ pc'[r] = "done" /\ reply'[r] = status /\ shown'[r] = found[r]
      /\ \A q \in Request : q # r =>
           pc'[q] = pc[q] /\ reply'[q] = reply[q] /\ shown'[q] = shown[q]
  BY <1>1, <1>5 DEF AuthTypeOK
<1>7. \A q \in Request : Registered(q)' = Registered(q)
  BY <1>5 DEF Registered
<1>8. AuthTypeOK'
  BY <1>1, <1>4, <1>5 DEF AuthTypeOK, Place, Status
<1>9. \A q \in Request : RequestInv(q)'
  <2>1. ASSUME NEW q \in Request, q # r
        PROVE  RequestInv(q)'
    BY <1>2, <1>5, <1>6, <2>1, RequestFrame
  <2>2. RequestInv(r)'
    <3>1. \A q \in earlier'[r] : reply'[q] = "created"
      BY <1>1, <1>2, <1>5, <1>6 DEF RequestInv, AuthTypeOK
    <3> QED BY <1>5, <1>6, <3>1 DEF RequestInv
  <2> QED BY <2>1, <2>2
<1>10. (\A u \in users' : RowInv(u)') /\ OneUserForAnEmail'
  <2>1. \A u \in users : u.id \in Request
    BY <1>1 DEF AuthTypeOK, Row
  <2> QED BY <1>5, <1>6, <2>1 DEF AuthInv, RowInv, IsRegistration, OneUserForAnEmail
<1>11. RegistrationIsTruthful'
  <2>1. ASSUME NEW q \in Request, reply'[q] = "created"
        PROVE  Registered(q)' \in users'
    BY <1>2, <1>3, <1>5, <1>6, <1>7, <2>1 DEF AuthInv, RegistrationIsTruthful
  <2>2. ASSUME NEW q \in Request, reply'[q] = "conflict"
        PROVE  \E u \in users' : u.email = LookupHash(input'[q].email) /\ u.id # q
    BY <1>5, <1>6, <2>2 DEF AuthInv, RegistrationIsTruthful
  <2>3. ASSUME NEW u \in users'
        PROVE  u = Registered(u.id)' /\ reply'[u.id] \in {"none", "created", "internal"}
    <3>1. u \in users /\ u.id \in Request /\ u = Registered(u.id)
          /\ reply[u.id] \in {"none", "created", "internal"}
      BY <1>1, <1>5, <2>3 DEF AuthInv, RegistrationIsTruthful, AuthTypeOK, Row
    <3>2. u.id = r => status = "created"
      BY <1>3, <3>1 DEF AuthInv, RowInv
    <3> QED BY <1>6, <1>7, <3>1, <3>2
  <2> QED BY <2>1, <2>2, <2>3 DEF RegistrationIsTruthful
<1>12. RegisteredCanLogIn'
  BY <1>5, <1>6 DEF AuthInv, RegisteredCanLogIn
<1>13. TokensAreHonest'
  <2>1. /\ Generate(found[r]).user = found[r].id /\ Generate(found[r]).role = found[r].role
        /\ Generate(found[r]).exp <= clock + TTL
    BY <1>4 DEF Generate
  <2> QED BY <1>2, <1>5, <2>1 DEF AuthInv, TokensAreHonest
<1>14. AnswersAreAuthorized'
  <2>1. ASSUME NEW q \in Request, shown'[q] # Nil, q # r
        PROVE  /\ shown'[q] = shown[q] /\ shown[q] # Nil /\ input'[q] = input[q]
               /\ Registered(q)' = Registered(q)
    BY <1>5, <1>6, <1>7, <2>1
  <2>2. /\ shown'[r] = found[r] /\ input'[r] = input[r] /\ Registered(r)' = Registered(r)
        /\ found[r] \in users'
        /\ \/ input[r].kind = "register" /\ found[r] = Registered(r)
           \/ /\ input[r].kind = "login"
              /\ found[r].email = Normalized[input[r].email]
              /\ found[r].password = Digest[input[r].password]
    BY <1>2, <1>3, <1>5, <1>6, <1>7 DEF LookupHash
  <2> QED BY <1>5, <2>1, <2>2 DEF AuthInv, AnswersAreAuthorized
<1> QED BY <1>8, <1>9, <1>10, <1>11, <1>12, <1>13, <1>14 DEF AuthInv

LEMMA GetProfileKeepsInv ==
  ASSUME AuthInv, NEW r \in Request, GetProfile(r)
  PROVE  AuthInv'
<1> DEFINE id == IF input[r].kind = "me" THEN input[r].token.user ELSE input[r].id
<1>1. AuthTypeOK /\ RequestInv(r)
  BY DEF AuthInv
<1>2. /\ pc[r] = "profile" /\ shown[r] = Nil /\ reply[r] = "none"
      /\ input[r].kind \in {"me", "admin"}
      /\ \E u \in users :
           /\ u.id = input[r].token.user
           /\ input[r].kind = "admin" => u.role = "admin"
  BY <1>1 DEF GetProfile, RequestInv, MeInput, AdminInput
<1>3. /\ pc' = [pc EXCEPT ![r] = "done"]
      /\ UNCHANGED <<users, tokens, clock, input, found, earlier>>
      /\ \/ reply' = [reply EXCEPT ![r] = "not_found"] /\ UNCHANGED shown
         \/ /\ reply' = [reply EXCEPT ![r] = "ok"]
            /\ \E u \in users : u.id = id /\ shown' = [shown EXCEPT ![r] = u]
  BY DEF GetProfile, Answer, GetByID
<1>4. AuthTypeOK'
  BY <1>1, <1>3 DEF AuthTypeOK, Place, Status
<1>5. /\ pc'[r] = "done" /\ reply'[r] \in {"not_found", "ok"}
      /\ shown'[r] # Nil => shown'[r] \in users /\ shown'[r].id = id
      /\ \A q \in Request \ {r} :
           pc'[q] = pc[q] /\ reply'[q] = reply[q] /\ shown'[q] = shown[q]
  BY <1>1, <1>2, <1>3 DEF AuthTypeOK
<1>6. RequestInv(r)'
  <2>1. \A q \in earlier'[r] : reply'[q] = "created"
    BY <1>1, <1>2, <1>3, <1>5 DEF RequestInv, AuthTypeOK
  <2> QED BY <1>5, <2>1 DEF RequestInv
<1> QED BY <1>2, <1>3, <1>4, <1>5, <1>6, QuietStepKeepsInv

\* The requests in flight vanish without an answer.
LEMMA CrashKeepsInv ==
  ASSUME AuthInv, Crash
  PROVE  AuthInv'
<1> USE DEF Crash
<1>1. AuthTypeOK'
  BY DEF AuthInv, AuthTypeOK, Place
<1>2. \A q \in Request : pc'[q] = IF pc[q] = "idle" THEN "idle" ELSE "done"
  OBVIOUS
<1>3. \A q \in Request : RequestInv(q)'
  BY <1>2 DEF AuthInv, RequestInv
<1>4. \A u \in users' : RowInv(u)'
  BY <1>2 DEF AuthInv, AuthTypeOK, Row, RowInv, IsRegistration
<1>5. /\ OneUserForAnEmail' /\ RegistrationIsTruthful' /\ RegisteredCanLogIn'
      /\ TokensAreHonest' /\ AnswersAreAuthorized'
  BY DEF AuthInv, OneUserForAnEmail, RegistrationIsTruthful, RegisteredCanLogIn,
         TokensAreHonest, AnswersAreAuthorized, Registered
<1> QED BY <1>1, <1>3, <1>4, <1>5 DEF AuthInv

LEMMA TickKeepsInv ==
  ASSUME AuthInv, Tick
  PROVE  AuthInv'
<1>1. /\ UNCHANGED <<users, tokens, pc, input, found, shown, reply, earlier>>
      /\ clock' = clock + 1 /\ clock \in Nat
  BY DEF Tick, requestVars, AuthInv, AuthTypeOK
<1>2. AuthTypeOK'
  BY <1>1 DEF AuthInv, AuthTypeOK
<1>3. TokensAreHonest'
  <2>1. \A t \in tokens : t.exp \in Nat
    BY DEF AuthInv, AuthTypeOK, Token
  <2> QED BY <1>1, <2>1, TimeAssumption
          DEF AuthInv, TokensAreHonest, TimeAssumption
<1>4. /\ \A q \in Request : RequestInv(q)'
      /\ \A u \in users' : RowInv(u)'
  BY <1>1 DEF AuthInv, RequestInv, RowInv, IsRegistration, Registered
<1>5. /\ OneUserForAnEmail' /\ RegistrationIsTruthful' /\ RegisteredCanLogIn'
      /\ AnswersAreAuthorized'
  BY <1>1 DEF AuthInv, OneUserForAnEmail, RegistrationIsTruthful, RegisteredCanLogIn,
              AnswersAreAuthorized, Registered
<1> QED BY <1>2, <1>3, <1>4, <1>5 DEF AuthInv

LEMMA AuthNextKeepsInv == AuthInv /\ [Next]_authVars => AuthInv'
<1> SUFFICES ASSUME AuthInv, [Next]_authVars
             PROVE  AuthInv'
  OBVIOUS
<1>1. ASSUME NEW r \in Request, Advance(r) \/ QueryFails(r)
      PROVE  AuthInv'
  BY <1>1, ReceiveKeepsInv, LookUpKeepsInv, HashPasswordKeepsInv, CreateKeepsInv,
     CheckKeepsInv, IssueTokenKeepsInv, AuthenticateKeepsInv, GetProfileKeepsInv,
     QueryFailsKeepsInv DEF Advance
<1>2. CASE UNCHANGED authVars
  <2>1. /\ UNCHANGED <<users, tokens, clock, pc, input, found, shown, reply, earlier>>
    BY <1>2 DEF authVars, requestVars
  <2>2. AuthTypeOK'
    BY <2>1 DEF AuthInv, AuthTypeOK
  <2>3. /\ \A q \in Request : RequestInv(q)'
        /\ \A u \in users' : RowInv(u)'
    BY <2>1, RequestFrame DEF AuthInv, RowInv, IsRegistration
  <2>4. /\ OneUserForAnEmail' /\ RegistrationIsTruthful' /\ RegisteredCanLogIn'
        /\ TokensAreHonest' /\ AnswersAreAuthorized'
    BY <2>1 DEF AuthInv, OneUserForAnEmail, RegistrationIsTruthful, RegisteredCanLogIn,
                TokensAreHonest, AnswersAreAuthorized, Registered
  <2> QED BY <2>2, <2>3, <2>4 DEF AuthInv
<1> QED BY <1>1, <1>2, CrashKeepsInv, TickKeepsInv DEF Next
-----------------------------------------------------------------------------
\* Whatever requests run together, fail or vanish in a crash, each knows at every place
\* what it should, and all that is said of rows, tokens and answers holds.
THEOREM AuthInvHolds == Spec => []AuthInv
<1> QED BY AuthInitInv, AuthNextKeepsInv, PTL DEF Spec

\* An email has one row, in whatever spelling, although nothing holds registrations of
\* it apart between their look-up and their INSERT.
THEOREM EmailsAreUnique == Spec => []OneUserForAnEmail
<1>1. AuthInv => OneUserForAnEmail
  BY DEF AuthInv
<1> QED BY <1>1, AuthInvHolds, PTL

\* A 201 means a row with the values sent, a 409 that another has the email, and no row
\* is there without a registration.
THEOREM RegistrationsAreTruthful == Spec => []RegistrationIsTruthful
<1>1. AuthInv => RegistrationIsTruthful
  BY DEF AuthInv
<1> QED BY <1>1, AuthInvHolds, PTL

\* Who has been told 201 can log in.
THEOREM LogInsSucceed == Spec => []RegisteredCanLogIn
<1>1. AuthInv => RegisteredCanLogIn
  BY DEF AuthInv
<1> QED BY <1>1, AuthInvHolds, PTL

\* Tokens say the id and role of a row, and expire.
THEOREM TokensHold == Spec => []TokensAreHonest
<1>1. AuthInv => TokensAreHonest
  BY DEF AuthInv
<1> QED BY <1>1, AuthInvHolds, PTL

\* Users are shown only to those who have proved that they may see them.
THEOREM OnlyTheAuthorizedSee == Spec => []AnswersAreAuthorized
<1>1. AuthInv => AnswersAreAuthorized
  BY DEF AuthInv
<1> QED BY <1>1, AuthInvHolds, PTL
-----------------------------------------------------------------------------
\* The gateway of the transaction service, in front of the auth service.

\* The auth service only adds rows and tokens, and time does not go back.
LEMMA AuthOnlyGrows ==
  ASSUME AuthInv, [Next]_authVars
  PROVE  /\ users \subseteq users' /\ tokens \subseteq tokens'
         /\ clock' \in Nat /\ clock <= clock'
<1>1. clock \in Nat
  BY DEF AuthInv, AuthTypeOK
<1>2. CASE UNCHANGED authVars
  BY <1>1, <1>2 DEF authVars
<1>3. ASSUME NEW r \in Request, Advance(r) \/ QueryFails(r)
      PROVE  users \subseteq users' /\ tokens \subseteq tokens' /\ clock' = clock
  <2>1. CASE Receive(r) \/ LookUp(r) \/ HashPassword(r)
    BY <2>1 DEF Receive, LookUp, HashPassword
  <2>2. CASE Create(r)
    BY <2>2 DEF Create
  <2>3. CASE Check(r) \/ Authenticate(r) \/ Confirm(r) \/ GetProfile(r)
    BY <2>3 DEF Check, Authenticate, Confirm, GetProfile
  <2>4. CASE IssueToken(r)
    BY <2>4 DEF IssueToken
  <2>5. CASE QueryFails(r)
    BY <2>5 DEF QueryFails
  <2> QED BY <1>3, <2>1, <2>2, <2>3, <2>4, <2>5 DEF Advance
<1>4. CASE Crash
  BY <1>1, <1>4 DEF Crash
<1>5. CASE Tick
  BY <1>1, <1>5 DEF Tick
<1> QED BY <1>1, <1>2, <1>3, <1>4, <1>5 DEF Next

\* NoToken is none of the texts.
LEMMA NoTextIsAnother == NoToken \notin {Forged, Absent, Malformed}
BY BearerAssumption DEF BearerAssumption

\* A token in hand is the text the client means.
LEMMA BearerIsPresented ==
  ASSUME AuthTypeOK, NEW c \in Caller, Bearer(c) \in tokens \cup {Forged}
  PROVE  Presented(c) = Bearer(c)
<1>1. Bearer(c) # NoToken
  BY TokenAssumption, NoTextIsAnother DEF AuthTypeOK, TokenAssumption
<1> QED BY <1>1 DEF Bearer, bearerToken, Presented

\* A user who is gone does not come back: the token of one says Departed.
LEMMA GoneForEver ==
  ASSUME AuthInv, AuthInv', NEW t \in tokens, GetByID(t.user) = {}
  PROVE  GetByID(t.user)' = {}
<1>1. \A u \in users : u.id # t.user
  BY DEF GetByID
<1>2. t \in OldTokens
  BY <1>1 DEF AuthInv, TokensAreHonest
<1>3. t.user = Departed
  BY <1>2, TokenAssumption DEF TokenAssumption
<1>4. \A u \in users' : u.id # Departed
  BY IdAssumption DEF AuthInv, AuthTypeOK, Row, IdAssumption
<1> QED BY <1>3, <1>4 DEF GetByID

\* A reason to refuse a request remains one.
LEMMA ReasonsRemain ==
  ASSUME AuthInv, AuthInv', NEW c \in Caller, HasReason(c),
         tokens \subseteq tokens', clock \in Nat, clock' \in Nat, clock <= clock',
         header'[c] = header[c], query'[c] = query[c],
         disturbed[c] => disturbed'[c]
  PROVE  HasReason(c)'
<1>1. Presented(c)' = Presented(c)
  BY DEF Presented
<1>2. CASE Presented(c) \in tokens /\ Presented(c).exp <= clock
  <2>1. Presented(c).exp \in Nat
    BY <1>2 DEF AuthInv, AuthTypeOK, Token
  <2> QED BY <1>1, <1>2, <2>1 DEF HasReason
<1>3. CASE Presented(c) \in tokens /\ GetByID(Presented(c).user) = {}
  <2>1. GetByID(Presented(c).user)' = {}
    BY <1>1, <1>3, GoneForEver DEF GetByID
  <2> QED BY <1>1, <1>3, <2>1 DEF HasReason
<1> QED BY <1>1, <1>2, <1>3 DEF HasReason

\* What is known of a call and its end stays true while it does not move.
LEMMA CallFrame ==
  ASSUME NEW c \in Caller, AuthInv, AuthInv', CallInv(c),
         users \subseteq users', tokens \subseteq tokens',
         clock \in Nat, clock' \in Nat, clock <= clock', arrived[c] \in Nat,
         caller'[c] = caller[c], header'[c] = header[c], query'[c] = query[c],
         server'[c] = server[c], answer'[c] = answer[c], actor'[c] = actor[c],
         arrived'[c] = arrived[c], judged'[c] = judged[c],
         disturbed[c] => disturbed'[c]
  PROVE  CallInv(c)'
<1>1. Bearer(c)' = Bearer(c)
  BY DEF Bearer
<1>2. Judged(c) => Judged(c)'
  BY <1>1 DEF Judged
<1>3. HasReason(c) => HasReason(c)'
  BY ReasonsRemain
<1> QED BY <1>1, <1>2, <1>3 DEF CallInv

\* A step of the auth service that no call notices, or that disturbs some.
LEMMA QuietForCallers ==
  ASSUME GatewayInv, [Next]_authVars, CallTypeOK',
         UNCHANGED <<caller, header, query, answer, actor, arrived, judged>>,
         \A c \in Caller :
           /\ \/ server'[c] = server[c]
              \/ /\ server[c] # "none" /\ server'[c] = "lost"
                 /\ caller[c] \notin {"serving", "served"}
           /\ disturbed[c] => disturbed'[c]
  PROVE  GatewayInv'
<1>1. AuthInv /\ AuthInv'
  BY AuthNextKeepsInv DEF GatewayInv
<1>2. /\ users \subseteq users' /\ tokens \subseteq tokens'
      /\ clock \in Nat /\ clock' \in Nat /\ clock <= clock'
  BY <1>1, AuthOnlyGrows DEF AuthInv, AuthTypeOK
<1>3. ASSUME NEW c \in Caller
      PROVE  CallInv(c)' /\ (caller'[c] = "refused" => HasReason(c)')
  <2>1. CallInv(c) /\ arrived[c] \in Nat
    BY DEF GatewayInv, CallTypeOK
  <2>2. HasReason(c) => HasReason(c)'
    BY <1>1, <1>2, <1>3, ReasonsRemain
  <2>3. Bearer(c)' = Bearer(c) /\ (Judged(c) => Judged(c)')
    BY <1>2 DEF Bearer, Judged
  <2>4. CallInv(c)'
    <3>1. CASE server'[c] = server[c]
      BY <1>1, <1>2, <1>3, <2>1, <3>1, CallFrame
    <3>2. CASE server[c] # "none" /\ server'[c] = "lost"
               /\ caller[c] \notin {"serving", "served"}
      BY <1>2, <2>1, <2>3, <3>2 DEF CallInv
    <3> QED BY <1>3, <3>1, <3>2
  <2> QED BY <2>2, <2>4 DEF GatewayInv, RefusalsHaveReasons
<1>4. (\A c \in Caller : CallInv(c))' /\ RefusalsHaveReasons'
  BY <1>3 DEF RefusalsHaveReasons
<1>5. ActorsAreConfirmed'
  BY <1>4 DEF CallInv, Judged, ActorsAreConfirmed
<1> QED BY <1>1, <1>4, <1>5 DEF GatewayInv

\* A step of one call, the auth service standing still.
LEMMA OneCallMoves ==
  ASSUME GatewayInv, UNCHANGED authVars, CallTypeOK', NEW c \in Caller,
         \A d \in Caller \ {c} :
           /\ caller'[d] = caller[d] /\ header'[d] = header[d] /\ query'[d] = query[d]
           /\ server'[d] = server[d] /\ answer'[d] = answer[d] /\ actor'[d] = actor[d]
           /\ arrived'[d] = arrived[d] /\ judged'[d] = judged[d]
           /\ disturbed'[d] = disturbed[d],
         CallInv(c)',
         caller'[c] = "refused" => HasReason(c)'
  PROVE  GatewayInv'
<1>1. AuthInv /\ AuthInv'
  BY AuthNextKeepsInv DEF GatewayInv
<1>2. UNCHANGED <<users, tokens, clock>> /\ clock \in Nat
  BY <1>1 DEF authVars, AuthInv, AuthTypeOK
<1>3. ASSUME NEW d \in Caller \ {c}
      PROVE  CallInv(d)' /\ (caller'[d] = "refused" => HasReason(d)')
  <2>1. CallInv(d) /\ arrived[d] \in Nat
    BY DEF GatewayInv, CallTypeOK
  <2>2. CallInv(d)'
    BY <1>1, <1>2, <2>1, CallFrame
  <2>3. HasReason(d) => HasReason(d)'
    BY <1>1, <1>2, ReasonsRemain
  <2> QED BY <2>2, <2>3 DEF GatewayInv, RefusalsHaveReasons
<1>4. (\A d \in Caller : CallInv(d))' /\ RefusalsHaveReasons'
  BY <1>3 DEF RefusalsHaveReasons
<1>5. ActorsAreConfirmed'
  BY <1>4 DEF CallInv, Judged, ActorsAreConfirmed
<1> QED BY <1>1, <1>4, <1>5 DEF GatewayInv
-----------------------------------------------------------------------------
\* One lemma for each action of a call.

LEMMA ArriveKeepsInv ==
  ASSUME GatewayInv, NEW c \in Caller, Arrive(c)
  PROVE  GatewayInv'
<1>1. AuthTypeOK /\ CallTypeOK /\ CallInv(c)
  BY DEF GatewayInv, AuthInv
<1>2. PICK head \in tokens \cup {Forged, Absent, Malformed},
           parameter \in tokens \cup {Forged, Absent} :
        /\ header' = [header EXCEPT ![c] = head]
        /\ query' = [query EXCEPT ![c] = parameter]
        /\ IF bearerToken(head, parameter) = NoToken
             THEN /\ caller' = [caller EXCEPT ![c] = "refused"]
                  /\ UNCHANGED server
             ELSE /\ caller' = [caller EXCEPT ![c] = "calling"]
                  /\ server' = [server EXCEPT ![c] = "validate"]
  BY DEF Arrive
<1>3. /\ caller[c] = "idle" /\ arrived' = [arrived EXCEPT ![c] = clock]
      /\ UNCHANGED <<answer, actor, judged, disturbed>> /\ UNCHANGED authVars
      /\ UNCHANGED <<users, tokens, clock>>
  BY DEF Arrive, authVars
<1>4. /\ head \in Token \cup {Forged, Absent, Malformed}
      /\ parameter \in Token \cup {Forged, Absent} /\ clock \in Nat
  BY <1>1, <1>2 DEF AuthTypeOK
<1>5. CallTypeOK'
  BY <1>1, <1>2, <1>3, <1>4 DEF CallTypeOK
<1>6. /\ server[c] = "none" /\ answer[c] = Nil
  BY <1>1, <1>3 DEF CallInv
<1>7. /\ header'[c] = head /\ query'[c] = parameter /\ arrived'[c] = clock
      /\ Bearer(c)' = bearerToken(head, parameter)
  BY <1>1, <1>2, <1>3 DEF CallTypeOK, Bearer
<1>8. CASE bearerToken(head, parameter) = NoToken
  <2>1. caller'[c] = "refused" /\ server'[c] = "none" /\ answer'[c] = Nil
    BY <1>1, <1>2, <1>3, <1>6, <1>8 DEF CallTypeOK
  <2>2. CallInv(c)'
    BY <1>3, <1>4, <1>7, <2>1 DEF CallInv
  <2>3. HasReason(c)'
    <3>1. head = Malformed \/ (head = Absent /\ parameter = Absent)
      <4>1. NoToken \notin Token /\ NoToken # Forged
        BY TokenAssumption, NoTextIsAnother DEF TokenAssumption
      <4> QED BY <1>4, <1>8, <4>1 DEF bearerToken
    <3>2. Presented(c)' \in {Absent, Malformed, Forged}
      BY <1>7, <3>1, BearerAssumption DEF Presented, BearerAssumption
    <3> QED BY <3>2 DEF HasReason
  <2> QED BY <1>1, <1>2, <1>3, <1>5, <2>2, <2>3, OneCallMoves DEF CallTypeOK
<1>9. CASE bearerToken(head, parameter) # NoToken
  <2>1. caller'[c] = "calling" /\ server'[c] = "validate" /\ answer'[c] = Nil
    BY <1>1, <1>2, <1>3, <1>6, <1>9 DEF CallTypeOK
  <2>2. bearerToken(head, parameter) \in tokens \cup {Forged}
    BY <1>2, <1>9 DEF bearerToken
  <2>3. CallInv(c)'
    BY <1>3, <1>4, <1>7, <2>1, <2>2 DEF CallInv
  <2> QED BY <1>1, <1>2, <1>3, <1>5, <2>1, <2>3, OneCallMoves DEF CallTypeOK
<1> QED BY <1>8, <1>9

LEMMA ServerValidatesKeepsInv ==
  ASSUME GatewayInv, NEW c \in Caller, ServerValidates(c)
  PROVE  GatewayInv'
<1>1. AuthTypeOK /\ CallTypeOK /\ CallInv(c)
  BY DEF GatewayInv, AuthInv
<1>2. /\ server[c] = "validate"
      /\ server' = [server EXCEPT ![c] =
                      IF Validate(Bearer(c)) THEN "confirm" ELSE "answered"]
      /\ judged' = [judged EXCEPT ![c] = clock]
      /\ UNCHANGED <<caller, header, query, answer, actor, arrived, disturbed>>
      /\ UNCHANGED authVars /\ UNCHANGED <<users, tokens, clock>>
  BY DEF ServerValidates, authVars
<1>3. CallTypeOK' /\ clock \in Nat
  BY <1>1, <1>2 DEF CallTypeOK, AuthTypeOK
<1>4. /\ Bearer(c)' = Bearer(c) /\ Presented(c)' = Presented(c) /\ judged'[c] = clock
      /\ answer[c] = Nil /\ Bearer(c) \in tokens \cup {Forged} /\ arrived[c] <= clock
      /\ caller[c] \notin {"idle", "serving", "served"}
  BY <1>1, <1>2 DEF CallInv, CallTypeOK, Bearer, Presented
<1>5. HasReason(c) => HasReason(c)'
  BY <1>2, <1>4 DEF HasReason, GetByID
<1>6. CASE Validate(Bearer(c))
  <2>1. /\ server'[c] = "confirm" /\ caller'[c] = caller[c] /\ answer'[c] = Nil
        /\ arrived'[c] = arrived[c] /\ Judged(c)'
    BY <1>1, <1>2, <1>4, <1>6 DEF CallTypeOK, Validate, Judged
  <2>2. CallInv(c)'
    BY <1>2, <1>4, <2>1 DEF CallInv
  <2>3. caller'[c] = "refused" => HasReason(c)'
    BY <1>2, <1>5, <2>1 DEF GatewayInv, RefusalsHaveReasons
  <2> QED BY <1>1, <1>2, <1>3, <2>2, <2>3, OneCallMoves DEF CallTypeOK
<1>7. CASE ~Validate(Bearer(c))
  <2>1. /\ server'[c] = "answered" /\ caller'[c] = caller[c] /\ answer'[c] = Nil
        /\ arrived'[c] = arrived[c]
    BY <1>1, <1>2, <1>4, <1>7 DEF CallTypeOK
  <2>2. Presented(c) = Bearer(c)
    BY <1>1, <1>4, BearerIsPresented
  <2>3. HasReason(c)
    <3>1. CASE Bearer(c) \in tokens
      <4>1. Bearer(c).exp \in Nat
        BY <1>1, <3>1 DEF AuthTypeOK, Token
      <4> QED BY <1>3, <1>7, <2>2, <3>1, <4>1 DEF Validate, HasReason
    <3>2. CASE Bearer(c) = Forged
      BY <2>2, <3>2 DEF HasReason
    <3> QED BY <1>4, <3>1, <3>2
  <2>4. CallInv(c)'
    BY <1>2, <1>4, <1>5, <2>1, <2>3 DEF CallInv
  <2> QED BY <1>1, <1>2, <1>3, <1>5, <2>3, <2>4, OneCallMoves DEF CallTypeOK
<1> QED BY <1>6, <1>7

LEMMA ServerConfirmsKeepsInv ==
  ASSUME GatewayInv, NEW c \in Caller, ServerConfirms(c)
  PROVE  GatewayInv'
<1> DEFINE said == IF GetByID(Bearer(c).user) = {} THEN Nil
                   ELSE [user |-> Bearer(c).user, role |-> Bearer(c).role]
<1>1. AuthTypeOK /\ CallTypeOK /\ CallInv(c)
  BY DEF GatewayInv, AuthInv
<1>2. /\ server[c] = "confirm" /\ server' = [server EXCEPT ![c] = "answered"]
      /\ answer' = [answer EXCEPT ![c] = said]
      /\ UNCHANGED <<caller, header, query, actor, arrived, judged, disturbed>>
      /\ UNCHANGED authVars /\ UNCHANGED <<users, tokens, clock>>
  BY DEF ServerConfirms, authVars
<1>3. /\ Bearer(c) \in tokens /\ Bearer(c) \in Token /\ Judged(c)
      /\ caller[c] \notin {"idle", "serving", "served"}
      /\ arrived[c] <= clock /\ clock \in Nat
  BY <1>1, <1>2 DEF CallInv, Judged, AuthTypeOK
<1>4. said \in Actor \cup {Nil}
  BY <1>3 DEF Token, Actor
<1>5. /\ server'[c] = "answered" /\ answer'[c] = said /\ caller'[c] = caller[c]
      /\ Bearer(c)' = Bearer(c) /\ Presented(c)' = Presented(c) /\ Judged(c)'
      /\ arrived'[c] = arrived[c]
  BY <1>1, <1>2, <1>3 DEF CallTypeOK, Bearer, Presented, Judged
<1>6. CallTypeOK'
  BY <1>1, <1>2, <1>4 DEF CallTypeOK
<1>7. said # Nil =>
        /\ said.user = Bearer(c).user
        /\ \E u \in users : said = [user |-> u.id, role |-> u.role]
  <2>1. ASSUME said # Nil
        PROVE  /\ said.user = Bearer(c).user
               /\ \E u \in users : said = [user |-> u.id, role |-> u.role]
    <3>1. PICK u \in users : u.id = Bearer(c).user
      BY <2>1 DEF GetByID
    <3>2. Bearer(c) \notin OldTokens
      BY <1>1, <3>1, IdAssumption, TokenAssumption
         DEF AuthTypeOK, Row, IdAssumption, TokenAssumption
    <3>3. PICK v \in users : Bearer(c).user = v.id /\ Bearer(c).role = v.role
      BY <1>3, <3>2 DEF GatewayInv, AuthInv, TokensAreHonest
    <3> QED BY <2>1, <3>3
  <2> QED BY <2>1
<1>8. said = Nil => HasReason(c)
  <2>1. [user |-> Bearer(c).user, role |-> Bearer(c).role] # Nil
    <3>1. [user |-> Bearer(c).user, role |-> Bearer(c).role] \in Actor
      BY <1>3 DEF Token, Actor
    <3> QED BY <3>1, NobodyAssumption DEF NobodyAssumption
  <2>2. Presented(c) = Bearer(c)
    BY <1>1, <1>3, BearerIsPresented
  <2> QED BY <1>3, <2>1, <2>2 DEF HasReason
<1>9. HasReason(c) => HasReason(c)'
  BY <1>2, <1>5 DEF HasReason, GetByID
<1> HIDE DEF said
<1>10. CallInv(c)'
  BY <1>2, <1>3, <1>5, <1>7, <1>8, <1>9 DEF CallInv
<1>11. caller'[c] = "refused" => HasReason(c)'
  BY <1>5, <1>9 DEF GatewayInv, RefusalsHaveReasons
<1> QED BY <1>1, <1>2, <1>6, <1>10, <1>11, OneCallMoves DEF CallTypeOK

\* The call meets a failure, and knows it.
LEMMA DisturbedKeepsInv ==
  ASSUME GatewayInv, NEW c \in Caller,
         ServerQueryFails(c) \/ Lose(c) \/ CallFails(c)
  PROVE  GatewayInv'
<1>1. AuthTypeOK /\ CallTypeOK /\ CallInv(c)
  BY DEF GatewayInv, AuthInv
<1>2. /\ disturbed' = [disturbed EXCEPT ![c] = TRUE]
      /\ UNCHANGED <<header, query, answer, actor, arrived, judged>>
      /\ UNCHANGED authVars /\ UNCHANGED <<users, tokens, clock>>
      /\ caller[c] # "idle" /\ server[c] # "none"
      /\ caller[c] \notin {"serving", "served"}
      /\ \/ UNCHANGED caller /\ \E s \in {"answered", "lost"} :
                                   server' = [server EXCEPT ![c] = s]
         \/ UNCHANGED server /\ caller' = [caller EXCEPT ![c] = "refused"]
  BY <1>1 DEF ServerQueryFails, Lose, CallFails, authVars, CallInv
<1>3. CallTypeOK'
  BY <1>1, <1>2 DEF CallTypeOK
<1>4. HasReason(c)'
  BY <1>1, <1>2 DEF CallTypeOK, HasReason
<1>5. Bearer(c)' = Bearer(c) /\ (Judged(c) => Judged(c)')
  BY <1>2 DEF Bearer, Judged
<1>6. /\ caller'[c] \notin {"idle", "serving", "served"} /\ server'[c] # "none"
      /\ server'[c] \in {"answered", "lost"} \/ server'[c] = server[c]
  BY <1>1, <1>2 DEF CallTypeOK
<1>7. CallInv(c)'
  BY <1>1, <1>2, <1>4, <1>5, <1>6 DEF CallInv
<1> QED BY <1>1, <1>2, <1>3, <1>4, <1>7, OneCallMoves DEF CallTypeOK

LEMMA AnsweredKeepsInv ==
  ASSUME GatewayInv, NEW c \in Caller, Answered(c) \/ Serve(c)
  PROVE  GatewayInv'
<1>1. AuthTypeOK /\ CallTypeOK /\ CallInv(c)
  BY DEF GatewayInv, AuthInv
<1>2. /\ UNCHANGED <<header, query, server, answer, arrived, judged, disturbed>>
      /\ UNCHANGED authVars /\ UNCHANGED <<users, tokens, clock>>
  BY DEF Answered, Serve, authVars
<1>3. /\ server[c] = "answered"
      /\ \/ answer[c] = Nil /\ caller'[c] = "refused"
         \/ answer[c] # Nil /\ caller'[c] \in {"serving", "served"} /\ actor'[c] = answer[c]
  BY <1>1 DEF Answered, Serve, CallInv, CallTypeOK
<1>4. CallTypeOK'
  BY <1>1, <1>2 DEF Answered, Serve, CallTypeOK
<1>5. Bearer(c)' = Bearer(c) /\ (Judged(c) => Judged(c)') /\ (HasReason(c) => HasReason(c)')
  BY <1>2 DEF Bearer, Judged, HasReason, Presented, GetByID
<1>6. CallInv(c)'
  BY <1>1, <1>2, <1>3, <1>5 DEF CallInv
<1>7. caller'[c] = "refused" => HasReason(c)'
  BY <1>1, <1>3, <1>5 DEF CallInv
<1>8. \A d \in Caller \ {c} : caller'[d] = caller[d] /\ actor'[d] = actor[d]
  BY <1>1 DEF Answered, Serve, CallTypeOK
<1> QED BY <1>2, <1>4, <1>6, <1>7, <1>8, OneCallMoves

LEMMA GatewayNextKeepsInv == GatewayInv /\ [GatewayNext]_gatewayVars => GatewayInv'
<1> SUFFICES ASSUME GatewayInv, [GatewayNext]_gatewayVars
             PROVE  GatewayInv'
  OBVIOUS
<1>1. CallTypeOK /\ AuthInv
  BY DEF GatewayInv
<1>2. ASSUME NEW c \in Caller,
             \/ Arrive(c) \/ CallerStep(c)
             \/ ServerValidates(c) \/ ServerConfirms(c) \/ ServerQueryFails(c) \/ Lose(c)
      PROVE  GatewayInv'
  BY <1>2, ArriveKeepsInv, ServerValidatesKeepsInv, ServerConfirmsKeepsInv,
     DisturbedKeepsInv, AnsweredKeepsInv DEF CallerStep
<1>3. ASSUME UNCHANGED callVars, [Next]_authVars
      PROVE  GatewayInv'
  <2>1. UNCHANGED <<caller, header, query, server, answer, actor, arrived, judged, disturbed>>
    BY <1>3 DEF callVars
  <2>2. CallTypeOK'
    BY <1>1, <2>1 DEF CallTypeOK
  <2> QED BY <1>3, <2>1, <2>2, QuietForCallers
<1>4. CASE AuthCrashes
  <2>1. [Next]_authVars
    BY <1>4 DEF AuthCrashes, Next
  <2>2. CallTypeOK'
    BY <1>1, <1>4 DEF AuthCrashes, CallTypeOK
  <2>3. \A c \in Caller :
           /\ \/ server'[c] = server[c]
              \/ /\ server[c] # "none" /\ server'[c] = "lost"
                 /\ caller[c] \notin {"serving", "served"}
           /\ disturbed[c] => disturbed'[c]
    BY <1>1, <1>4 DEF AuthCrashes, CallTypeOK, GatewayInv, CallInv
  <2> QED BY <1>4, <2>1, <2>2, <2>3, QuietForCallers DEF AuthCrashes
<1> QED BY <1>2, <1>3, <1>4 DEF GatewayNext, Next, gatewayVars, callVars, authVars
-----------------------------------------------------------------------------
\* At the start nobody has called.
LEMMA GatewayInitInv == GatewayInit => GatewayInv
<1> SUFFICES ASSUME GatewayInit
             PROVE  GatewayInv
  OBVIOUS
<1>1. AuthInv /\ clock = 0
  BY AuthInitInv DEF GatewayInit, Init
<1>2. CallTypeOK
  BY DEF GatewayInit, CallTypeOK
<1>3. \A c \in Caller : CallInv(c)
  BY <1>1 DEF GatewayInit, CallInv
<1>4. ActorsAreConfirmed /\ RefusalsHaveReasons
  BY DEF GatewayInit, ActorsAreConfirmed, RefusalsHaveReasons
<1> QED BY <1>1, <1>2, <1>3, <1>4 DEF GatewayInv

\* What is known of each call, at every place, holds whatever fails or is lost.
THEOREM GatewayInvHolds == GatewaySpec => []GatewayInv
<1> QED BY GatewayInitInv, GatewayNextKeepsInv, PTL DEF GatewaySpec

\* No handler of the transaction service runs as anybody but the user, and in the role,
\* of a row, confirmed for the token of its own request, in time.
THEOREM HandlersActForTheirCallers == GatewaySpec => []ActorsAreConfirmed
<1>1. GatewayInv => ActorsAreConfirmed
  BY DEF GatewayInv
<1> QED BY <1>1, GatewayInvHolds, PTL

\* And nobody is refused without a reason.
THEOREM RefusalsAreJustified == GatewaySpec => []RefusalsHaveReasons
<1>1. GatewayInv => RefusalsHaveReasons
  BY DEF GatewayInv
<1> QED BY <1>1, GatewayInvHolds, PTL
=============================================================================
