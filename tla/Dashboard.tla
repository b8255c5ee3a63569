------------------------------ MODULE Dashboard ------------------------------
(***************************************************************************)
(* The page of the dashboard (page.tsx), one React component, in front of  *)
(* the two services.                                                       *)
(*                                                                         *)
(* A call of one of its async functions is a task.  It keeps the token,    *)
(* the selection and the account of the render it was called from, waits   *)
(* for an answer, and goes on with that answer whatever the page has       *)
(* become.  Tasks overlap, and their answers come in any order.            *)
(*                                                                         *)
(* An account is its id and the number of its transactions, which stands   *)
(* for its balance and its history.  The history and the monthly balances, *)
(* which one Promise.all fetches, are one answer here.                     *)
(***************************************************************************)
EXTENDS Naturals, Sequences

CONSTANTS
  User, Account,  \* ids of users and of accounts
  OwnedAtFirst,   \* each user's accounts, the newest first
  RowsAtFirst,    \* transactions of each account
  None,           \* no user, no account: the empty string or null
  Null,           \* JSON null, which an empty list is sent as
  Pending, Failed,  \* no answer yet; an error
  Tasks,          \* bound on the tasks in flight
  MaxActs,        \* bound on what the user, other clients and the network do
  MaxRows         \* bound on the transactions of an account

\* What the services answer at each place.
Place == {"auth", "accounts", "history", "post", "create"}
Shown == [id : Account, rows : Nat]
Listing == Seq(Shown) \ {<<>>}
ShownHistory == [account : Account, rows : Nat]
Answer(place) ==
  CASE place = "auth" -> User
    [] place = "accounts" -> {Null} \cup Listing
    [] place = "history" -> {Null} \cup ShownHistory
    [] place \in {"post", "create"} -> Account

\* A task: a call of fn that waits at a place, and what its closure holds.
TaskAt(place) ==
  [fn : {"refresh", "load", "auth", "create", "submit", "gone"}, at : {place},
   as : User \cup {None}, chosen : Account \cup {None}, account : Account \cup {None},
   got : {Pending, Failed} \cup Answer(place)]

ASSUME OwnedAssumption ==
  OwnedAtFirst \in [User -> Seq(Account)] /\ RowsAtFirst \in [Account -> Nat]
ASSUME TasksAssumption == Tasks \in Nat
ASSUME NoTaskAssumption == \A place \in Place : None \notin TaskAt(place)

VARIABLES
  owned, rows,   \* the two services' tables
  session,       \* the user whose token the page has (token, user, localStorage)
  accounts,      \* the list shown
  selectedID,
  history,       \* the transactions shown: [account, rows]; None: an empty list
  loading,
  refreshTimer, loadTimer,  \* timeouts of zero that are set
  event,         \* the stream brings an event
  task,          \* the tasks in flight
  crashed,       \* rendering has thrown
  acts,          \* what they have done so far
  disturbed      \* an answer has been lost (history, which no action reads)

serverVars == <<owned, rows>>
pageVars == <<session, accounts, selectedID, history, loading, refreshTimer, loadTimer,
              event, crashed>>
dashVars == <<serverVars, pageVars, task, acts, disturbed>>

\* The page is opened; a token may be in localStorage.
Init ==
  /\ owned = OwnedAtFirst /\ rows = RowsAtFirst
  /\ session \in User \cup {None}
  /\ accounts = <<>> /\ selectedID = None /\ history = None /\ loading = FALSE
  /\ refreshTimer = (session # None) /\ loadTimer = FALSE /\ event = FALSE
  /\ task = [t \in 1..Tasks |-> None]
  /\ crashed = FALSE /\ acts = 0 /\ disturbed = FALSE
-----------------------------------------------------------------------------
\* selectedAccount: the one with the selected id, else the first one.
SelectedOf(list, id) ==
  IF list = <<>> THEN None
  ELSE LET matches == {i \in DOMAIN list : list[i].id = id}
       IN  IF matches = {} THEN list[1].id ELSE id

selectedAccount == SelectedOf(accounts, selectedID)

\* A call of fn from the present render, which is to wait for an answer at place.
Call(fn, place) ==
  [fn |-> fn, at |-> place, as |-> session, chosen |-> selectedID,
   account |-> selectedAccount, got |-> Pending]

Free == {t \in 1..Tasks : task[t] = None}
Least(T) == CHOOSE t \in T : \A u \in T : t <= u
Start(call) == Free # {} /\ task' = [task EXCEPT ![Least(Free)] = call]

\* A page that is gone leaves its requests to the services, but no code.
Abandoned ==
  [t \in 1..Tasks |-> IF task[t] # None /\ task[t].at \in {"post", "create"}
                      THEN [task[t] EXCEPT !.fn = "gone"] ELSE None]

\* Mutant of Renewed: an account that has not changed is not a new one.
RenewedIfChanged(list, id) ==
  [account |-> SelectedOf(list, id), rows |-> list]
    # [account |-> selectedAccount, rows |-> accounts]

\* A list that is set has new objects, also for accounts that have not changed: useMemo
\* returns another selectedAccount, unless there was and is none.
Renewed(list, id) == SelectedOf(list, id) # None \/ selectedAccount # None

\* The effects after a render.  They depend on refresh, hence on the token, selectedID
\* and selectedAccount, and clear the timeouts and close the stream they replace.
Effects(user, list, id, newRefresh, newLoad) ==
  /\ refreshTimer' = IF newRefresh THEN user # None ELSE refreshTimer
  /\ event' = IF newRefresh THEN FALSE ELSE event
  /\ loadTimer' = IF newLoad THEN SelectedOf(list, id) # None ELSE loadTimer

\* setAccounts(list) and setSelectedAccountID(id), and the render that follows: reading
\* a list that is null throws, and the page is unmounted.
SetAccounts(list, id) ==
  /\ accounts' = list /\ selectedID' = id
  /\ IF list = Null
     THEN /\ crashed' = TRUE
          /\ refreshTimer' = FALSE /\ loadTimer' = FALSE /\ event' = FALSE
     ELSE /\ Effects(session, list, id, id # selectedID \/ Renewed(list, id),
                     Renewed(list, id))
          /\ UNCHANGED crashed

\* setSelectedAccountID(id) alone: refresh changes, selectedAccount if another is found.
SetSelected(id) ==
  /\ selectedID' = id
  /\ Effects(session, accounts, id, id # selectedID, SelectedOf(accounts, id) # selectedAccount)
  /\ UNCHANGED <<accounts, crashed>>
-----------------------------------------------------------------------------
\* The services answer the request a task waits for, in the state they are in.

Listed(u) == IF owned[u] = <<>> THEN Null
             ELSE [i \in DOMAIN owned[u] |-> [id |-> owned[u][i], rows |-> rows[owned[u][i]]]]

Owns(u, a) == u # None /\ \E i \in DOMAIN owned[u] : owned[u][i] = a

\* A transaction of the session's account; its event may reach the page.
Emits(a) ==
  event' \in {event, event \/ (session # None /\ Owns(session, a) /\ ~crashed)}

Replied(t, answer) == task' = [task EXCEPT ![t].got = answer]

ServeAuth(t) ==
  /\ task[t].at = "auth"
  /\ \E answer \in User \cup {Failed} : Replied(t, answer)
  /\ UNCHANGED <<owned, rows, event>>

ServeAccounts(t) ==
  /\ task[t].at = "accounts"
  /\ Replied(t, Listed(task[t].as))
  /\ UNCHANGED <<owned, rows, event>>

\* listTransactions and monthlyBalances, which answer 403 for another user's account.
ServeHistory(t) ==
  /\ task[t].at = "history"
  /\ LET a == task[t].account
     IN  Replied(t, IF ~Owns(task[t].as, a) THEN Failed
                    ELSE IF rows[a] = 0 THEN Null ELSE [account |-> a, rows |-> rows[a]])
  /\ UNCHANGED <<owned, rows, event>>

ServePost(t) ==
  /\ task[t].at = "post"
  /\ \/ Replied(t, Failed) /\ UNCHANGED <<rows, event>>
     \/ LET a == task[t].account
        IN  /\ Owns(task[t].as, a) /\ rows[a] < MaxRows
            /\ rows' = [rows EXCEPT ![a] = @ + 1]
            /\ Emits(a)
            /\ Replied(t, a)
  /\ UNCHANGED owned

ServeCreate(t) ==
  /\ task[t].at = "create"
  /\ \/ Replied(t, Failed) /\ UNCHANGED owned
     \/ \E a \in Account :
          /\ task[t].as # None
          /\ \A u \in User : ~Owns(u, a)
          /\ owned' = [owned EXCEPT ![task[t].as] = <<a>> \o @]
          /\ Replied(t, a)
  /\ UNCHANGED <<rows, event>>

Serve(t) ==
  /\ task[t] # None /\ task[t].got = Pending
  /\ \/ ServeAuth(t) \/ ServeAccounts(t) \/ ServeHistory(t)
     \/ ServePost(t) \/ ServeCreate(t)
  /\ UNCHANGED <<session, accounts, selectedID, history, loading, refreshTimer,
                 loadTimer, crashed, acts, disturbed>>
-----------------------------------------------------------------------------
\* A task goes on with its answer.

Submitting == {"auth", "create", "submit"}

\* The call returns; those of the forms end with setLoading(false).
Finish(t) ==
  /\ task' = [task EXCEPT ![t] = None]
  /\ loading' = IF task[t].fn \in Submitting THEN FALSE ELSE loading

Await(t, place) ==
  /\ task' = [task EXCEPT ![t].at = place, ![t].got = Pending]
  /\ UNCHANGED loading

\* An error, which the page shows, or an answer to a page that is gone.
GiveUp(t) ==
  /\ task[t] # None
  /\ task[t].got # Pending /\ (task[t].got = Failed \/ task[t].fn = "gone")
  /\ Finish(t)
  /\ UNCHANGED <<serverVars, session, accounts, selectedID, history, refreshTimer,
                 loadTimer, event, crashed, acts, disturbed>>

Answered(t, place) ==
  /\ task[t] # None /\ task[t].at = place /\ task[t].fn # "gone"
  /\ task[t].got \notin {Pending, Failed}

\* submitAuth: setToken and setUser.
SignedIn(t) ==
  /\ Answered(t, "auth")
  /\ session' = task[t].got
  /\ Effects(session', accounts, selectedID, TRUE, TRUE)
  /\ Finish(t)
  /\ UNCHANGED <<serverVars, accounts, selectedID, history, crashed, acts, disturbed>>

\* loadAccounts; refresh then calls loadAccountData, for the account its render had.
\* After null the page is gone.
AccountsArrive(t) ==
  /\ Answered(t, "accounts")
  /\ LET call == task[t]
         id == IF call.chosen = None /\ call.got # Null THEN call.got[1].id ELSE selectedID
     IN  /\ SetAccounts(call.got, id)
         /\ IF call.got = Null
            THEN task' = Abandoned /\ loading' = FALSE
            ELSE IF call.fn = "create" \/ call.account = None
            THEN Finish(t)
            ELSE Await(t, "history")
  /\ UNCHANGED <<serverVars, session, history, acts, disturbed>>

\* loadAccountData: setTransactions and setBalances.
HistoryArrives(t) ==
  /\ Answered(t, "history")
  /\ history' = task[t].got
  /\ IF task[t].got = Null
     THEN /\ crashed' = TRUE /\ task' = Abandoned /\ loading' = FALSE
          /\ refreshTimer' = FALSE /\ loadTimer' = FALSE /\ event' = FALSE
     ELSE /\ Finish(t)
          /\ UNCHANGED <<crashed, refreshTimer, loadTimer, event>>
  /\ UNCHANGED <<serverVars, session, accounts, selectedID, acts, disturbed>>

\* createAccount: setSelectedAccountID, then loadAccounts of its own render.
AccountCreated(t) ==
  /\ Answered(t, "create")
  /\ SetSelected(task[t].got)
  /\ Await(t, "accounts")
  /\ UNCHANGED <<serverVars, session, history, acts, disturbed>>

\* submitTransaction, which awaits the refresh of its own render.
Submitted(t) ==
  /\ Answered(t, "post")
  /\ Await(t, "accounts")
  /\ UNCHANGED <<serverVars, session, accounts, selectedID, history, refreshTimer,
                 loadTimer, event, crashed, acts, disturbed>>
-----------------------------------------------------------------------------
\* The timeouts of the effects, and the stream.

RefreshFires ==
  /\ refreshTimer /\ ~crashed
  /\ refreshTimer' = FALSE
  /\ Start(Call("refresh", "accounts"))
  /\ UNCHANGED <<serverVars, session, accounts, selectedID, history, loading, loadTimer,
                 event, crashed, acts, disturbed>>

\* loadAccountData returns at once without a token.
LoadFires ==
  /\ loadTimer /\ ~crashed
  /\ loadTimer' = FALSE
  /\ IF session = None THEN UNCHANGED task ELSE Start(Call("load", "history"))
  /\ UNCHANGED <<serverVars, session, accounts, selectedID, history, loading,
                 refreshTimer, event, crashed, acts, disturbed>>

EventArrives ==
  /\ event /\ ~crashed
  /\ event' = FALSE
  /\ Start(Call("refresh", "accounts"))
  /\ UNCHANGED <<serverVars, session, accounts, selectedID, history, loading,
                 refreshTimer, loadTimer, crashed, acts, disturbed>>
-----------------------------------------------------------------------------
\* What the user, the other clients and the network do.

Act == acts < MaxActs /\ acts' = acts + 1

\* The connection fails before or after the services have done what was asked, or the
\* token expires.
AnswerLost(t) ==
  /\ Act
  /\ task[t] # None /\ task[t].got # Failed
  /\ Replied(t, Failed)
  /\ disturbed' = TRUE
  /\ UNCHANGED <<serverVars, pageVars>>

\* Another client of the services adds a transaction.
OthersTransact(a) ==
  /\ Act
  /\ \E u \in User : Owns(u, a)
  /\ rows[a] < MaxRows
  /\ rows' = [rows EXCEPT ![a] = @ + 1]
  /\ Emits(a)
  /\ UNCHANGED <<owned, session, accounts, selectedID, history, loading, refreshTimer,
                 loadTimer, crashed, task, disturbed>>

Button == Act /\ ~crashed /\ UNCHANGED <<serverVars, disturbed>>

\* Mutant of Submit: the button is enabled while a transaction is on its way.
SubmitAgain ==
  /\ Button /\ selectedAccount # None
  /\ loading' = TRUE
  /\ Start(Call("submit", "post"))
  /\ UNCHANGED <<session, accounts, selectedID, history, refreshTimer, loadTimer, event,
                 crashed>>

\* The form to move money, which is there without a session, too.
Submit ==
  /\ Button /\ selectedAccount # None /\ ~loading
  /\ loading' = TRUE
  /\ Start(Call("submit", "post"))
  /\ UNCHANGED <<session, accounts, selectedID, history, refreshTimer, loadTimer, event,
                 crashed>>

SignIn ==
  /\ Button /\ session = None /\ ~loading
  /\ loading' = TRUE
  /\ Start(Call("auth", "auth"))
  /\ UNCHANGED <<session, accounts, selectedID, history, refreshTimer, loadTimer, event,
                 crashed>>

NewAccount ==
  /\ Button /\ session # None /\ ~loading
  /\ loading' = TRUE
  /\ Start(Call("create", "create"))
  /\ UNCHANGED <<session, accounts, selectedID, history, refreshTimer, loadTimer, event,
                 crashed>>

Refresh ==
  /\ Button /\ session # None
  /\ Start(Call("refresh", "accounts"))
  /\ UNCHANGED pageVars

Select ==
  /\ Button /\ session # None
  /\ \E i \in DOMAIN accounts :
       /\ accounts[i].id # selectedID
       /\ SetSelected(accounts[i].id)
  /\ UNCHANGED <<session, history, loading, task>>

\* signOut: the tasks in flight go on.
SignOut ==
  /\ Button /\ session # None
  /\ session' = None /\ accounts' = <<>> /\ selectedID' = None /\ history' = None
  /\ refreshTimer' = FALSE /\ loadTimer' = FALSE /\ event' = FALSE
  /\ UNCHANGED <<loading, crashed, task>>

\* The page is loaded again and finds the token in localStorage.
Reload ==
  /\ Act
  /\ accounts' = <<>> /\ selectedID' = None /\ history' = None /\ loading' = FALSE
  /\ refreshTimer' = (session # None) /\ loadTimer' = FALSE /\ event' = FALSE
  /\ crashed' = FALSE
  /\ task' = Abandoned
  /\ UNCHANGED <<serverVars, session, disturbed>>
-----------------------------------------------------------------------------
Resume(t) ==
  \/ SignedIn(t) \/ AccountsArrive(t) \/ HistoryArrives(t)
  \/ AccountCreated(t) \/ Submitted(t) \/ GiveUp(t)

Fires == RefreshFires \/ LoadFires \/ EventArrives

Next ==
  \/ \E t \in 1..Tasks : Serve(t) \/ AnswerLost(t) \/ Resume(t)
  \/ Fires
  \/ \E a \in Account : OthersTransact(a)
  \/ SignIn \/ NewAccount \/ Submit \/ Refresh \/ Select \/ SignOut \/ Reload

Spec == Init /\ [][Next]_dashVars

\* Requests are answered or fail, and the browser runs what is due: an answer, or a
\* timeout.  Nothing is owed by the user, or by the stream.
FairSpec ==
  /\ Spec
  /\ \A t \in 1..Tasks : WF_dashVars(Serve(t)) /\ WF_dashVars(Resume(t))
  /\ SF_dashVars(RefreshFires) /\ SF_dashVars(LoadFires)
=============================================================================
