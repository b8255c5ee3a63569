--------------------------- MODULE DashboardProofs ---------------------------
(***************************************************************************)
(* Proof that DashInv is inductive, for any users, accounts and numbers of *)
(* tasks, of acts and of transactions, and of OneSubmission.               *)
(***************************************************************************)
EXTENDS DashboardProperties, FiniteSetTheorems, TLAPS

\* A set of numbers has a least one.
LEMMA LeastNatural ==
  ASSUME NEW S, S \subseteq Nat, S # {}
  PROVE  \E n \in S : \A m \in S : n <= m
<1> DEFINE less == OpToRel(<, Nat)
<1>1. IsWellFoundedOn(less, Nat)
  BY NatLessThanWellFounded, Zenon
<1>2. \A m, k \in Nat : <<m, k>> \in less <=> m < k
  BY DEF OpToRel
<1> HIDE DEF less
<1>3. PICK n \in S : \A m \in S : ~(<<m, n>> \in less)
  BY <1>1, WFMin
<1>4. ASSUME NEW m \in S
      PROVE  n <= m
  <2>1. m \in Nat /\ n \in Nat /\ ~(m < n)
    BY <1>2, <1>3
  <2> QED BY <2>1
<1> QED BY <1>4

LEMMA TaskIsNotNone ==
  ASSUME NEW c, TaskInv(c)
  PROVE  c # None
BY NoTaskAssumption DEF NoTaskAssumption, TaskInv

\* The fields of a task, and a task with others.
LEMMA TaskFields ==
  ASSUME NEW c, TaskInv(c)
  PROVE  /\ c.fn \in {"refresh", "load", "auth", "create", "submit", "gone"}
         /\ c.at \in Place
         /\ c.as \in User \cup {None}
         /\ c.chosen \in Account \cup {None}
         /\ c.account \in Account \cup {None}
         /\ c.got \in {Pending, Failed} \cup Answer(c.at)
BY DEF TaskInv, TaskAt

LEMMA OtherAnswer ==
  ASSUME NEW c, TaskInv(c), NEW answer \in {Pending, Failed} \cup Answer(c.at),
         c.at \in {"post", "create"} /\ answer \notin {Pending, Failed} => c.as # None
  PROVE  /\ TaskInv([c EXCEPT !.got = answer])
         /\ [c EXCEPT !.got = answer].fn = c.fn
<1> DEFINE d == [c EXCEPT !.got = answer]
<1>1. d.at = c.at /\ d.as = c.as /\ d.got = answer /\ d.fn = c.fn
  BY DEF TaskInv, TaskAt
<1>2. d \in TaskAt(c.at)
  BY DEF TaskInv, TaskAt
<1> HIDE DEF d
<1>3. TaskInv(d)
  BY <1>1, <1>2 DEF TaskInv
<1> QED BY <1>1, <1>3 DEF d

LEMMA OtherPlace ==
  ASSUME NEW c, TaskInv(c), NEW place \in Place, place = "accounts" => c.as # None
  PROVE  /\ TaskInv([c EXCEPT !.at = place, !.got = Pending])
         /\ [c EXCEPT !.at = place, !.got = Pending].fn = c.fn
<1> DEFINE d == [c EXCEPT !.at = place, !.got = Pending]
<1>1. d.at = place /\ d.as = c.as /\ d.got = Pending /\ d.fn = c.fn
  BY DEF TaskInv, TaskAt
<1>2. d \in TaskAt(place)
  BY DEF TaskInv, TaskAt
<1> HIDE DEF d
<1>3. TaskInv(d)
  BY <1>1, <1>2 DEF TaskInv
<1> QED BY <1>1, <1>3 DEF d

LEMMA GoneTask ==
  ASSUME NEW c, TaskInv(c)
  PROVE  /\ TaskInv([c EXCEPT !.fn = "gone"])
         /\ [c EXCEPT !.fn = "gone"].fn = "gone"
<1> DEFINE d == [c EXCEPT !.fn = "gone"]
<1>1. d.at = c.at /\ d.as = c.as /\ d.got = c.got /\ d.fn = "gone"
  BY DEF TaskInv, TaskAt
<1>2. d \in TaskAt(c.at)
  BY DEF TaskInv, TaskAt
<1> HIDE DEF d
<1>3. TaskInv(d)
  BY <1>1, <1>2 DEF TaskInv
<1> QED BY <1>1, <1>3 DEF d

\* What an action makes of one task it makes of Forms.
LEMMA OneTaskChanges ==
  ASSUME TasksInv, NEW t \in 1..Tasks, NEW c, task' = [task EXCEPT ![t] = c],
         c = None \/ TaskInv(c)
  PROVE  /\ TasksInv'
         /\ task'[t] = c
         /\ \A u \in 1..Tasks : u # t => task'[u] = task[u]
         /\ Forms' = IF c # None /\ c.fn \in Submitting THEN Forms \cup {t} ELSE Forms \ {t}
<1>1. task'[t] = c /\ \A u \in 1..Tasks : u # t => task'[u] = task[u]
  BY DEF TasksInv
<1>2. task' = [u \in 1..Tasks |-> task'[u]]
  BY DEF TasksInv
<1>3. \A u \in 1..Tasks : task'[u] # None => TaskInv(task'[u])
  BY <1>1 DEF TasksInv
<1>4. TasksInv'
  BY <1>2, <1>3 DEF TasksInv, TaskInv
<1>5. Forms' = IF c # None /\ c.fn \in Submitting THEN Forms \cup {t} ELSE Forms \ {t}
  BY <1>1 DEF Forms
<1> QED BY <1>1, <1>4, <1>5

LEMMA ReplyKeeps ==
  ASSUME DashInv, NEW t \in 1..Tasks, task[t] # None, NEW answer,
         answer \in {Pending, Failed} \cup Answer(task[t].at),
         task[t].at \in {"post", "create"} /\ answer \notin {Pending, Failed} =>
           task[t].as # None,
         Replied(t, answer)
  PROVE  TasksInv' /\ Forms' = Forms
<1>1. PICK c : c = task[t]
  OBVIOUS
<1>2. PICK d : d = [c EXCEPT !.got = answer]
  OBVIOUS
<1>3. TaskInv(c)
  BY <1>1 DEF DashInv, TasksInv
<1>4. TaskInv(d) /\ d.fn = c.fn
  BY <1>1, <1>2, <1>3, OtherAnswer
<1>5. task' = [task EXCEPT ![t] = d]
  BY <1>1, <1>2 DEF Replied
<1>6. TasksInv' /\ Forms' = IF d # None /\ d.fn \in Submitting
                            THEN Forms \cup {t} ELSE Forms \ {t}
  BY <1>4, <1>5, OneTaskChanges DEF DashInv
<1>7. t \in Forms <=> c.fn \in Submitting
  BY <1>1 DEF Forms
<1>8. d # None
  BY <1>4, TaskIsNotNone
<1> QED BY <1>4, <1>6, <1>7, <1>8

LEMMA AwaitKeeps ==
  ASSUME DashInv, NEW t \in 1..Tasks, task[t] # None, NEW place \in Place,
         place = "accounts" => task[t].as # None, Await(t, place)
  PROVE  TasksInv' /\ Forms' = Forms /\ loading' = loading
<1>1. PICK c : c = task[t]
  OBVIOUS
<1>2. PICK d : d = [c EXCEPT !.at = place, !.got = Pending]
  OBVIOUS
<1>3. TaskInv(c)
  BY <1>1 DEF DashInv, TasksInv
<1>4. TaskInv(d) /\ d.fn = c.fn
  BY <1>1, <1>2, <1>3, OtherPlace
<1>5. task' = [task EXCEPT ![t] = d]
  BY <1>1, <1>2 DEF Await
<1>6. TasksInv' /\ Forms' = IF d # None /\ d.fn \in Submitting
                            THEN Forms \cup {t} ELSE Forms \ {t}
  BY <1>4, <1>5, OneTaskChanges DEF DashInv
<1>7. t \in Forms <=> c.fn \in Submitting
  BY <1>1 DEF Forms
<1>8. d # None
  BY <1>4, TaskIsNotNone
<1> QED BY <1>4, <1>6, <1>7, <1>8 DEF Await

\* The form that ends was the only one; the end of anything else leaves the flag.
LEMMA FinishKeeps ==
  ASSUME DashInv, NEW t \in 1..Tasks, task[t] # None, Finish(t)
  PROVE  TasksInv' /\ FormsInv' /\ loading' \in BOOLEAN
<1>1. TasksInv' /\ Forms' = Forms \ {t}
  BY OneTaskChanges DEF DashInv, Finish
<1>2. t \in Forms <=> task[t].fn \in Submitting
  BY DEF Forms
<1>3. CASE task[t].fn \in Submitting
  <2>1. loading' = FALSE
    BY <1>3 DEF Finish
  <2>2. Forms' = {}
    BY <1>1, <1>2, <1>3 DEF DashInv, FormsInv
  <2> QED BY <1>1, <2>1, <2>2 DEF FormsInv
<1>4. CASE task[t].fn \notin Submitting
  <2>1. loading' = loading
    BY <1>4 DEF Finish
  <2>2. Forms' = Forms
    BY <1>1, <1>2, <1>4
  <2> QED BY <1>1, <2>1, <2>2 DEF FormsInv, DashInv, PageInv
<1> QED BY <1>3, <1>4

\* No form outlives the page it was on.
LEMMA AbandonKeeps ==
  ASSUME DashInv, task' = Abandoned, loading' = FALSE
  PROVE  TasksInv' /\ FormsInv' /\ loading' \in BOOLEAN
<1>1. ASSUME NEW t \in 1..Tasks
      PROVE  \/ task'[t] = None
             \/ TaskInv(task'[t]) /\ task'[t].fn = "gone"
  <2>1. CASE task[t] # None /\ task[t].at \in {"post", "create"}
    <3>1. PICK c : c = task[t]
      OBVIOUS
    <3>2. TaskInv(c)
      BY <2>1, <3>1 DEF DashInv, TasksInv
    <3>3. task'[t] = [c EXCEPT !.fn = "gone"]
      BY <2>1, <3>1 DEF Abandoned
    <3>4. PICK d : d = [c EXCEPT !.fn = "gone"]
      OBVIOUS
    <3>5. TaskInv(d) /\ d.fn = "gone"
      BY <3>2, <3>4, GoneTask
    <3> QED BY <3>3, <3>4, <3>5
  <2>2. CASE ~(task[t] # None /\ task[t].at \in {"post", "create"})
    BY <2>2 DEF Abandoned
  <2> QED BY <2>1, <2>2
<1>2. task' = [t \in 1..Tasks |-> task'[t]]
  BY DEF Abandoned
<1>3. TasksInv'
  BY <1>1, <1>2 DEF TasksInv, TaskInv
<1>4. Forms' = {}
  BY <1>1 DEF Forms, Submitting
<1> QED BY <1>3, <1>4 DEF FormsInv

\* A new task takes a free place.
LEMMA StartKeeps ==
  ASSUME DashInv, NEW c, TaskInv(c), Start(c)
  PROVE  /\ TasksInv'
         /\ c.fn \notin Submitting => Forms' = Forms
         /\ c.fn \in Submitting /\ Forms = {} => \E t : Forms' = {t}
<1>1. PICK t : t = Least(Free)
  OBVIOUS
<1>2. t \in Free
  <2>1. Free \subseteq Nat /\ Free # {}
    BY TasksAssumption DEF Free, TasksAssumption, Start
  <2>2. \E n \in Free : \A m \in Free : n <= m
    BY <2>1, LeastNatural
  <2> QED BY <1>1, <2>2 DEF Least
<1>3. t \in 1..Tasks /\ task[t] = None
  BY <1>2 DEF Free
<1>4. task' = [task EXCEPT ![t] = c]
  BY <1>1 DEF Start
<1>5. c # None
  BY TaskIsNotNone
<1>6. TasksInv' /\ Forms' = IF c.fn \in Submitting THEN Forms \cup {t} ELSE Forms \ {t}
  BY <1>3, <1>4, <1>5, OneTaskChanges DEF DashInv
<1>7. t \notin Forms
  BY <1>3 DEF Forms
<1> QED BY <1>6, <1>7

\* The selected account is one of the list.
LEMMA SelectedIsAccount ==
  ASSUME NEW list \in Seq(Shown), NEW id \in Account \cup {None}
  PROVE  SelectedOf(list, id) \in Account \cup {None}
<1>1. CASE list # <<>>
  <2>1. 1 \in 1..Len(list)
    BY <1>1
  <2>2. list[1] \in Shown
    BY <2>1
  <2>3. list[1].id \in Account
    BY <2>2 DEF Shown
  <2> QED BY <1>1, <2>3 DEF SelectedOf
<1>2. CASE list = <<>>
  BY <1>2 DEF SelectedOf
<1> QED BY <1>1, <1>2

\* A call from a page that has not crashed is a task.
LEMMA CallIsTask ==
  ASSUME DashInv, ~crashed, NEW place \in Place,
         NEW fn \in {"refresh", "load", "auth", "create", "submit"},
         place = "accounts" => session # None
  PROVE  TaskInv(Call(fn, place)) /\ Call(fn, place).fn = fn
<1>1. PICK chosen : chosen = selectedAccount
  OBVIOUS
<1>2. chosen \in Account \cup {None}
  BY <1>1, SelectedIsAccount DEF DashInv, PageInv, selectedAccount
<1>3. PICK c : c = Call(fn, place)
  OBVIOUS
<1>4. c = [fn |-> fn, at |-> place, as |-> session, chosen |-> selectedID,
           account |-> chosen, got |-> Pending]
  BY <1>1, <1>3 DEF Call
<1>5. c \in TaskAt(place) /\ c.at = place /\ c.as = session /\ c.fn = fn /\ c.got = Pending
  BY <1>2, <1>4 DEF TaskAt, DashInv, PageInv
<1>6. TaskInv(c)
  BY <1>5 DEF TaskInv
<1> QED BY <1>3, <1>5, <1>6
-----------------------------------------------------------------------------
\* The services.

\* What they list are rows of the table.
LEMMA ListedIsListing ==
  ASSUME DashInv, NEW u \in User
  PROVE  Listed(u) \in {Null} \cup Listing
<1>1. CASE owned[u] = <<>>
  BY <1>1 DEF Listed
<1>2. CASE owned[u] # <<>>
  <2>1. PICK ids \in Seq(Account) : ids = owned[u]
    BY DEF DashInv, PageInv
  <2>2. PICK list : list = [i \in 1..Len(ids) |-> [id |-> ids[i], rows |-> rows[ids[i]]]]
    OBVIOUS
  <2>3. Listed(u) = list
    BY <1>2, <2>1, <2>2 DEF Listed
  <2>4. \A i \in 1..Len(ids) : ids[i] \in Account /\ rows[ids[i]] \in Nat
    BY DEF DashInv, PageInv
  <2>5. \A i \in 1..Len(ids) : list[i] \in Shown
    BY <2>2, <2>4 DEF Shown
  <2>6. list \in Seq(Shown)
    BY <2>2, <2>5
  <2>7. Len(ids) \in Nat /\ Len(ids) # 0
    BY <1>2, <2>1
  <2>8. Len(list) # 0
    BY <2>2, <2>7
  <2>9. list # <<>>
    BY <2>6, <2>8
  <2> QED BY <2>3, <2>6, <2>9 DEF Listing
<1> QED BY <1>1, <1>2

\* An account that is owned is one.
LEMMA OwnedIsAccount ==
  ASSUME DashInv, NEW u \in User \cup {None}, NEW a, Owns(u, a)
  PROVE  u \in User /\ a \in Account
<1>1. u \in User
  BY DEF Owns
<1>2. PICK i \in DOMAIN owned[u] : owned[u][i] = a
  BY DEF Owns
<1>3. owned[u] \in Seq(Account)
  BY <1>1 DEF DashInv, PageInv
<1> QED BY <1>1, <1>2, <1>3

\* Whether an event is on its way.
LEMMA EmittedEvent ==
  ASSUME DashInv, NEW a, Emits(a)
  PROVE  event' \in BOOLEAN /\ (event' => session # None)
BY DEF Emits, DashInv, PageInv

\* An answer that fits the task c, and tables that stay tables.
Served(t, c) ==
  /\ \E answer :
       /\ Replied(t, answer)
       /\ answer \in {Pending, Failed} \cup Answer(c.at)
       /\ c.at \in {"post", "create"} /\ answer \notin {Pending, Failed} => c.as # None
  /\ owned' \in [User -> Seq(Account)] /\ rows' \in [Account -> Nat]
  /\ event' \in BOOLEAN /\ (event' => session # None)

LEMMA ServeKeeps ==
  ASSUME DashInv, NEW t \in 1..Tasks, Serve(t)
  PROVE  DashInv'
<1>1. task[t] # None /\ TaskInv(task[t])
  BY DEF Serve, DashInv, TasksInv
<1>2. PICK c : c = task[t]
  OBVIOUS
<1>3. /\ c.at \in Place /\ c.as \in User \cup {None} /\ c.account \in Account \cup {None}
      /\ c.at = "accounts" => c.as # None
  BY <1>1, <1>2, TaskFields DEF TaskInv
<1>4. UNCHANGED <<session, accounts, selectedID, history, loading, refreshTimer,
                  loadTimer, crashed>>
  BY DEF Serve
<1>5. Served(t, c)
  <2> USE DEF Served
  <2>0. /\ owned \in [User -> Seq(Account)] /\ rows \in [Account -> Nat]
        /\ event \in BOOLEAN /\ (event => session # None)
    BY DEF DashInv, PageInv
  <2>1. CASE ServeAuth(t)
    BY <1>2, <2>0, <2>1 DEF ServeAuth, Answer
  <2>2. CASE ServeAccounts(t)
    <3>1. c.at = "accounts" /\ Replied(t, Listed(c.as)) /\ UNCHANGED <<owned, rows, event>>
      BY <1>2, <2>2 DEF ServeAccounts
    <3>2. Listed(c.as) \in Answer(c.at)
      BY <1>3, <3>1, ListedIsListing DEF Answer
    <3> QED BY <2>0, <3>1, <3>2
  <2>3. CASE ServeHistory(t)
    <3>1. PICK answer :
            /\ answer = IF ~Owns(c.as, c.account) THEN Failed
                        ELSE IF rows[c.account] = 0 THEN Null
                        ELSE [account |-> c.account, rows |-> rows[c.account]]
            /\ Replied(t, answer)
            /\ c.at = "history" /\ UNCHANGED <<owned, rows, event>>
      BY <1>2, <2>3 DEF ServeHistory
    <3>2. Owns(c.as, c.account) => c.account \in Account /\ rows[c.account] \in Nat
      BY <1>3, <2>0, OwnedIsAccount
    <3>3. answer \in {Failed} \cup Answer(c.at)
      BY <3>1, <3>2 DEF Answer, ShownHistory
    <3> QED BY <2>0, <3>1, <3>3
  <2>4. CASE ServePost(t)
    <3>1. c.at = "post" /\ owned' = owned
      BY <1>2, <2>4 DEF ServePost
    <3>2. CASE Replied(t, Failed) /\ UNCHANGED <<rows, event>>
      BY <2>0, <3>1, <3>2
    <3>3. CASE /\ Owns(c.as, c.account)
               /\ rows' = [rows EXCEPT ![c.account] = @ + 1]
               /\ Emits(c.account)
               /\ Replied(t, c.account)
      <4>1. c.as # None /\ c.account \in Account
        BY <1>3, <3>3, OwnedIsAccount DEF Owns
      <4>2. rows' \in [Account -> Nat]
        BY <2>0, <3>3, <4>1
      <4>3. c.account \in Answer(c.at)
        BY <3>1, <4>1 DEF Answer
      <4>4. event' \in BOOLEAN /\ (event' => session # None)
        BY <3>3, EmittedEvent
      <4> QED BY <2>0, <3>1, <3>3, <4>1, <4>2, <4>3, <4>4
    <3> QED BY <1>2, <2>4, <3>2, <3>3 DEF ServePost
  <2>5. CASE ServeCreate(t)
    <3>1. c.at = "create" /\ UNCHANGED <<rows, event>>
      BY <1>2, <2>5 DEF ServeCreate
    <3>2. CASE Replied(t, Failed) /\ UNCHANGED owned
      BY <2>0, <3>1, <3>2
    <3>3. ASSUME NEW a \in Account, c.as # None,
                 owned' = [owned EXCEPT ![c.as] = <<a>> \o @], Replied(t, a)
          PROVE  Served(t, c)
      <4>1. c.as \in User
        BY <1>3, <3>3
      <4>2. <<a>> \o owned[c.as] \in Seq(Account)
        <5>1. owned[c.as] \in Seq(Account) /\ <<a>> \in Seq(Account)
          BY <2>0, <4>1
        <5> QED BY <5>1
      <4>3. owned' \in [User -> Seq(Account)]
        BY <2>0, <3>3, <4>1, <4>2
      <4>4. a \in Answer(c.at)
        BY <3>1 DEF Answer
      <4> QED BY <2>0, <3>1, <3>3, <4>3, <4>4
    <3> QED BY <1>2, <2>5, <3>2, <3>3 DEF ServeCreate
  <2> QED BY <2>1, <2>2, <2>3, <2>4, <2>5 DEF Serve
<1>6. TasksInv' /\ Forms' = Forms
  BY <1>1, <1>2, <1>5, ReplyKeeps DEF Served
<1>7. PageInv'
  BY <1>4, <1>5 DEF DashInv, PageInv, Served
<1> QED BY <1>4, <1>6, <1>7 DEF DashInv, FormsInv

LEMMA OthersTransactKeeps ==
  ASSUME DashInv, NEW a \in Account, OthersTransact(a)
  PROVE  DashInv'
<1>1. event' \in BOOLEAN /\ (event' => session # None)
  BY EmittedEvent DEF OthersTransact
<1>2. rows' \in [Account -> Nat]
  BY DEF OthersTransact, DashInv, PageInv
<1>3. PageInv'
  BY <1>1, <1>2 DEF OthersTransact, DashInv, PageInv
<1>4. TasksInv' /\ FormsInv'
  BY DEF OthersTransact, DashInv, TasksInv, FormsInv, Forms, TaskInv
<1> QED BY <1>3, <1>4 DEF DashInv

LEMMA AnswerLostKeeps ==
  ASSUME DashInv, NEW t \in 1..Tasks, AnswerLost(t)
  PROVE  DashInv'
<1>1. TasksInv' /\ Forms' = Forms
  BY ReplyKeeps DEF AnswerLost
<1>2. PageInv'
  BY DEF AnswerLost, serverVars, pageVars, DashInv, PageInv
<1>3. loading' = loading
  BY DEF AnswerLost, pageVars
<1> QED BY <1>1, <1>2, <1>3 DEF DashInv, FormsInv
-----------------------------------------------------------------------------
\* A task goes on.

\* Effects are set with a token only.
LEMMA EffectsAreTyped ==
  ASSUME DashInv, NEW user, NEW list, NEW id, NEW newRefresh, NEW newLoad,
         Effects(user, list, id, newRefresh, newLoad), user = session \/ newRefresh = TRUE
  PROVE  /\ refreshTimer' \in BOOLEAN /\ event' \in BOOLEAN /\ loadTimer' \in BOOLEAN
         /\ refreshTimer' \/ event' => user # None
<1>1. /\ refreshTimer' \in BOOLEAN /\ event' \in BOOLEAN
      /\ refreshTimer' \/ event' => user # None
  BY DEF Effects, DashInv, PageInv
<1>2. loadTimer' \in BOOLEAN
  BY DEF Effects, DashInv, PageInv
<1> QED BY <1>1, <1>2

LEMMA SetSelectedKeeps ==
  ASSUME DashInv, NEW id \in Account \cup {None}, SetSelected(id),
         UNCHANGED <<serverVars, session, history>>, loading' \in BOOLEAN
  PROVE  PageInv'
<1>1. /\ refreshTimer' \in BOOLEAN /\ event' \in BOOLEAN /\ loadTimer' \in BOOLEAN
      /\ refreshTimer' \/ event' => session # None
  BY EffectsAreTyped DEF SetSelected
<1> QED BY <1>1 DEF SetSelected, serverVars, DashInv, PageInv

LEMMA SetAccountsKeeps ==
  ASSUME DashInv, NEW id \in Account \cup {None}, NEW list \in {Null} \cup Listing,
         SetAccounts(list, id),
         UNCHANGED <<serverVars, session, history>>, loading' \in BOOLEAN
  PROVE  PageInv'
<1>1. CASE list = Null
  BY <1>1 DEF SetAccounts, serverVars, DashInv, PageInv
<1>2. CASE list # Null
  <2>1. list \in Seq(Shown)
    BY <1>2 DEF Listing
  <2>2. /\ refreshTimer' \in BOOLEAN /\ event' \in BOOLEAN /\ loadTimer' \in BOOLEAN
        /\ refreshTimer' \/ event' => session # None
    BY <1>2, EffectsAreTyped DEF SetAccounts
  <2> QED BY <1>2, <2>1, <2>2 DEF SetAccounts, serverVars, DashInv, PageInv
<1> QED BY <1>1, <1>2

\* What a task that goes on has been answered.
LEMMA AnsweredFacts ==
  ASSUME DashInv, NEW t \in 1..Tasks, NEW place \in Place, Answered(t, place)
  PROVE  /\ task[t] # None /\ TaskInv(task[t]) /\ task[t].at = place
         /\ task[t].got \in Answer(place)
<1>1. task[t] # None /\ TaskInv(task[t]) /\ task[t].at = place
  BY DEF Answered, DashInv, TasksInv
<1>2. PICK c : c = task[t]
  OBVIOUS
<1>3. c.got \in {Pending, Failed} \cup Answer(c.at)
  BY <1>1, <1>2, TaskFields
<1> QED BY <1>1, <1>2, <1>3 DEF Answered

LEMMA GiveUpKeeps ==
  ASSUME DashInv, NEW t \in 1..Tasks, GiveUp(t)
  PROVE  DashInv'
<1>1. TasksInv' /\ FormsInv' /\ loading' \in BOOLEAN
  BY FinishKeeps DEF GiveUp
<1>2. PageInv'
  BY <1>1 DEF GiveUp, serverVars, DashInv, PageInv
<1> QED BY <1>1, <1>2 DEF DashInv

LEMMA SignedInKeeps ==
  ASSUME DashInv, NEW t \in 1..Tasks, SignedIn(t)
  PROVE  DashInv'
<1>1. task[t] # None /\ task[t].got \in User
  BY AnsweredFacts DEF SignedIn, Place, Answer
<1>2. TasksInv' /\ FormsInv' /\ loading' \in BOOLEAN
  BY <1>1, FinishKeeps DEF SignedIn
<1>3. PICK user : user = session'
  OBVIOUS
<1>4. /\ refreshTimer' \in BOOLEAN /\ event' \in BOOLEAN /\ loadTimer' \in BOOLEAN
      /\ refreshTimer' \/ event' => user # None
  BY <1>3, EffectsAreTyped DEF SignedIn
<1>5. PageInv'
  BY <1>1, <1>2, <1>3, <1>4 DEF SignedIn, serverVars, DashInv, PageInv
<1> QED BY <1>2, <1>5 DEF DashInv

LEMMA AccountsArriveKeeps ==
  ASSUME DashInv, NEW t \in 1..Tasks, AccountsArrive(t)
  PROVE  DashInv'
<1>1. PICK c : c = task[t]
  OBVIOUS
<1>2. c # None /\ TaskInv(c) /\ c.got \in {Null} \cup Listing
  BY <1>1, AnsweredFacts DEF AccountsArrive, Place, Answer
<1>3. PICK id : id = IF c.chosen = None /\ c.got # Null THEN c.got[1].id ELSE selectedID
  OBVIOUS
<1>4. id \in Account \cup {None}
  <2>1. CASE c.chosen = None /\ c.got # Null
    <3>1. PICK list \in Seq(Shown) : list = c.got /\ list # <<>>
      BY <1>2, <2>1 DEF Listing
    <3>2. 1 \in 1..Len(list)
      BY <3>1
    <3>3. list[1] \in Shown
      BY <3>2
    <3>4. list[1].id \in Account
      BY <3>3 DEF Shown
    <3> QED BY <1>3, <2>1, <3>1, <3>4
  <2>2. CASE ~(c.chosen = None /\ c.got # Null)
    BY <1>3, <2>2 DEF DashInv, PageInv
  <2> QED BY <2>1, <2>2
<1>5. /\ SetAccounts(c.got, id)
      /\ IF c.got = Null
         THEN task' = Abandoned /\ loading' = FALSE
         ELSE Finish(t) \/ Await(t, "history")
      /\ UNCHANGED <<serverVars, session, history>>
  BY <1>1, <1>3 DEF AccountsArrive
<1>6. TasksInv' /\ FormsInv' /\ loading' \in BOOLEAN
  <2>1. CASE c.got = Null
    BY <1>5, <2>1, AbandonKeeps
  <2>2. CASE c.got # Null /\ Finish(t)
    BY <1>1, <1>2, <2>2, FinishKeeps
  <2>3. CASE c.got # Null /\ Await(t, "history")
    <3>1. TasksInv' /\ Forms' = Forms /\ loading' = loading
      BY <1>1, <1>2, <2>3, AwaitKeeps DEF Place
    <3> QED BY <3>1 DEF DashInv, FormsInv, PageInv
  <2> QED BY <1>5, <2>1, <2>2, <2>3
<1>7. PageInv'
  BY <1>2, <1>4, <1>5, <1>6, SetAccountsKeeps
<1> QED BY <1>6, <1>7 DEF DashInv

LEMMA HistoryArrivesKeeps ==
  ASSUME DashInv, NEW t \in 1..Tasks, HistoryArrives(t)
  PROVE  DashInv'
<1>1. task[t] # None /\ task[t].got \in {Null} \cup ShownHistory
  BY AnsweredFacts DEF HistoryArrives, Place, Answer
<1>2. TasksInv' /\ FormsInv' /\ loading' \in BOOLEAN
  <2>1. CASE task[t].got = Null
    BY <2>1, AbandonKeeps DEF HistoryArrives
  <2>2. CASE task[t].got # Null
    BY <1>1, <2>2, FinishKeeps DEF HistoryArrives
  <2> QED BY <2>1, <2>2
<1>3. PageInv'
  BY <1>1, <1>2 DEF HistoryArrives, serverVars, DashInv, PageInv
<1> QED BY <1>2, <1>3 DEF DashInv

LEMMA AccountCreatedKeeps ==
  ASSUME DashInv, NEW t \in 1..Tasks, AccountCreated(t)
  PROVE  DashInv'
<1>1. /\ task[t] # None /\ TaskInv(task[t]) /\ task[t].at = "create"
      /\ task[t].got \in Account
  BY AnsweredFacts DEF AccountCreated, Place, Answer
<1>2. task[t].as # None
  BY <1>1 DEF AccountCreated, Answered, TaskInv
<1>3. TasksInv' /\ Forms' = Forms /\ loading' = loading
  BY <1>1, <1>2, AwaitKeeps DEF AccountCreated, Place
<1>4. loading' \in BOOLEAN
  BY <1>3 DEF DashInv, PageInv
<1>5. PageInv'
  BY <1>1, <1>4, SetSelectedKeeps DEF AccountCreated
<1> QED BY <1>3, <1>5 DEF DashInv, FormsInv

LEMMA SubmittedKeeps ==
  ASSUME DashInv, NEW t \in 1..Tasks, Submitted(t)
  PROVE  DashInv'
<1>1. task[t] # None /\ TaskInv(task[t]) /\ task[t].at = "post"
  BY AnsweredFacts DEF Submitted, Place
<1>2. task[t].as # None
  BY <1>1 DEF Submitted, Answered, TaskInv
<1>3. TasksInv' /\ Forms' = Forms /\ loading' = loading
  BY <1>1, <1>2, AwaitKeeps DEF Submitted, Place
<1>4. PageInv'
  BY <1>3 DEF Submitted, serverVars, DashInv, PageInv
<1> QED BY <1>3, <1>4 DEF DashInv, FormsInv
-----------------------------------------------------------------------------
\* Timeouts, the stream and the user.

\* A call that is no form's leaves the forms.
LEMMA QuietCallKeeps ==
  ASSUME DashInv, ~crashed, session # None,
         NEW fn \in {"refresh", "load"}, NEW place \in Place,
         Start(Call(fn, place)), loading' = loading
  PROVE  TasksInv' /\ FormsInv'
<1>1. PICK c : c = Call(fn, place)
  OBVIOUS
<1>2. TaskInv(c) /\ c.fn = fn /\ Start(c)
  BY <1>1, CallIsTask
<1>3. TasksInv' /\ Forms' = Forms
  BY <1>2, StartKeeps DEF Submitting
<1> QED BY <1>3 DEF DashInv, FormsInv

\* A form starts only when none is being submitted.
LEMMA FormKeeps ==
  ASSUME DashInv, ~crashed, ~loading,
         NEW fn \in Submitting, NEW place \in {"auth", "create", "post"},
         Start(Call(fn, place)), loading' = TRUE
  PROVE  TasksInv' /\ FormsInv'
<1>1. PICK c : c = Call(fn, place)
  OBVIOUS
<1>2. TaskInv(c) /\ c.fn = fn /\ Start(c)
  BY <1>1, CallIsTask DEF Submitting, Place
<1>3. Forms = {}
  BY DEF DashInv, FormsInv
<1>4. TasksInv' /\ \E t : Forms' = {t}
  BY <1>2, <1>3, StartKeeps
<1> QED BY <1>4 DEF FormsInv

LEMMA FiresKeep ==
  ASSUME DashInv, Fires
  PROVE  DashInv'
<1>1. CASE RefreshFires
  <2>1. session # None
    BY <1>1 DEF RefreshFires, DashInv, PageInv
  <2>2. TasksInv' /\ FormsInv'
    BY <1>1, <2>1, QuietCallKeeps DEF RefreshFires, Place
  <2>3. PageInv'
    BY <1>1 DEF RefreshFires, serverVars, DashInv, PageInv
  <2> QED BY <2>2, <2>3 DEF DashInv
<1>2. CASE LoadFires
  <2>1. TasksInv' /\ FormsInv'
    <3>1. CASE session = None
      BY <1>2, <3>1 DEF LoadFires, DashInv, TasksInv, FormsInv, Forms, TaskInv
    <3>2. CASE session # None
      BY <1>2, <3>2, QuietCallKeeps DEF LoadFires, Place
    <3> QED BY <3>1, <3>2
  <2>2. PageInv'
    BY <1>2 DEF LoadFires, serverVars, DashInv, PageInv
  <2> QED BY <2>1, <2>2 DEF DashInv
<1>3. CASE EventArrives
  <2>1. session # None
    BY <1>3 DEF EventArrives, DashInv, PageInv
  <2>2. TasksInv' /\ FormsInv'
    BY <1>3, <2>1, QuietCallKeeps DEF EventArrives, Place
  <2>3. PageInv'
    BY <1>3 DEF EventArrives, serverVars, DashInv, PageInv
  <2> QED BY <2>2, <2>3 DEF DashInv
<1> QED BY <1>1, <1>2, <1>3 DEF Fires

LEMMA FormsStart ==
  ASSUME DashInv, Submit \/ SignIn \/ NewAccount
  PROVE  DashInv'
<1>1. /\ UNCHANGED <<session, accounts, selectedID, history, refreshTimer, loadTimer,
                     event, crashed, owned, rows>>
      /\ loading' = TRUE /\ ~loading /\ ~crashed
  BY DEF Submit, SignIn, NewAccount, Button, serverVars
<1>2. PageInv'
  BY <1>1 DEF DashInv, PageInv
<1>3. TasksInv' /\ FormsInv'
  BY <1>1, FormKeeps DEF Submit, SignIn, NewAccount, Submitting
<1> QED BY <1>2, <1>3 DEF DashInv

LEMMA RefreshKeeps ==
  ASSUME DashInv, Refresh
  PROVE  DashInv'
<1>1. PageInv'
  BY DEF Refresh, Button, pageVars, serverVars, DashInv, PageInv
<1>2. TasksInv' /\ FormsInv'
  BY QuietCallKeeps DEF Refresh, Button, pageVars, Place
<1> QED BY <1>1, <1>2 DEF DashInv

LEMMA SelectKeeps ==
  ASSUME DashInv, Select
  PROVE  DashInv'
<1>1. PICK i \in DOMAIN accounts : SetSelected(accounts[i].id)
  BY DEF Select
<1>2. accounts[i].id \in Account
  <2>1. accounts \in Seq(Shown)
    BY DEF Select, Button, DashInv, PageInv
  <2>2. accounts[i] \in Shown
    BY <2>1
  <2> QED BY <2>2 DEF Shown
<1>3. PageInv'
  <2>1. UNCHANGED <<serverVars, session, history>> /\ loading' \in BOOLEAN
    BY DEF Select, Button, DashInv, PageInv
  <2> QED BY <1>1, <1>2, <2>1, SetSelectedKeeps
<1>4. TasksInv' /\ FormsInv'
  BY DEF Select, DashInv, TasksInv, FormsInv, Forms, TaskInv
<1> QED BY <1>3, <1>4 DEF DashInv

LEMMA SignOutKeeps ==
  ASSUME DashInv, SignOut
  PROVE  DashInv'
<1>1. <<>> \in Seq(Shown)
  OBVIOUS
<1>2. PageInv'
  BY <1>1 DEF SignOut, Button, serverVars, DashInv, PageInv
<1>3. TasksInv' /\ FormsInv'
  BY DEF SignOut, DashInv, TasksInv, FormsInv, Forms, TaskInv
<1> QED BY <1>2, <1>3 DEF DashInv

LEMMA ReloadKeeps ==
  ASSUME DashInv, Reload
  PROVE  DashInv'
<1>1. <<>> \in Seq(Shown)
  OBVIOUS
<1>2. PageInv'
  BY <1>1 DEF Reload, serverVars, DashInv, PageInv
<1>3. TasksInv' /\ FormsInv'
  BY AbandonKeeps DEF Reload
<1> QED BY <1>2, <1>3 DEF DashInv

LEMMA DashInitInv == Init => DashInv
<1> SUFFICES ASSUME Init
             PROVE  DashInv
  OBVIOUS
<1>1. <<>> \in Seq(Shown)
  OBVIOUS
<1>2. PageInv
  BY <1>1, OwnedAssumption DEF Init, PageInv, OwnedAssumption
<1>3. \A t \in 1..Tasks : task[t] = None
  BY DEF Init
<1>4. TasksInv
  BY <1>3 DEF Init, TasksInv
<1>5. Forms = {}
  BY <1>3 DEF Forms
<1> QED BY <1>2, <1>4, <1>5 DEF Init, DashInv, FormsInv

LEMMA NextKeepsDashInv ==
  ASSUME DashInv, [Next]_dashVars
  PROVE  DashInv'
<1>1. CASE UNCHANGED dashVars
  BY <1>1 DEF dashVars, serverVars, pageVars, DashInv, PageInv, TasksInv, TaskInv,
              FormsInv, Forms
<1>2. ASSUME NEW t \in 1..Tasks, Serve(t) \/ AnswerLost(t) \/ Resume(t)
      PROVE  DashInv'
  BY <1>2, ServeKeeps, AnswerLostKeeps, SignedInKeeps, AccountsArriveKeeps,
     HistoryArrivesKeeps, AccountCreatedKeeps, SubmittedKeeps, GiveUpKeeps DEF Resume
<1>3. CASE Fires \/ \E a \in Account : OthersTransact(a)
  BY <1>3, FiresKeep, OthersTransactKeeps
<1>4. CASE SignIn \/ NewAccount \/ Submit \/ Refresh \/ Select \/ SignOut \/ Reload
  BY <1>4, FormsStart, RefreshKeeps, SelectKeeps, SignOutKeeps, ReloadKeeps
<1> QED BY <1>1, <1>2, <1>3, <1>4 DEF Next

\* The page, its tasks and what they wait for keep their types, and the flag that disables
\* the forms says whether one of them is being submitted.
THEOREM DashInvHolds == Spec => []DashInv
<1>1. DashInv /\ [Next]_dashVars => DashInv'
  BY NextKeepsDashInv
<1> QED BY <1>1, DashInitInv, PTL DEF Spec

\* The page is submitting at most one form, whatever refreshes, sign-outs, sign-ins, lost
\* answers and ends of older submissions come in between, for any number of them; a reload
\* leaves it with none.
THEOREM OneAtATime == Spec => []OneSubmission
<1>1. DashInv => OneSubmission
  <2> SUFFICES ASSUME DashInv
               PROVE  OneSubmission
    OBVIOUS
  <2>1. CASE Forms = {}
    BY <2>1, FS_EmptySet DEF OneSubmission, DashInv, FormsInv
  <2>2. CASE Forms # {}
    <3>1. PICK t : t \in Forms
      BY <2>2
    <3>2. Forms = {t}
      BY <3>1 DEF DashInv, FormsInv
    <3>3. Cardinality({t}) = 1
      BY FS_Singleton
    <3> QED BY <2>2, <3>2, <3>3 DEF OneSubmission, DashInv, FormsInv
  <2> QED BY <2>1, <2>2
<1> QED BY <1>1, DashInvHolds, PTL
=============================================================================
