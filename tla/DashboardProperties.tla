------------------------- MODULE DashboardProperties -------------------------
(***************************************************************************)
(* What the page promises its user, whatever answers overtake each other.  *)
(***************************************************************************)
EXTENDS Dashboard, FiniteSets

Forms == {t \in 1..Tasks : task[t] # None /\ task[t].fn \in Submitting}

\* One flag for three forms: the page is submitting at most one of them at a time, and the
\* flag is up exactly while it is, although refreshes, sign-outs and the ends of older
\* submissions come in between.  A page that is loaded again has forgotten what it was
\* submitting, and may submit it again: a post left behind by a reload is no form.
OneSubmission == Cardinality(Forms) <= 1 /\ (loading <=> Forms # {})

\* The services' and the page's variables have values of their types, a page that has not
\* crashed has a list, and its effects are set only with a token.
PageInv ==
  /\ owned \in [User -> Seq(Account)] /\ rows \in [Account -> Nat]
  /\ session \in User \cup {None}
  /\ accounts \in Seq(Shown) \cup {Null}
  /\ ~crashed => accounts \in Seq(Shown)
  /\ selectedID \in Account \cup {None}
  /\ history \in ShownHistory \cup {None, Null}
  /\ loading \in BOOLEAN /\ loadTimer \in BOOLEAN /\ crashed \in BOOLEAN
  /\ refreshTimer \in BOOLEAN /\ event \in BOOLEAN
  /\ refreshTimer \/ event => session # None

\* A task waits at a place for an answer that fits it, and only who has a token is
\* answered anything but an error about accounts.
TaskInv(c) ==
  /\ c.at \in Place /\ c \in TaskAt(c.at)
  /\ c.at = "accounts" => c.as # None
  /\ c.at \in {"post", "create"} /\ c.got \notin {Pending, Failed} => c.as # None

TasksInv ==
  /\ task = [t \in 1..Tasks |-> task[t]]
  /\ \A t \in 1..Tasks : task[t] # None => TaskInv(task[t])

FormsInv ==
  /\ \A t, u \in Forms : t = u
  /\ loading <=> Forms # {}

\* The inductive invariant behind OneSubmission.
DashInv == PageInv /\ TasksInv /\ FormsInv

\* The page shows its user's accounts as they are, and the history of the selected one.
Fresh ==
  /\ accounts = Listed(session)
  /\ history = [account |-> selectedAccount, rows |-> rows[selectedAccount]]

\* When the user and the ledger have come to rest, and no answer was lost, the page comes
\* to show its user what is in the ledger, although answers for an account that is no
\* longer selected, or for a user who has signed out since, may arrive last, and although
\* events are lost whenever the stream is opened anew.  What a page without a session
\* shows, which may be a late answer for the user who has left, is not called wrong.
ComesToShowTheLedger ==
  <>[](session = None \/ disturbed \/ crashed \/ Fresh)

\* page.tsx:411 (and :552 for transactions): a user without accounts is told "Create an
\* account to begin ledger operations.": rendering an empty list does not throw.
EmptyListsAreShown == ~crashed
=============================================================================
