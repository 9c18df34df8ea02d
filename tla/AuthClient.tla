----------------------------- MODULE AuthClient -----------------------------
(***************************************************************************)
(* The Flutter client around AuthBloc: one bloc for the life of the app    *)
(* (auth_bloc.dart:7), the pages that use it, and the router               *)
(* (app_router.dart).                                                      *)
(*                                                                         *)
(* Dart runs one callback at a time.  A step is a callback with the        *)
(* microtasks it leaves behind: the bloc takes the event, emits, and the   *)
(* listeners of the mounted pages are called.  A handler then waits for    *)
(* the server.  A page that was left stays mounted while its route is      *)
(* animated away; the BlocProvider of a form page closes the bloc when the *)
(* page is unmounted, and a closed bloc refuses events and drops what its  *)
(* handlers emit.                                                          *)
(***************************************************************************)
EXTENDS Naturals

CONSTANTS
  Slots,  \* bound on requests under way
  None

VARIABLES
  page,     \* the page the router shows
  leaving,  \* pages left but not yet unmounted
  auth,     \* AuthBloc.state
  closed,   \* AuthBloc.isClosed
  pending,  \* slot -> the request a handler of the bloc waits for
  button,   \* the submit button of the page, as last built
  session   \* history: a login was answered ok, and no logout came after

vars == <<page, leaving, auth, closed, pending, button, session>>

Forms == {"login", "register", "forgot", "reset"}
Pages == Forms \cup {"dashboard"}

ASSUME NoneAssumption == None \notin Forms

----------------------------------------------------------------------------
(* Navigation. *)

\* Mutated form: the route has no redirect.
Unguarded(p, state) == p

\* The redirect of /dashboard.
Target(p, state) ==
  IF p = "dashboard" /\ state # "authenticated" THEN "login" ELSE p

\* context.go while the bloc is in the given state: a page that is shown
\* already stays, another is built anew.
Go(p, state) ==
  LET q == Target(p, state)
  IN  IF q = page THEN UNCHANGED <<page, leaving, button>>
      ELSE /\ page' = q
           /\ leaving' = leaving \cup {page}
           /\ button' = (state # "loading")

\* Where the BlocListener of a page takes the app on a state.
Listeners ==
  {[of |-> "login", state |-> "authenticated", to |-> "dashboard"],
   [of |-> "register", state |-> "signedUp", to |-> "login"],
   [of |-> "reset", state |-> "resetDone", to |-> "login"],
   [of |-> "dashboard", state |-> "unauthenticated", to |-> "login"]}

\* The bloc drops a state equal to its own.  Of those with a listener only this
\* one can be: the others carry a new token or user, or leave the page.
Dropped(state) == state = "resetDone" /\ auth = "resetDone"

\* Pages that are being left still listen.
Notify(state) ==
  LET called == {l \in Listeners : /\ l.state = state /\ ~Dropped(state)
                                   /\ l.of \in leaving \cup {page}}
  IN  \/ called = {} /\ UNCHANGED <<page, leaving, button>>
      \/ \E l \in called : Go(l.to, state)

----------------------------------------------------------------------------
(* The bloc. *)

\* What the handler of a request emits when the server answers ok.
Success(request) ==
  CASE request = "login" -> "authenticated"
    [] request = "register" -> "signedUp"
    [] request = "forgot" -> "resetSent"
    [] request = "reset" -> "resetDone"

\* The button of the page is pressed.  A closed bloc throws in the callback,
\* and nothing happens.
Submit(s) ==
  /\ page \in Forms /\ button
  /\ ~closed
  /\ pending[s] = None
  /\ pending' = [pending EXCEPT ![s] = page]
  /\ auth' = "loading"
  /\ UNCHANGED <<page, leaving, closed, button, session>>

\* Mutated form: the handler does not catch what the repository throws.
AnswerUncaught(s) ==
  /\ pending[s] # None
  /\ pending' = [pending EXCEPT ![s] = None]
  /\ \/ auth' = Success(pending[s]) /\ session' = (session \/ pending[s] = "login")
     \/ UNCHANGED <<auth, session>>
  /\ Notify(auth')
  /\ UNCHANGED closed

\* The server answers, or the call fails.
Answer(s) ==
  /\ pending[s] # None
  /\ pending' = [pending EXCEPT ![s] = None]
  /\ \/ auth' = Success(pending[s]) /\ session' = (session \/ pending[s] = "login")
     \/ auth' = "error" /\ UNCHANGED session
  /\ Notify(auth')
  /\ UNCHANGED closed

Logout ==
  /\ page = "dashboard"
  /\ ~closed
  /\ auth' = "unauthenticated"
  /\ session' = FALSE
  /\ Notify(auth')
  /\ UNCHANGED <<closed, pending>>

----------------------------------------------------------------------------
(* Around the bloc. *)

\* A link of the page, or the back button of the browser.
Browse(p) ==
  /\ p # page
  /\ Go(p, auth)
  /\ UNCHANGED <<auth, closed, pending, session>>

\* BlocBuilder builds the button for the state of the bloc.
Render ==
  /\ button' = (auth # "loading")
  /\ UNCHANGED <<page, leaving, auth, closed, pending, session>>

\* Mutated form: the handlers of a closed bloc run on.
UnmountOnly(p) ==
  /\ p \in leaving
  /\ leaving' = leaving \ {p}
  /\ closed' = (closed \/ p \in Forms)
  /\ UNCHANGED <<page, auth, pending, button, session>>

\* The dashboard is given the bloc as a value and does not close it.
Unmount(p) ==
  /\ p \in leaving
  /\ leaving' = leaving \ {p}
  /\ IF p \in Forms
       THEN closed' = TRUE /\ pending' = [s \in Slots |-> None]
       ELSE UNCHANGED <<closed, pending>>
  /\ UNCHANGED <<page, auth, button, session>>

\* The browser loads the app again, at any address.
Reload(p) ==
  /\ page' = Target(p, "initial")
  /\ leaving' = {}
  /\ auth' = "initial"
  /\ closed' = FALSE
  /\ pending' = [s \in Slots |-> None]
  /\ button' = TRUE
  /\ session' = FALSE

Init ==
  /\ page \in {Target(p, "initial") : p \in Pages}
  /\ leaving = {}
  /\ auth = "initial"
  /\ closed = FALSE
  /\ pending = [s \in Slots |-> None]
  /\ button = TRUE
  /\ session = FALSE

Next ==
  \/ \E s \in Slots : Submit(s) \/ Answer(s)
  \/ Logout
  \/ \E p \in Pages : Browse(p) \/ Unmount(p) \/ Reload(p)
  \/ Render

Spec == Init /\ [][Next]_vars

\* Frames are drawn, and animations run to their end.  No call need end: the
\* client sets no deadline (grpc_client.dart:8), the proxy none
\* (envoy.yaml:34), and a handler may hang (module Server).
Fairness ==
  /\ WF_vars(Render)
  /\ \A p \in Pages : WF_vars(Unmount(p))

FairSpec == Spec /\ Fairness

----------------------------------------------------------------------------
(* Properties *)

AuthStates ==
  {"initial", "loading", "authenticated", "unauthenticated", "error",
   "signedUp", "resetSent", "resetDone"}

\* Every variable has its type, and no handler outlives the bloc.
TypeOK ==
  /\ page \in Pages /\ leaving \subseteq Pages
  /\ auth \in AuthStates
  /\ closed \in BOOLEAN /\ button \in BOOLEAN /\ session \in BOOLEAN
  /\ pending \in [Slots -> Forms \cup {None}]
  /\ closed => \A s \in Slots : pending[s] = None

\* However requests, late answers and navigation interleave, the dashboard is
\* shown only after a login that was answered ok, and not after a logout
\* (app_router.dart:59, dashboard_scaffold.dart:44).
DashboardNeedsLogin == page = "dashboard" => session

\* The bloc that shows a spinner waits for an answer (auth_bloc.dart:24-39).
SpinnerMeansWaiting ==
  ~closed /\ auth = "loading" => \E s \in Slots : pending[s] # None

\* The server never answers the request of a slot.
Hangs(s) == <>[](pending[s] # None)

\* The button of a form that was disabled for a request (login_page.dart:320)
\* comes back, whatever else the user did meanwhile and however the request
\* ended, or the bloc was closed under the page, unless a request never ends:
\* then nothing gives the button back.
ButtonComesBack ==
  (\A s \in Slots : ~Hangs(s)) =>
    (page \in Forms /\ ~button ~> button \/ closed)

\* "Account created! Please sign in." (register_page.dart:105), "Please login
\* with your new password." (reset_password_page.dart:97): the login page,
\* once the page before it is gone, takes a sign-in.
PleaseSignIn == page = "login" /\ leaving = {} => ~closed
=============================================================================
