-------------------------- MODULE AuthClientProofs --------------------------
(* Proofs about AuthClient, for every number of requests under way. *)
EXTENDS AuthClient, TLAPS

LEMMA TargetIsPage ==
  ASSUME NEW p \in Pages, NEW state
  PROVE  Target(p, state) \in Pages
BY DEF Target, Pages, Forms

\* What a navigation leaves behind, whoever asked for it.
LEMMA GoMoves ==
  ASSUME NEW p \in Pages, NEW state, Go(p, state),
         page \in Pages, leaving \subseteq Pages, button \in BOOLEAN
  PROVE  /\ page' \in Pages /\ leaving' \subseteq Pages /\ button' \in BOOLEAN
         /\ page' = Target(p, state)
BY TargetIsPage DEF Go

\* A listener takes the app to its page, or none is called.
LEMMA NotifyMoves ==
  ASSUME NEW state, Notify(state),
         page \in Pages, leaving \subseteq Pages, button \in BOOLEAN
  PROVE  /\ page' \in Pages /\ leaving' \subseteq Pages /\ button' \in BOOLEAN
         /\ \/ page' = page
            \/ \E l \in Listeners : l.state = state /\ page' = Target(l.to, state)
         /\ page = "dashboard" /\ state = "unauthenticated" => page' = "login"
<1>. DEFINE called == {l \in Listeners : /\ l.state = state /\ ~Dropped(state)
                                         /\ l.of \in leaving \cup {page}}
<1>1. \A l \in Listeners : l.to \in Pages
  BY DEF Listeners, Pages, Forms
<1>2. CASE called = {} /\ UNCHANGED <<page, leaving, button>>
  <2>1. ~(page = "dashboard" /\ state = "unauthenticated")
    <3>. SUFFICES ASSUME page = "dashboard", state = "unauthenticated"
                  PROVE  FALSE
      OBVIOUS
    <3>. DEFINE l == [of |-> "dashboard", state |-> "unauthenticated", to |-> "login"]
    <3>1. l \in called
      BY DEF Listeners, Dropped
    <3>. QED
      BY <1>2, <3>1
  <2>. QED
    BY <1>2, <2>1
<1>3. ASSUME NEW l \in called, Go(l.to, state)
      PROVE  /\ page' \in Pages /\ leaving' \subseteq Pages /\ button' \in BOOLEAN
             /\ page' = Target(l.to, state)
  BY <1>1, <1>3, GoMoves
<1>4. ASSUME NEW l \in called, state = "unauthenticated"
      PROVE  Target(l.to, state) = "login"
  BY <1>4 DEF Listeners, Target
<1>. QED
  BY <1>2, <1>3, <1>4 DEF Notify

LEMMA SuccessIsState ==
  ASSUME NEW r \in Forms
  PROVE  /\ Success(r) \in AuthStates \ {"loading", "unauthenticated"}
         /\ Success(r) = "authenticated" <=> r = "login"
BY DEF Success, Forms, AuthStates

\* What an answer does, for any request it belongs to.
LEMMA AnswerEmits ==
  ASSUME TypeOK, NEW s \in Slots, Answer(s)
  PROVE  /\ pending' = [pending EXCEPT ![s] = None]
         /\ auth' \in AuthStates \ {"loading", "unauthenticated"}
         /\ session' \in BOOLEAN
         /\ session => session'
         /\ auth' = "authenticated" => session'
         /\ Notify(auth')
         /\ UNCHANGED closed
<1>1. pending[s] \in Forms
  BY DEF TypeOK, Answer
<1>2. \/ auth' = Success(pending[s]) /\ session' = (session \/ pending[s] = "login")
      \/ auth' = "error" /\ UNCHANGED session
  BY DEF Answer
<1>3. session \in BOOLEAN
  BY DEF TypeOK
<1>4. CASE auth' = Success(pending[s]) /\ session' = (session \/ pending[s] = "login")
  BY <1>1, <1>3, <1>4, SuccessIsState DEF Answer
<1>5. CASE auth' = "error" /\ UNCHANGED session
  BY <1>3, <1>5 DEF Answer, AuthStates
<1>. QED
  BY <1>2, <1>4, <1>5

----------------------------------------------------------------------------
(* Type correctness. *)

LEMMA NextTypeOK ==
  ASSUME TypeOK, [Next]_vars
  PROVE  TypeOK'
<1>. USE DEF TypeOK
<1>1. ASSUME NEW s \in Slots, Submit(s)
      PROVE  TypeOK'
  BY <1>1 DEF Submit, Pages, AuthStates
<1>2. ASSUME NEW s \in Slots, Answer(s)
      PROVE  TypeOK'
  <2>1. page' \in Pages /\ leaving' \subseteq Pages /\ button' \in BOOLEAN
    BY <1>2, AnswerEmits, NotifyMoves
  <2>2. /\ auth' \in AuthStates /\ session' \in BOOLEAN /\ UNCHANGED closed
        /\ pending' = [pending EXCEPT ![s] = None]
    BY <1>2, AnswerEmits
  <2>. QED
    BY <2>1, <2>2
<1>3. CASE Logout
  <2>1. page' \in Pages /\ leaving' \subseteq Pages /\ button' \in BOOLEAN
    BY <1>3, NotifyMoves DEF Logout
  <2>. QED
    BY <1>3, <2>1 DEF Logout, AuthStates
<1>4. ASSUME NEW p \in Pages, Browse(p)
      PROVE  TypeOK'
  <2>1. page' \in Pages /\ leaving' \subseteq Pages /\ button' \in BOOLEAN
    BY <1>4, GoMoves DEF Browse
  <2>. QED
    BY <1>4, <2>1 DEF Browse
<1>5. ASSUME NEW p \in Pages, Unmount(p)
      PROVE  TypeOK'
  BY <1>5 DEF Unmount
<1>6. ASSUME NEW p \in Pages, Reload(p)
      PROVE  TypeOK'
  BY <1>6, TargetIsPage DEF Reload, AuthStates
<1>7. CASE Render
  BY <1>7 DEF Render
<1>8. CASE UNCHANGED vars
  BY <1>8 DEF vars
<1>. QED
  BY <1>1, <1>2, <1>3, <1>4, <1>5, <1>6, <1>7, <1>8 DEF Next

\* Every variable of the client keeps its type and no handler outlives the
\* bloc (auth_bloc.dart:8).
THEOREM TypeCorrect == Spec => []TypeOK
<1>1. Init => TypeOK
  BY TargetIsPage DEF Init, TypeOK, AuthStates
<1>. QED
  BY <1>1, NextTypeOK, PTL DEF Spec

----------------------------------------------------------------------------
(* The dashboard. *)

\* The redirect lets a navigation through to the dashboard on the word of the
\* bloc: that word stands for a session.
SessionBehind == auth = "authenticated" => session

Guarded == DashboardNeedsLogin /\ SessionBehind

LEMMA NextGuarded ==
  ASSUME TypeOK, Guarded, [Next]_vars
  PROVE  Guarded'
<1>. USE DEF Guarded, DashboardNeedsLogin, SessionBehind
<1>1. ASSUME NEW s \in Slots, Submit(s)
      PROVE  Guarded'
  BY <1>1 DEF Submit
<1>2. ASSUME NEW s \in Slots, Answer(s)
      PROVE  Guarded'
  <2>1. (auth' = "authenticated" => session') /\ (session => session')
    BY <1>2, AnswerEmits
  <2>2. \/ page' = page
        \/ \E l \in Listeners : page' = Target(l.to, auth')
    BY <1>2, AnswerEmits, NotifyMoves DEF TypeOK
  <2>3. page' = "dashboard" => page = "dashboard" \/ auth' = "authenticated"
    BY <2>2 DEF Target
  <2>. QED
    BY <2>1, <2>3
<1>3. CASE Logout
  <2>1. page' = "login"
    BY <1>3, NotifyMoves DEF Logout, TypeOK
  <2>. QED
    BY <1>3, <2>1 DEF Logout
<1>4. ASSUME NEW p \in Pages, Browse(p)
      PROVE  Guarded'
  <2>1. page' = Target(p, auth) /\ UNCHANGED <<auth, session>>
    BY <1>4, GoMoves DEF Browse, TypeOK
  <2>. QED
    BY <2>1 DEF Target
<1>5. ASSUME NEW p \in Pages, Unmount(p)
      PROVE  Guarded'
  BY <1>5 DEF Unmount
<1>6. ASSUME NEW p \in Pages, Reload(p)
      PROVE  Guarded'
  BY <1>6 DEF Reload, Target
<1>7. CASE Render
  BY <1>7 DEF Render
<1>8. CASE UNCHANGED vars
  BY <1>8 DEF vars
<1>. QED
  BY <1>1, <1>2, <1>3, <1>4, <1>5, <1>6, <1>7, <1>8 DEF Next

\* The dashboard is shown only after a login that was answered ok, and not
\* after a logout (app_router.dart:59): whatever answers come late and however
\* the user navigates meanwhile.
THEOREM DashboardIsGuarded == Spec => []DashboardNeedsLogin
<1>1. Init => Guarded
  BY DEF Init, Target, Guarded, DashboardNeedsLogin, SessionBehind
<1>2. Guarded => DashboardNeedsLogin
  BY DEF Guarded
<1>. QED
  BY <1>1, <1>2, NextGuarded, TypeCorrect, PTL DEF Spec

----------------------------------------------------------------------------
(* Spinners. *)

LEMMA NextWaits ==
  ASSUME TypeOK, SpinnerMeansWaiting, [Next]_vars
  PROVE  SpinnerMeansWaiting'
<1>. USE DEF SpinnerMeansWaiting
<1>1. ASSUME NEW s \in Slots, Submit(s)
      PROVE  SpinnerMeansWaiting'
  <2>1. pending'[s] # None
    BY <1>1, NoneAssumption DEF Submit, TypeOK
  <2>. QED
    BY <2>1
<1>2. ASSUME NEW s \in Slots, Answer(s)
      PROVE  SpinnerMeansWaiting'
  BY <1>2, AnswerEmits
<1>3. CASE Logout
  BY <1>3 DEF Logout
<1>4. ASSUME NEW p \in Pages, Browse(p)
      PROVE  SpinnerMeansWaiting'
  BY <1>4 DEF Browse
<1>5. ASSUME NEW p \in Pages, Unmount(p)
      PROVE  SpinnerMeansWaiting'
  BY <1>5 DEF Unmount
<1>6. ASSUME NEW p \in Pages, Reload(p)
      PROVE  SpinnerMeansWaiting'
  BY <1>6 DEF Reload
<1>7. CASE Render
  BY <1>7 DEF Render
<1>8. CASE UNCHANGED vars
  BY <1>8 DEF vars
<1>. QED
  BY <1>1, <1>2, <1>3, <1>4, <1>5, <1>6, <1>7, <1>8 DEF Next

\* A bloc that is open and shows a spinner waits for an answer, although
\* several requests may be under way and answered in any order
\* (auth_bloc.dart:24-39).
THEOREM SpinnersWait == Spec => []SpinnerMeansWaiting
<1>1. Init => SpinnerMeansWaiting
  BY DEF Init, SpinnerMeansWaiting
<1>. QED
  BY <1>1, NextWaits, TypeCorrect, PTL DEF Spec
=============================================================================
