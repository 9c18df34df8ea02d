--------------------------- MODULE Notifications ---------------------------
(***************************************************************************)
(* The notifications of the client's dashboard                             *)
(* (frontend/lib/features/dashboard): a cubit for each DashboardScaffold   *)
(* that is mounted, over the one data source of the app, a mock that holds *)
(* the list and answers after a delay.                                     *)
(*                                                                         *)
(* Dart runs a timer, and what waits for it, to the end before the next    *)
(* one: an answer changes the list of the source and what the cubit shows  *)
(* in one step.  Which of two timers ends first is decided by when they    *)
(* began and by their delays.                                              *)
(***************************************************************************)
EXTENDS Naturals, FiniteSets

CONSTANTS
  Items,          \* notifications
  InitiallyRead,  \* those that are read when the app is loaded
  Scaffolds,      \* dashboards that may be mounted, or waited for, at once
  None

ASSUME NotificationsAssumption ==
  IsFiniteSet(Items) /\ InitiallyRead \subseteq Items /\ None \notin Scaffolds

VARIABLES
  read,     \* the items the data source holds as read
  cubit,    \* see Fresh
  current,  \* the scaffold the user looks at
  popup,    \* the unread items of an open popup, as they were when it opened
  asked     \* history: items the user has tapped

vars == <<read, cubit, current, popup, asked>>

\* open: not closed; loading: waits for the list; before: marks under way since
\* before that; marks: waits for these; loaded, items, unread: what it shows, of
\* the items those that are read.
Cubits ==
  [open : BOOLEAN, loading : BOOLEAN, loaded : BOOLEAN, marks : SUBSET Items,
   before : SUBSET (Scaffolds \X Items), items : SUBSET Items,
   unread : 0..Cardinality(Items)]

Unused ==
  [open |-> FALSE, loading |-> FALSE, loaded |-> FALSE, marks |-> {},
   before |-> {}, items |-> {}, unread |-> 0]

UnderWay == {m \in Scaffolds \X Items : m[2] \in cubit[m[1]].marks}

Waits(s) == cubit[s].loading \/ cubit[s].marks # {}

Init ==
  /\ read = InitiallyRead
  /\ cubit = [s \in Scaffolds |-> Unused]
  /\ current = None /\ popup = None
  /\ asked = {}
----------------------------------------------------------------------------
(* A scaffold comes and goes *)

\* Mutated form: nobody calls loadNotifications.
MountIdle(s) ==
  /\ current = None /\ ~cubit[s].open /\ ~Waits(s)
  /\ cubit' = [cubit EXCEPT ![s] = [Unused EXCEPT !.open = TRUE]]
  /\ current' = s
  /\ UNCHANGED <<read, popup, asked>>

\* The user signs in: a new cubit, which loads at once.
Mount(s) ==
  /\ current = None /\ ~cubit[s].open /\ ~Waits(s)
  /\ cubit' = [cubit EXCEPT ![s] =
       [Unused EXCEPT !.open = TRUE, !.loading = TRUE, !.before = UnderWay]]
  /\ current' = s
  /\ UNCHANGED <<read, popup, asked>>

\* Mutated form: the popup stays.
LeaveOnly ==
  /\ current # None
  /\ current' = None
  /\ UNCHANGED <<read, cubit, popup, asked>>

\* A logout, or a page outside the dashboard; the popup goes as well.
Leave ==
  /\ current # None
  /\ current' = None /\ popup' = None
  /\ UNCHANGED <<read, cubit, asked>>

\* Mutated form: what the cubit waits for is given up with it.
UnmountCancels(s) ==
  /\ cubit[s].open /\ s # current
  /\ cubit' = [v \in Scaffolds |->
       [(IF v = s THEN Unused ELSE cubit[v])
          EXCEPT !.before = {m \in @ : m[1] # s}]]
  /\ UNCHANGED <<read, current, popup, asked>>

\* The animation ends and BlocProvider closes the cubit; its timers run on.
Unmount(s) ==
  /\ cubit[s].open /\ s # current
  /\ cubit' = [cubit EXCEPT ![s].open = FALSE]
  /\ UNCHANGED <<read, current, popup, asked>>

\* The browser loads the app again.
Reload ==
  /\ read' = InitiallyRead
  /\ cubit' = [s \in Scaffolds |-> Unused]
  /\ current' = None /\ popup' = None /\ asked' = {}
----------------------------------------------------------------------------
(* The bell *)

OpenPopup ==
  /\ current # None /\ popup = None
  /\ popup' = IF cubit[current].loaded
              THEN Items \ cubit[current].items ELSE {}
  /\ UNCHANGED <<read, cubit, current, asked>>

\* A tap closes the popup.  A second tap on an item whose mark is under way
\* marks what will be marked, and is left out.
Tap(i) ==
  /\ popup # None /\ i \in popup
  /\ popup' = None
  /\ cubit' = [cubit EXCEPT ![current].marks = @ \cup {i}]
  /\ asked' = asked \cup {i}
  /\ UNCHANGED <<read, current>>

\* A tap on an item that is read, or beside the popup.
ClosePopup ==
  /\ popup # None /\ popup' = None
  /\ UNCHANGED <<read, cubit, current, asked>>
----------------------------------------------------------------------------
(* Answers.  A closed cubit emits nothing: emit throws, in the catch clause  *)
(* as well, and nobody catches that.                                         *)

Count(items) == Cardinality(Items \ items)

\* Mutated form: one less, without looking at the list.
RecountByOne(r, i) ==
  [r EXCEPT !.items = @ \cup {i}, !.unread = IF @ = 0 THEN 0 ELSE @ - 1]

\* The cubit takes its list as it is now, not as it was before the await.
Recount(r, i) ==
  [r EXCEPT !.items = @ \cup {i}, !.unread = Count(r.items \cup {i})]

MarkEnds(s, i) ==
  /\ i \in cubit[s].marks
  /\ read' = read \cup {i}
  /\ cubit' = [v \in Scaffolds |->
       LET r == IF v = s /\ cubit[s].open THEN Recount(cubit[s], i) ELSE cubit[v]
       IN  [r EXCEPT !.marks = IF v = s THEN @ \ {i} ELSE @,
                     !.before = @ \ {<<s, i>>}]]
  /\ UNCHANGED <<current, popup, asked>>

\* 200 ms for a mark, 300 ms for the list: marks that began first end first.
LoadDue(s) == cubit[s].loading /\ cubit[s].before = {}

LoadEnds(s) ==
  /\ LoadDue(s)
  /\ cubit' = [cubit EXCEPT ![s] =
       IF cubit[s].open
       THEN [@ EXCEPT !.loading = FALSE, !.loaded = TRUE, !.items = read,
                      !.unread = Count(read)]
       ELSE [@ EXCEPT !.loading = FALSE]]
  /\ UNCHANGED <<read, current, popup, asked>>
----------------------------------------------------------------------------
Next ==
  \/ Leave \/ Reload \/ OpenPopup \/ ClosePopup
  \/ \E s \in Scaffolds : Mount(s) \/ Unmount(s) \/ LoadEnds(s)
  \/ \E i \in Items : Tap(i)
  \/ \E s \in Scaffolds, i \in Items : MarkEnds(s, i)

Spec == Init /\ [][Next]_vars

\* Timers run out.  Users and animations owe nothing.
Fairness ==
  /\ \A s \in Scaffolds : WF_vars(LoadEnds(s))
  /\ \A s \in Scaffolds, i \in Items : WF_vars(MarkEnds(s, i))

FairSpec == Spec /\ Fairness
----------------------------------------------------------------------------
(* Properties *)

\* Types; the scaffold somebody looks at has an open cubit, and a popup
\* belongs to it and offers no item that is not there.
TypeOK ==
  /\ read \in SUBSET Items /\ InitiallyRead \subseteq read
  /\ cubit \in [Scaffolds -> Cubits]
  /\ current \in Scaffolds \cup {None} /\ asked \in SUBSET Items
  /\ current # None => cubit[current].open
  /\ popup # None => current # None /\ popup \in SUBSET Items
  /\ \A s \in Scaffolds : cubit[s].before \subseteq UnderWay

\* Of every dashboard that is still mounted the badge counts the unread items of
\* its list, and the list shows nothing as read that is not; the list of the one
\* in front is that of the data source: marks under way at once, in it or in one
\* left behind (notifications_cubit.dart:32-48), neither undo nor miss each
\* other.
BadgeTells ==
  \A s \in Scaffolds :
    cubit[s].open /\ cubit[s].loaded =>
      /\ cubit[s].unread = Cardinality(Items \ cubit[s].items)
      /\ s = current => cubit[s].items = read
      /\ cubit[s].items \subseteq read

\* Nothing the user waits for is dropped: an item that was tapped is read, or
\* its mark is under way, in a dashboard left behind perhaps; and the dashboard
\* in front has its list, or the one load it sends (dashboard_scaffold.dart:39)
\* is under way.
NothingDropped ==
  /\ \A i \in asked : i \in read \/ \E s \in Scaffolds : i \in cubit[s].marks
  /\ current # None => cubit[current].loaded \/ cubit[current].loading

\* An item that was tapped becomes read, even if its dashboard is left, and
\* its cubit closed, while the mark is under way (notifications_cubit.dart:34).
TapsArrive == \A i \in Items : i \in asked ~> i \in read \/ i \notin asked

\* Who stays on a dashboard gets to see the list, whatever timers of this and
\* of other dashboards are under way (dashboard_scaffold.dart:39).
ListArrives ==
  \A s \in Scaffolds : current = s ~> cubit[s].loaded \/ current # s
=============================================================================
