------------------------ MODULE NotificationsProofs ------------------------
(***************************************************************************)
(* The badge tells the truth, for every list of notifications and any      *)
(* number of dashboards, whatever marks and loads are under way at once.   *)
(***************************************************************************)
EXTENDS Notifications, FiniteSetTheorems, TLAPS

(***************************************************************************)
(* BadgeTells is not inductive: of a dashboard that waits for the list it  *)
(* says nothing, and the list may arrive before marks that dashboards left *)
(* behind have under way.  What keeps the two in order is the delay: the   *)
(* marks of others that the dashboard in front has to reckon with began    *)
(* before its load, so it waits for them; once the list is there, none of  *)
(* them is left.                                                           *)
(***************************************************************************)
OthersReckoned ==
  \A s \in Scaffolds : s = current =>
    \A v \in Scaffolds \ {s} :
      IF cubit[s].loaded THEN cubit[v].marks = {}
      ELSE \A i \in cubit[v].marks : <<v, i>> \in cubit[s].before

Inv == TypeOK /\ BadgeTells /\ OthersReckoned
----------------------------------------------------------------------------
(* Lemmas about counting and about marks under way. *)

\* How many items are unread is a number the badge has room for.
LEMMA CountTyped ==
  ASSUME NEW items \in SUBSET Items
  PROVE  Count(items) \in 0..Cardinality(Items)
<1>1. IsFiniteSet(Items) /\ Items \ items \in SUBSET Items
  BY NotificationsAssumption
<1>2. IsFiniteSet(Items \ items) /\ Cardinality(Items \ items) <= Cardinality(Items)
  BY <1>1, FS_Subset
<1>3. Cardinality(Items) \in Nat /\ Cardinality(Items \ items) \in Nat
  BY <1>1, <1>2, FS_CardinalityType
<1>. QED
  BY <1>2, <1>3 DEF Count

LEMMA UnusedTyped == Unused \in Cubits
<1>1. Cardinality(Items) \in Nat
  BY NotificationsAssumption, FS_CardinalityType
<1>. QED
  BY <1>1 DEF Unused, Cubits

\* A mark is under way when the cubit that sent it waits for it.
LEMMA UnderWayMeans ==
  /\ UnderWay \subseteq Scaffolds \X Items
  /\ \A v \in Scaffolds, i \in Items : <<v, i>> \in UnderWay <=> i \in cubit[v].marks
BY DEF UnderWay
----------------------------------------------------------------------------
(* What an answer does to each of the cubits. *)

MarkEffect(v, s, i) ==
  /\ cubit'[v] \in Cubits
  /\ cubit'[v].open = cubit[v].open /\ cubit'[v].loaded = cubit[v].loaded
  /\ cubit'[v].loading = cubit[v].loading
  /\ cubit'[v].marks = IF v = s THEN cubit[v].marks \ {i} ELSE cubit[v].marks
  /\ cubit'[v].before = cubit[v].before \ {<<s, i>>}
  /\ IF v = s /\ cubit[v].open
     THEN /\ cubit'[v].items = cubit[v].items \cup {i}
          /\ cubit'[v].unread = Count(cubit[v].items \cup {i})
     ELSE /\ cubit'[v].items = cubit[v].items
          /\ cubit'[v].unread = cubit[v].unread

LEMMA MarkEndsMeans ==
  ASSUME TypeOK, NEW s \in Scaffolds, NEW i \in Items, MarkEnds(s, i),
         NEW v \in Scaffolds
  PROVE  MarkEffect(v, s, i)
<1>. USE DEF MarkEffect
<1>1. cubit[v] \in Cubits
  BY DEF TypeOK
<1>2. Count(cubit[v].items \cup {i}) \in 0..Cardinality(Items)
  BY <1>1, CountTyped DEF Cubits
<1>3. CASE v = s /\ cubit[v].open
  BY <1>1, <1>2, <1>3 DEF MarkEnds, Recount, Cubits
<1>4. CASE ~(v = s /\ cubit[v].open)
  BY <1>1, <1>4 DEF MarkEnds, Cubits
<1>. QED
  BY <1>3, <1>4

LoadEffect(v, s) ==
  /\ cubit'[v] \in Cubits
  /\ cubit'[v].open = cubit[v].open /\ cubit'[v].marks = cubit[v].marks
  /\ cubit'[v].before = cubit[v].before
  /\ v # s => cubit'[v].loading = cubit[v].loading
  /\ IF v = s /\ cubit[v].open
     THEN /\ cubit'[v].loaded /\ cubit'[v].items = read
          /\ cubit'[v].unread = Count(read)
     ELSE /\ cubit'[v].loaded = cubit[v].loaded
          /\ cubit'[v].items = cubit[v].items
          /\ cubit'[v].unread = cubit[v].unread

LEMMA LoadEndsMeans ==
  ASSUME TypeOK, NEW s \in Scaffolds, LoadEnds(s), NEW v \in Scaffolds
  PROVE  LoadEffect(v, s)
<1>. USE DEF LoadEffect
<1>1. cubit[v] \in Cubits /\ read \in SUBSET Items
  BY DEF TypeOK
<1>2. Count(read) \in 0..Cardinality(Items)
  BY <1>1, CountTyped
<1>3. CASE v = s /\ cubit[v].open
  BY <1>1, <1>2, <1>3 DEF LoadEnds, Cubits, TypeOK
<1>4. CASE ~(v = s /\ cubit[v].open)
  BY <1>1, <1>4 DEF LoadEnds, Cubits, TypeOK
<1>. QED
  BY <1>3, <1>4
----------------------------------------------------------------------------
(* Every action keeps the invariant. *)

LEMMA InitHolds == Init => Inv
<1>. SUFFICES ASSUME Init PROVE Inv
  OBVIOUS
<1>1. TypeOK
  BY UnusedTyped, NotificationsAssumption DEF Init, TypeOK, Unused, UnderWay
<1>. QED
  BY <1>1, NotificationsAssumption
     DEF Init, Inv, BadgeTells, OthersReckoned, Unused

LEMMA MountKeeps ==
  ASSUME Inv, NEW s \in Scaffolds, Mount(s)
  PROVE  Inv'
<1>. DEFINE fresh == [Unused EXCEPT !.open = TRUE, !.loading = TRUE,
                                    !.before = UnderWay]
<1>. USE DEF Inv
<1>1. /\ fresh \in Cubits
      /\ fresh.open /\ ~fresh.loaded /\ fresh.marks = {} /\ fresh.before = UnderWay
  BY UnusedTyped, UnderWayMeans DEF Unused, Cubits
<1>2. cubit' = [cubit EXCEPT ![s] = fresh] /\ cubit' \in [Scaffolds -> Cubits]
  BY <1>1 DEF Mount, TypeOK
<1>. HIDE DEF fresh
<1>3. \A v \in Scaffolds : cubit'[v].marks = cubit[v].marks
  BY <1>1, <1>2 DEF Mount, TypeOK, Waits
<1>4. UnderWay' = UnderWay
  BY <1>3 DEF UnderWay
<1>5. TypeOK'
  BY <1>1, <1>2, <1>4 DEF Mount, TypeOK
<1>6. BadgeTells'
  BY <1>1, <1>2 DEF Mount, BadgeTells, TypeOK
<1>7. OthersReckoned'
  <2>1. ASSUME NEW v \in Scaffolds, NEW i \in cubit[v].marks
        PROVE  <<v, i>> \in UnderWay
    BY <2>1, UnderWayMeans DEF TypeOK, Cubits
  <2>. QED
    BY <1>1, <1>2, <1>3, <2>1 DEF Mount, OthersReckoned, TypeOK
<1>. QED
  BY <1>5, <1>6, <1>7

LEMMA LeaveKeeps ==
  ASSUME Inv, Leave
  PROVE  Inv'
<1>1. UnderWay' = UnderWay
  BY DEF Leave, UnderWay
<1>. QED
  BY <1>1, NotificationsAssumption
     DEF Inv, Leave, TypeOK, BadgeTells, OthersReckoned

LEMMA UnmountKeeps ==
  ASSUME Inv, NEW s \in Scaffolds, Unmount(s)
  PROVE  Inv'
<1>1. /\ cubit' \in [Scaffolds -> Cubits]
      /\ \A v \in Scaffolds :
           /\ cubit'[v].marks = cubit[v].marks /\ cubit'[v].before = cubit[v].before
           /\ cubit'[v].loaded = cubit[v].loaded
           /\ cubit'[v].items = cubit[v].items /\ cubit'[v].unread = cubit[v].unread
           /\ cubit'[v].open => cubit[v].open
           /\ v # s => cubit'[v] = cubit[v]
  BY DEF Inv, Unmount, TypeOK, Cubits
<1>2. UnderWay' = UnderWay
  BY <1>1 DEF UnderWay
<1>. QED
  BY <1>1, <1>2 DEF Inv, Unmount, TypeOK, BadgeTells, OthersReckoned

LEMMA ReloadKeeps ==
  ASSUME Inv, Reload
  PROVE  Inv'
<1>1. TypeOK'
  BY UnusedTyped, NotificationsAssumption DEF Reload, TypeOK, Unused, UnderWay
<1>. QED
  BY <1>1, NotificationsAssumption
     DEF Inv, Reload, BadgeTells, OthersReckoned, Unused

\* The popup offers the unread items of a list that is there.
LEMMA BellKeeps ==
  ASSUME Inv, OpenPopup \/ ClosePopup
  PROVE  Inv'
<1>1. UnderWay' = UnderWay
  BY DEF OpenPopup, ClosePopup, UnderWay
<1>2. TypeOK'
  BY <1>1 DEF Inv, OpenPopup, ClosePopup, TypeOK
<1>. QED
  BY <1>2 DEF Inv, OpenPopup, ClosePopup, BadgeTells, OthersReckoned

\* A tap is a mark of the dashboard in front, which is none of the others.
LEMMA TapKeeps ==
  ASSUME Inv, NEW i \in Items, Tap(i)
  PROVE  Inv'
<1>1. current \in Scaffolds
  BY DEF Inv, Tap, TypeOK
<1>2. /\ cubit' \in [Scaffolds -> Cubits]
      /\ \A v \in Scaffolds :
           /\ cubit[v].marks \subseteq cubit'[v].marks
           /\ cubit'[v].before = cubit[v].before
           /\ cubit'[v].loaded = cubit[v].loaded
           /\ cubit'[v].items = cubit[v].items /\ cubit'[v].unread = cubit[v].unread
           /\ cubit'[v].open = cubit[v].open
           /\ v # current => cubit'[v] = cubit[v]
  BY <1>1 DEF Inv, Tap, TypeOK, Cubits
<1>3. UnderWay \subseteq UnderWay'
  BY <1>2 DEF UnderWay
<1>4. TypeOK'
  BY <1>2, <1>3 DEF Inv, Tap, TypeOK
<1>5. BadgeTells'
  BY <1>2 DEF Inv, Tap, BadgeTells
<1>6. OthersReckoned'
  <2>. SUFFICES ASSUME NEW v \in Scaffolds \ {current}
                PROVE  IF cubit'[current].loaded THEN cubit'[v].marks = {}
                       ELSE \A j \in cubit'[v].marks :
                              <<v, j>> \in cubit'[current].before
    BY DEF Tap, OthersReckoned
  <2>1. cubit'[v] = cubit[v]
    BY <1>2
  <2>. QED
    BY <1>1, <1>2, <2>1 DEF Inv, OthersReckoned
<1>. QED
  BY <1>4, <1>5, <1>6 DEF Inv

\* A mark that ends is under way no more, and nobody reckons with it; the
\* dashboard that sent it shows what the source has now.
LEMMA MarkEndsKeeps ==
  ASSUME Inv, NEW s \in Scaffolds, NEW i \in Items, MarkEnds(s, i)
  PROVE  Inv'
<1>. USE DEF Inv, MarkEffect
<1>1. ASSUME NEW v \in Scaffolds PROVE MarkEffect(v, s, i)
  BY MarkEndsMeans
<1>2. cubit' \in [Scaffolds -> Cubits]
  BY <1>1 DEF MarkEnds
<1>3. UnderWay \ {<<s, i>>} \subseteq UnderWay'
  <2>1. ASSUME NEW v \in Scaffolds, NEW j \in Items, <<v, j>> \in UnderWay,
               <<v, j>> # <<s, i>>
        PROVE  <<v, j>> \in UnderWay'
    <3>1. j \in cubit[v].marks /\ ~(v = s /\ j = i)
      BY <2>1, UnderWayMeans
    <3>2. j \in cubit'[v].marks
      BY <3>1, <1>1
    <3>. QED
      BY <3>2 DEF UnderWay
  <2>. QED
    BY <2>1, UnderWayMeans
<1>4. TypeOK'
  <2>1. \A v \in Scaffolds : cubit'[v].before \subseteq UnderWay'
    BY <1>1, <1>3 DEF TypeOK
  <2>. QED
    BY <1>1, <1>2, <2>1 DEF MarkEnds, TypeOK
<1>5. OthersReckoned'
  <2>. SUFFICES ASSUME NEW w \in Scaffolds, w = current,
                       NEW v \in Scaffolds \ {w}
                PROVE  IF cubit'[w].loaded THEN cubit'[v].marks = {}
                       ELSE \A j \in cubit'[v].marks : <<v, j>> \in cubit'[w].before
    BY DEF MarkEnds, OthersReckoned
  <2>1. IF cubit[w].loaded THEN cubit[v].marks = {}
        ELSE \A j \in cubit[v].marks : <<v, j>> \in cubit[w].before
    BY DEF OthersReckoned
  <2>2. cubit'[v].marks = IF v = s THEN cubit[v].marks \ {i} ELSE cubit[v].marks
    BY <1>1
  <2>3. cubit'[w].before = cubit[w].before \ {<<s, i>>}
    BY <1>1
  <2>4. cubit'[w].loaded = cubit[w].loaded
    BY <1>1
  <2>5. CASE v = s
    BY <2>1, <2>2, <2>3, <2>4, <2>5
  <2>6. CASE v # s
    BY <2>1, <2>2, <2>3, <2>4, <2>6
  <2>. QED
    BY <2>5, <2>6
<1>6. BadgeTells'
  <2>. SUFFICES ASSUME NEW v \in Scaffolds, cubit'[v].open, cubit'[v].loaded
                PROVE  /\ cubit'[v].unread = Count(cubit'[v].items)
                       /\ v = current => cubit'[v].items = read'
                       /\ cubit'[v].items \subseteq read'
    BY DEF MarkEnds, BadgeTells, Count
  <2>1. /\ cubit[v].unread = Count(cubit[v].items)
        /\ v = current => cubit[v].items = read
        /\ cubit[v].items \subseteq read
    BY <1>1 DEF BadgeTells, Count
  <2>2. v = current => v = s
    BY <1>1 DEF OthersReckoned, MarkEnds
  <2>3. CASE v = s
    BY <2>1, <2>3, <1>1 DEF MarkEnds
  <2>4. CASE v # s
    BY <2>1, <2>2, <2>4, <1>1 DEF MarkEnds
  <2>. QED
    BY <2>3, <2>4
<1>. QED
  BY <1>4, <1>5, <1>6

\* A list that arrives is the list as it is, and nothing of the others is
\* under way then.
LEMMA LoadEndsKeeps ==
  ASSUME Inv, NEW s \in Scaffolds, LoadEnds(s)
  PROVE  Inv'
<1>. USE DEF Inv, LoadEffect
<1>1. ASSUME NEW v \in Scaffolds PROVE LoadEffect(v, s)
  BY LoadEndsMeans
<1>2. cubit' \in [Scaffolds -> Cubits]
  BY <1>1 DEF LoadEnds, TypeOK
<1>3. UnderWay' = UnderWay
  BY <1>1 DEF UnderWay
<1>4. TypeOK'
  BY <1>1, <1>2, <1>3 DEF LoadEnds, TypeOK
<1>5. BadgeTells'
  <2>. SUFFICES ASSUME NEW v \in Scaffolds, cubit'[v].open, cubit'[v].loaded
                PROVE  /\ cubit'[v].unread = Count(cubit'[v].items)
                       /\ v = current => cubit'[v].items = read
                       /\ cubit'[v].items \subseteq read
    BY DEF LoadEnds, BadgeTells, Count
  <2>1. CASE v = s /\ cubit[v].open
    BY <2>1, <1>1
  <2>2. CASE ~(v = s /\ cubit[v].open)
    BY <2>2, <1>1 DEF BadgeTells, Count
  <2>. QED
    BY <2>1, <2>2
<1>6. OthersReckoned'
  <2>. SUFFICES ASSUME NEW w \in Scaffolds, w = current,
                       NEW v \in Scaffolds \ {w}
                PROVE  IF cubit'[w].loaded THEN cubit'[v].marks = {}
                       ELSE \A j \in cubit'[v].marks : <<v, j>> \in cubit'[w].before
    BY DEF LoadEnds, OthersReckoned
  <2>1. IF cubit[w].loaded THEN cubit[v].marks = {}
        ELSE \A j \in cubit[v].marks : <<v, j>> \in cubit[w].before
    BY DEF OthersReckoned
  <2>2. cubit'[v].marks = cubit[v].marks /\ cubit'[w].before = cubit[w].before
    BY <1>1
  <2>3. CASE w = s /\ cubit[w].open
    <3>1. cubit[w].before = {} /\ cubit'[w].loaded
      BY <1>1, <2>3 DEF LoadEnds, LoadDue
    <3>. QED
      BY <2>1, <2>2, <3>1
  <2>4. CASE ~(w = s /\ cubit[w].open)
    <3>1. cubit'[w].loaded = cubit[w].loaded
      BY <1>1, <2>4
    <3>. QED
      BY <2>1, <2>2, <3>1
  <2>. QED
    BY <2>3, <2>4
<1>. QED
  BY <1>4, <1>5, <1>6

LEMMA NextKeeps == Inv /\ [Next]_vars => Inv'
<1>. SUFFICES ASSUME Inv, [Next]_vars PROVE Inv'
  OBVIOUS
<1>1. CASE UNCHANGED vars
  BY <1>1 DEF Inv, vars, TypeOK, BadgeTells, OthersReckoned, UnderWay
<1>2. CASE Leave
  BY <1>2, LeaveKeeps
<1>3. CASE Reload
  BY <1>3, ReloadKeeps
<1>4. CASE OpenPopup \/ ClosePopup
  BY <1>4, BellKeeps
<1>5. ASSUME NEW s \in Scaffolds, Mount(s) PROVE Inv'
  BY <1>5, MountKeeps
<1>6. ASSUME NEW s \in Scaffolds, Unmount(s) PROVE Inv'
  BY <1>6, UnmountKeeps
<1>7. ASSUME NEW s \in Scaffolds, LoadEnds(s) PROVE Inv'
  BY <1>7, LoadEndsKeeps
<1>8. ASSUME NEW i \in Items, Tap(i) PROVE Inv'
  BY <1>8, TapKeeps
<1>9. ASSUME NEW s \in Scaffolds, NEW i \in Items, MarkEnds(s, i) PROVE Inv'
  BY <1>9, MarkEndsKeeps
<1>. QED
  BY <1>1, <1>2, <1>3, <1>4, <1>5, <1>6, <1>7, <1>8, <1>9 DEF Next

LEMMA InvAlways == Spec => []Inv
BY InitHolds, NextKeeps, PTL DEF Spec
----------------------------------------------------------------------------
\* Types hold: the scaffold in front has an open cubit, the popup belongs to it,
\* and a load reckons only with marks that are under way.
THEOREM TypeCorrect == Spec => []TypeOK
BY InvAlways, PTL DEF Inv

\* The badge of every mounted dashboard counts the unread items of its list, and
\* the dashboard in front shows the list of the data source: no mark and no load
\* of this or another dashboard undoes or misses another
\* (notifications_cubit.dart:14-48).
THEOREM BadgesTell == Spec => []BadgeTells
BY InvAlways, PTL DEF Inv
(***************************************************************************)
(* NothingDropped is what the liveness of the dashboard rests on: as long  *)
(* as it holds, an item that was tapped has a timer that will mark it and  *)
(* the dashboard in front one that will bring its list.                    *)
(***************************************************************************)

LEMMA NothingDroppedAtFirst == Init => NothingDropped
BY NotificationsAssumption DEF Init, NothingDropped

\* A new dashboard loads, and takes the place of one that waits for nothing.
LEMMA MountDropsNothing ==
  ASSUME Inv, NothingDropped, NEW s \in Scaffolds, Mount(s)
  PROVE  NothingDropped'
<1>1. \A v \in Scaffolds : cubit[v].marks \subseteq cubit'[v].marks
  BY DEF Inv, TypeOK, Mount, Waits, Unused
<1>2. current' = s /\ cubit'[s].loading
  BY DEF Inv, TypeOK, Mount, Unused
<1>. QED
  BY <1>1, <1>2 DEF NothingDropped, Mount

\* A dashboard that is closed waits on for what it has asked for.
LEMMA UnmountDropsNothing ==
  ASSUME Inv, NothingDropped, NEW s \in Scaffolds, Unmount(s)
  PROVE  NothingDropped'
<1>1. \A v \in Scaffolds :
        /\ cubit'[v].marks = cubit[v].marks
        /\ v # s => cubit'[v] = cubit[v]
  BY DEF Inv, TypeOK, Cubits, Unmount
<1>2. current # s /\ current \in Scaffolds \cup {None}
  BY DEF Inv, TypeOK, Unmount
<1>. QED
  BY <1>1, <1>2 DEF NothingDropped, Unmount

LEMMA TapDropsNothing ==
  ASSUME Inv, NothingDropped, NEW i \in Items, Tap(i)
  PROVE  NothingDropped'
<1>1. current \in Scaffolds /\ cubit \in [Scaffolds -> Cubits]
  BY DEF Inv, Tap, TypeOK
<1>2. /\ \A v \in Scaffolds : cubit[v].marks \subseteq cubit'[v].marks
      /\ i \in cubit'[current].marks
      /\ cubit'[current].loaded = cubit[current].loaded
      /\ cubit'[current].loading = cubit[current].loading
  BY <1>1 DEF Tap, Cubits
<1>. QED
  BY <1>1, <1>2 DEF NothingDropped, Tap, Inv, TypeOK

\* A mark that is under way no more has made its item read.
LEMMA MarkEndsDropsNothing ==
  ASSUME Inv, NothingDropped, NEW s \in Scaffolds, NEW i \in Items, MarkEnds(s, i)
  PROVE  NothingDropped'
<1>1. ASSUME NEW v \in Scaffolds PROVE MarkEffect(v, s, i)
  BY MarkEndsMeans DEF Inv
<1>2. ASSUME NEW j \in asked'
      PROVE  j \in read' \/ \E v \in Scaffolds : j \in cubit'[v].marks
  <2>1. CASE j = i \/ j \in read
    BY <2>1 DEF MarkEnds
  <2>2. CASE j # i /\ j \notin read
    <3>1. PICK v \in Scaffolds : j \in cubit[v].marks
      BY <1>2, <2>2 DEF MarkEnds, NothingDropped
    <3>. QED
      BY <1>1, <2>2, <3>1 DEF MarkEffect
  <2>. QED
    BY <2>1, <2>2
<1>3. current' # None => cubit'[current'].loaded \/ cubit'[current'].loading
  <2>1. current' = current /\ (current # None => current \in Scaffolds)
    BY DEF MarkEnds, Inv, TypeOK
  <2>2. ASSUME current # None
        PROVE  /\ cubit'[current].loaded = cubit[current].loaded
               /\ cubit'[current].loading = cubit[current].loading
    BY <1>1, <2>1, <2>2 DEF MarkEffect
  <2>3. current # None => cubit[current].loaded \/ cubit[current].loading
    BY DEF NothingDropped
  <2>. QED
    BY <2>1, <2>2, <2>3
<1>. QED
  BY <1>2, <1>3 DEF NothingDropped

\* A load that ends for the dashboard in front has brought the list: its cubit
\* is open.
LEMMA LoadEndsDropsNothing ==
  ASSUME Inv, NothingDropped, NEW s \in Scaffolds, LoadEnds(s)
  PROVE  NothingDropped'
<1>1. ASSUME NEW v \in Scaffolds PROVE LoadEffect(v, s)
  BY LoadEndsMeans DEF Inv
<1>2. current # None => current \in Scaffolds /\ cubit[current].open
  BY DEF Inv, TypeOK
<1>3. current' # None => cubit'[current'].loaded \/ cubit'[current'].loading
  BY <1>1, <1>2 DEF LoadEffect, LoadEnds, NothingDropped
<1>4. \A v \in Scaffolds : cubit'[v].marks = cubit[v].marks
  BY <1>1 DEF LoadEffect
<1>. QED
  BY <1>3, <1>4 DEF NothingDropped, LoadEnds

\* NothingDropped: an item that was tapped is read or its mark is under way, even
\* if the dashboard it was tapped in is closed, and the dashboard in front has its
\* list or waits for it (notifications_cubit.dart:13-52, dashboard_scaffold.dart:39).
THEOREM NothingIsDropped == Spec => []NothingDropped
<1>1. ASSUME Inv, NothingDropped, [Next]_vars
      PROVE  NothingDropped'
  <2>1. CASE Leave \/ OpenPopup \/ ClosePopup \/ UNCHANGED vars
    BY <1>1, <2>1 DEF Leave, OpenPopup, ClosePopup, vars, NothingDropped
  <2>2. CASE Reload
    BY <2>2 DEF Reload, NothingDropped
  <2>3. ASSUME NEW s \in Scaffolds, Mount(s) \/ Unmount(s) \/ LoadEnds(s)
        PROVE  NothingDropped'
    BY <1>1, <2>3, MountDropsNothing, UnmountDropsNothing, LoadEndsDropsNothing
  <2>4. ASSUME NEW i \in Items, Tap(i) PROVE NothingDropped'
    BY <1>1, <2>4, TapDropsNothing
  <2>5. ASSUME NEW s \in Scaffolds, NEW i \in Items, MarkEnds(s, i)
        PROVE  NothingDropped'
    BY <1>1, <2>5, MarkEndsDropsNothing
  <2>. QED
    BY <1>1, <2>1, <2>2, <2>3, <2>4, <2>5 DEF Next
<1>. QED
  BY <1>1, NothingDroppedAtFirst, InvAlways, PTL DEF Spec
=============================================================================
