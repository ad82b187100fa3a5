---------------------------- MODULE ViewerProofs ----------------------------
(***************************************************************************)
(* What the map viewer keeps for any map, any address it is opened with    *)
(* and any number of inputs.                                               *)
(***************************************************************************)
EXTENDS MapViewer, FiniteSetTheorems, WellFoundedInduction, TLAPS

\* What is drawn is drawn for the state the page is in.
Sync ==
  /\ shown = Drawn(page)
  /\ page.selected # None => page.selected \in BaseVisible(page)

ExplorerType ==
  /\ page \in Page /\ Linked(url)
  /\ scheduled \in BOOLEAN /\ frames \in 0..2 /\ (scheduled \/ frames \in 0..1)
PointerType ==
  /\ touch \in [down : SUBSET Pointers, moved : BOOLEAN, tap : Node]
  /\ gesture \in [pointers : SUBSET Pointers, far : BOOLEAN, on : Node, press : Node]
  /\ suppressed \in BOOLEAN /\ due \in Node
FullscreenType ==
  /\ able \in BOOLEAN /\ overlay \in BOOLEAN /\ native \in BOOLEAN /\ drawn \in BOOLEAN
  /\ entering \in Nat /\ leaving \in Nat
  /\ changed \in BOOLEAN /\ overlapped \in BOOLEAN
Inv == ExplorerType /\ Sync /\ PointerType /\ FullscreenType /\ inputs \in Nat
-----------------------------------------------------------------------------
(* The operators of the explorer *)

\* Every focus consists of records.
LEMMA FocusType ==
  ASSUME NEW n \in Records, NEW depth
  PROVE  FocusSet(n, depth) \subseteq Records /\ DirectFocusSet(n) \subseteq Records
  BY DEF FocusSet, DirectFocusSet, NeighborsOf, Relationships

LEMMA NoneOutside == None \notin Records /\ None \notin Queries
  BY ViewerAssumption DEF Records

\* A page drawn shows records only, and only the view plays no part in it.
LEMMA DrawnType ==
  ASSUME NEW p \in Page
  PROVE  /\ Drawn(p).visible \subseteq Records /\ Drawn(p).detail = p.selected
         /\ Drawn(p).results = BaseVisible(p)
         /\ \A v : Drawn([p EXCEPT !.view = v]) = Drawn(p)
         /\ \A v : BaseVisible([p EXCEPT !.view = v]) = BaseVisible(p)
<1>1. BaseVisible(p) \subseteq Records
  BY DEF BaseVisible
<1>2. p.selected # None => FocusSet(p.selected, p.depth) \subseteq Records
  BY FocusType DEF Page, Node
<1>3. \A v : /\ [p EXCEPT !.view = v].selected = p.selected
             /\ [p EXCEPT !.view = v].depth = p.depth
             /\ [p EXCEPT !.view = v].type = p.type
             /\ [p EXCEPT !.view = v].lifecycle = p.lifecycle
             /\ [p EXCEPT !.view = v].query = p.query
  BY DEF Page
<1>4. \A v : BaseVisible([p EXCEPT !.view = v]) = BaseVisible(p)
  BY <1>3 DEF BaseVisible
<1>5. ASSUME NEW v PROVE Drawn([p EXCEPT !.view = v]) = Drawn(p)
  <2> DEFINE r == [p EXCEPT !.view = v]
  <2>1. r.selected = p.selected /\ r.depth = p.depth /\ BaseVisible(r) = BaseVisible(p)
    BY <1>3, <1>4
  <2> HIDE DEF r
  <2>2. Drawn(r) = Drawn(p)
    BY <2>1, Zenon DEF Drawn
  <2>3. QED
    BY <2>2 DEF r
<1>6. QED
  BY <1>1, <1>2, <1>4, <1>5 DEF Drawn

LEMMA SettledType ==
  ASSUME NEW p \in Page
  PROVE  /\ Settled(p) \in Page
         /\ Settled(p).selected # None => Settled(p).selected \in BaseVisible(Settled(p))
<1>1. BaseVisible(Settled(p)) = BaseVisible(p)
  BY DEF BaseVisible, Settled, Page
<1>2. Settled(p).selected = IF p.selected # None /\ p.selected \in BaseVisible(p)
                            THEN p.selected ELSE None
  BY DEF Settled, Page
<1>3. QED
  BY <1>1, <1>2 DEF Settled, Page, Node

LEMMA FittedType ==
  ASSUME NEW p \in Page
  PROVE  /\ Fitted(p) \in Page
         /\ Fitted(p).selected = p.selected
         /\ Drawn(Fitted(p)) = Drawn(p) /\ BaseVisible(Fitted(p)) = BaseVisible(p)
<1>1. p.selected # None => FocusSet(p.selected, p.depth) \subseteq Records
  BY FocusType DEF Page, Node
<1>2. \A S \in SUBSET Records : [p EXCEPT !.view = S] \in Page /\ [p EXCEPT !.view = S].selected = p.selected
  BY DEF Page
<1>3. \/ Fitted(p) = p
      \/ \E S \in SUBSET Records : Fitted(p) = [p EXCEPT !.view = S]
  BY <1>1 DEF Fitted
<1>4. QED
  BY <1>2, <1>3, DrawnType

\* Selecting a record lifts whatever filter would hide it.
LEMMA SelectingType ==
  ASSUME NEW p \in Page, NEW n \in Records
  PROVE  /\ Selecting(p, n) \in Page /\ Selecting(p, n).selected = n
         /\ n \in BaseVisible(Selecting(p, n))
         /\ Settled(Selecting(p, n)) = Selecting(p, n)
<1> DEFINE q == Selecting(p, n)
<1>1. /\ q.type = IF p.type \in {"all", TypeOf[n]} THEN p.type ELSE "all"
      /\ q.lifecycle = IF p.lifecycle \in {"all", LifecycleOf[n]} THEN p.lifecycle ELSE "all"
      /\ q.query = IF p.query # None /\ n \notin Hits[p.query] THEN None ELSE p.query
      /\ q.selected = n /\ q.depth = p.depth /\ q.view = p.view
  BY DEF Selecting, Page
<1>2. q \in Page
  BY <1>1 DEF Selecting, Page, Node, Types, Lifecycles
<1>3. n \in BaseVisible(q)
  BY <1>1 DEF BaseVisible
<1>4. Settled(q) = q
  <2>1. q.selected # None /\ q.selected \in BaseVisible(q)
    BY <1>1, <1>3, NoneOutside
  <2>2. [q EXCEPT !.selected = q.selected] = q
    BY <1>2 DEF Page
  <2>3. QED
    BY <2>1, <2>2 DEF Settled
<1>5. QED
  BY <1>1, <1>2, <1>3, <1>4

\* An address says nothing that an address may not say.
LEMMA AddressType ==
  ASSUME NEW p \in Page
  PROVE  Linked(Address(p))
  BY DEF Linked, Address, Page

\* A page opened from any address is drawn as it is.
LEMMA OpenedType ==
  ASSUME NEW u, Linked(u)
  PROVE  LET o == Opened(u)
         IN /\ o.page \in Page /\ o.shown = Drawn(o.page) /\ Linked(o.url) /\ o.frames \in 0..1
            /\ o.page.selected # None => o.page.selected \in BaseVisible(o.page)
<1> DEFINE asLinked == [type |-> IF u.type \in Types THEN u.type ELSE "all",
                        lifecycle |-> IF u.lifecycle \in Lifecycles THEN u.lifecycle ELSE "all",
                        query |-> u.query, selected |-> None,
                        depth |-> IF u.depth = 2 THEN 2 ELSE 1, view |-> Whole]
           chosen == IF u.node \in Records THEN Selecting(asLinked, u.node) ELSE asLinked
           p == Restored(u)
<1>1. asLinked \in Page
  BY DEF Linked, Page, Node, Types, Lifecycles
<1>2. chosen \in Page /\ (chosen.selected # None => chosen.selected \in BaseVisible(chosen))
  <2>1. CASE u.node \in Records
    BY <1>1, <2>1, SelectingType
  <2>2. CASE u.node \notin Records
    BY <1>1, <2>2
  <2>3. QED
    BY <2>1, <2>2
<1>3. p \in Page /\ (p.selected # None => p.selected \in BaseVisible(p))
  <2>1. CASE u.view \notin {None, Junk}
    <3>1. u.view \in {Whole, Moved} \cup SUBSET Records
      BY <2>1 DEF Linked
    <3>2. [chosen EXCEPT !.view = u.view] \in Page /\ [chosen EXCEPT !.view = u.view].selected = chosen.selected
      BY <1>2, <3>1 DEF Page
    <3>3. p = [chosen EXCEPT !.view = u.view]
      BY <2>1 DEF Restored
    <3>4. QED
      BY <1>2, <3>2, <3>3, DrawnType
  <2>2. CASE u.view \in {None, Junk}
    <3>1. p = IF chosen.selected # None THEN Fitted(chosen) ELSE chosen
      BY <2>2 DEF Restored
    <3>2. QED
      BY <1>2, <3>1, FittedType
  <2>3. QED
    BY <2>1, <2>2
<1>4. QED
  BY <1>3, AddressType DEF Opened
-----------------------------------------------------------------------------
(* The explorer's steps *)

\* Whatever schedules an update of the address keeps at most two frames due.
LEMMA Schedules ==
  ASSUME ExplorerType, ScheduleUrlUpdate
  PROVE  Linked(url') /\ scheduled' = TRUE /\ frames' \in 0..2
  BY DEF ExplorerType, ScheduleUrlUpdate

LEMMA Applies ==
  ASSUME ExplorerType, NEW p \in Page, Apply(p)
  PROVE  ExplorerType' /\ Sync'
  BY Schedules, SettledType DEF Apply, ExplorerType, Sync

LEMMA MovesView ==
  ASSUME ExplorerType, Sync, NEW p \in Page, SetView(p),
         Drawn(p) = Drawn(page), BaseVisible(p) = BaseVisible(page), p.selected = page.selected
  PROVE  ExplorerType' /\ Sync'
  BY Schedules DEF SetView, ExplorerType, Sync

LEMMA DrawsFitted ==
  ASSUME ExplorerType, NEW p \in Page, ScheduleUrlUpdate,
         page' = Fitted(Settled(p)), shown' = Drawn(page')
  PROVE  ExplorerType' /\ Sync'
  BY Schedules, SettledType, FittedType DEF ExplorerType, Sync

LEMMA StaysPut ==
  ASSUME ExplorerType, Sync, UNCHANGED explorerVars
  PROVE  ExplorerType' /\ Sync'
  BY DEF explorerVars, ExplorerType, Sync, Drawn, BaseVisible

\* Panning and zooming change the view only.
LEMMA ViewType ==
  ASSUME ExplorerType, NEW v \in {Whole, Moved}
  PROVE  LET p == [page EXCEPT !.view = v]
         IN p \in Page /\ Drawn(p) = Drawn(page) /\ BaseVisible(p) = BaseVisible(page)
            /\ p.selected = page.selected
<1>1. page \in Page
  BY DEF ExplorerType
<1>2. QED
  BY <1>1, DrawnType DEF Page

LEMMA ExplorerStep == Inv /\ [Next]_vars => ExplorerType' /\ Sync'
<1> SUFFICES ASSUME Inv, [Next]_vars PROVE ExplorerType' /\ Sync'
  OBVIOUS
<1>0. ExplorerType /\ Sync /\ page \in Page /\ touch.tap \in Node /\ due \in Node
  BY DEF Inv, ExplorerType, PointerType
<1>1. ASSUME NEW n \in Records, PressNode(n) \/ PickResult(n) \/ PickRelation(n)
      PROVE  ExplorerType' /\ Sync'
  BY <1>0, <1>1, SelectingType, DrawsFitted DEF PressNode, PickResult, PickRelation, SelectFitting
<1>2. ASSUME NEW q \in Queries \cup {None}, Search(q) PROVE ExplorerType' /\ Sync'
  <2>1. [page EXCEPT !.query = q] \in Page
    BY <1>0 DEF Page
  <2>2. QED
    BY <1>0, <1>2, <2>1, Applies DEF Search
<1>3. ASSUME NEW t \in Types, FilterType(t) PROVE ExplorerType' /\ Sync'
  <2>1. [page EXCEPT !.type = t] \in Page
    BY <1>0 DEF Page
  <2>2. QED
    BY <1>0, <1>3, <2>1, Applies DEF FilterType
<1>4. ASSUME NEW l \in Lifecycles, FilterLifecycle(l) PROVE ExplorerType' /\ Sync'
  <2>1. [page EXCEPT !.lifecycle = l] \in Page
    BY <1>0 DEF Page
  <2>2. QED
    BY <1>0, <1>4, <2>1, Applies DEF FilterLifecycle
<1>5. ASSUME ToggleDepth PROVE ExplorerType' /\ Sync'
  <2>1. [page EXCEPT !.depth = 3 - page.depth] \in Page
    <3>1. 3 - page.depth \in {1, 2}
      BY <1>0 DEF Page
    <3>2. QED
      BY <1>0, <3>1 DEF Page
  <2>2. QED
    BY <1>0, <1>5, <2>1, DrawsFitted DEF ToggleDepth
<1>6. ASSUME ClearSelection PROVE ExplorerType' /\ Sync'
  <2>1. [page EXCEPT !.selected = None, !.depth = 1] \in Page
    BY <1>0 DEF Page, Node
  <2>2. QED
    BY <1>0, <1>6, <2>1, Applies DEF ClearSelection
<1>7. ASSUME Zoom \/ FitAll PROVE ExplorerType' /\ Sync'
  BY <1>0, <1>7, ViewType, MovesView DEF Zoom, FitAll
<1>8. ASSUME FitFocus PROVE ExplorerType' /\ Sync'
  BY <1>0, <1>8, FittedType, MovesView DEF FitFocus
<1>9. ASSUME Frame PROVE ExplorerType' /\ Sync'
  <2>1. Linked(url') /\ UNCHANGED <<page, shown>> /\ scheduled' = FALSE /\ frames' = 0
    BY <1>0, <1>9, AddressType DEF Frame
  <2>2. ExplorerType'
    <3>1. frames' \in 0..1 /\ frames' \in 0..2
      BY <2>1
    <3>2. scheduled' \in BOOLEAN
      BY <2>1, Zenon
    <3>3. QED
      BY <1>0, <2>1, <3>1, <3>2, Zenon DEF ExplorerType
  <2>3. Sync'
    BY <1>0, <2>1 DEF Sync
  <2>4. QED
    BY <2>2, <2>3
<1>10. ASSUME NEW i \in Pointers, NEW far \in BOOLEAN, PointerMove(i, far)
       PROVE  ExplorerType' /\ Sync'
  BY <1>0, <1>10, ViewType, MovesView DEF PointerMove
<1>11. ASSUME NEW i \in Pointers, FinishPointer(i) PROVE ExplorerType' /\ Sync'
  <2>1. touch.tap # None => Selecting(page, touch.tap) \in Page
    BY <1>0, SelectingType DEF Node
  <2>2. QED
    BY <1>0, <1>11, <2>1, Applies, StaysPut DEF FinishPointer
<1>12. ASSUME Click PROVE ExplorerType' /\ Sync'
  <2>1. due # None => Selecting(page, due) \in Page
    BY <1>0, SelectingType DEF Node
  <2>2. QED
    BY <1>0, <1>12, <2>1, Applies, StaysPut DEF Click
<1>13. ASSUME Escape PROVE ExplorerType' /\ Sync'
  BY <1>0, <1>6, <1>13, StaysPut DEF Escape
<1>14. ASSUME Reload PROVE ExplorerType' /\ Sync'
  <2>1. LET o == Opened(url)
        IN /\ o.page \in Page /\ o.shown = Drawn(o.page) /\ Linked(o.url) /\ o.frames \in 0..1
           /\ o.page.selected # None => o.page.selected \in BaseVisible(o.page)
    BY <1>0, OpenedType DEF ExplorerType
  <2>2. /\ page' \in Page /\ shown' = Drawn(page') /\ Linked(url') /\ frames' \in 0..1
        /\ page'.selected # None => page'.selected \in BaseVisible(page')
        /\ scheduled' = FALSE
    BY <1>14, <2>1 DEF Reload
  <2>3. frames' \in 0..2
    BY <2>2
  <2>4. scheduled' \in BOOLEAN
    BY <2>2, Zenon
  <2>5. QED
    BY <2>2, <2>3, <2>4, Zenon DEF ExplorerType, Sync
<1>15. ASSUME UNCHANGED explorerVars PROVE ExplorerType' /\ Sync'
  BY <1>0, <1>15, StaysPut
<1>16. QED
  BY <1>1, <1>2, <1>3, <1>4, <1>5, <1>6, <1>7, <1>8, <1>9, <1>10, <1>11, <1>12, <1>13, <1>14,
     <1>15
  DEF Next, vars, Deselect, PointerDown, Calm, Toggle, Close, Granted, Refused, Left,
      BrowserLeaves, FullscreenChange, BrowserDoes
-----------------------------------------------------------------------------
(* The pointers and fullscreen *)

\* Every step leaves the pointers' variables well typed.
LEMMA PointerStep == Inv /\ [Next]_vars => PointerType'
<1> SUFFICES ASSUME Inv, [Next]_vars PROVE PointerType'
  OBVIOUS
<1>0. PointerType /\ shown.visible \subseteq Records
  BY DrawnType DEF Inv, Sync, ExplorerType
<1>1. ASSUME NEW i \in Pointers, NEW n \in shown.visible \cup {None}, PointerDown(i, n)
      PROVE  PointerType'
  <2>1. Touches(i, n) \in [pointers : SUBSET Pointers, far : BOOLEAN, on : Node, press : Node]
    BY <1>0 DEF PointerType, Touches, NoGesture, Node
  <2>2. QED
    BY <1>0, <1>1, <2>1 DEF PointerDown, PointerType, Node
<1>2. ASSUME NEW i \in Pointers, NEW far \in BOOLEAN, PointerMove(i, far)
      PROVE  PointerType'
  <2>1. touch' \in [down : SUBSET Pointers, moved : BOOLEAN, tap : Node]
    BY <1>0, <1>2 DEF PointerMove, PointerType, Node
  <2>2. gesture' \in [pointers : SUBSET Pointers, far : BOOLEAN, on : Node, press : Node]
    BY <1>0, <1>2 DEF PointerMove, PointerType
  <2>3. QED
    BY <1>0, <1>2, <2>1, <2>2 DEF PointerMove, PointerType
<1>3. ASSUME NEW i \in Pointers, FinishPointer(i) PROVE PointerType'
  <2>1. touch' \in [down : SUBSET Pointers, moved : BOOLEAN, tap : Node]
    BY <1>0, <1>3 DEF FinishPointer, PointerType, Node
  <2>2. due' \in Node /\ suppressed' \in BOOLEAN
    BY <1>0, <1>3 DEF FinishPointer, PointerType, Node
  <2>3. QED
    BY <1>0, <1>3, <2>1, <2>2 DEF FinishPointer, PointerType
<1>4. ASSUME Click \/ Calm PROVE PointerType'
  BY <1>0, <1>4 DEF Click, Calm, PointerType, Node
<1>5. ASSUME Reload PROVE PointerType'
  BY <1>5 DEF Reload, PointerType, Untouched, NoGesture, Node
<1>6. ASSUME UNCHANGED pointerVars PROVE PointerType'
  BY <1>0, <1>6 DEF pointerVars, PointerType
<1>7. QED
  BY <1>1, <1>2, <1>3, <1>4, <1>5, <1>6
  DEF Next, vars, Aside, PressNode, PickResult, PickRelation, SelectFitting, Search, FilterType,
      FilterLifecycle, ToggleDepth, Deselect, Zoom, FitAll, FitFocus, Frame, Toggle, Close, Escape,
      Granted, Refused, Left, BrowserLeaves, FullscreenChange, BrowserDoes

\* What fullscreen shows is what it is, but for a change not told yet; and until
\* two requests to enter overlap, an open one means that it is neither.
FullInv ==
  /\ ~ able => entering = 0
  /\ overlay => drawn
  /\ ~ changed => drawn = Active
  /\ ~ overlapped =>
       /\ entering \in {0, 1}
       /\ entering = 1 => ~ Active
       /\ ~ (overlay /\ native)

\* Every step keeps it.
LEMMA FullscreenStep == FullscreenType /\ FullInv /\ [Next]_vars => FullscreenType' /\ FullInv'
<1> SUFFICES ASSUME FullscreenType, FullInv, [Next]_vars PROVE FullscreenType' /\ FullInv'
  OBVIOUS
<1> USE DEF FullscreenType, FullInv, Active, Modes
<1>0. entering + 1 \in Nat /\ leaving + 1 \in Nat /\ 0 \in Nat
      /\ (entering > 0 => entering # 0 /\ entering - 1 \in Nat)
      /\ (~ entering > 0 => entering = 0 /\ entering + 1 = 1)
      /\ (entering = 1 => entering - 1 = 0) /\ (leaving > 0 => leaving - 1 \in Nat)
      /\ 0 # 1
  OBVIOUS
<1>1. ASSUME ~ Active, Enter PROVE FullscreenType' /\ FullInv'
  <2>1. CASE able
    BY <1>0, <1>1, <2>1, Zenon DEF Enter
  <2>2. CASE ~ able
    BY <1>0, <1>1, <2>2, Zenon DEF Enter
  <2>3. QED
    BY <2>1, <2>2
<1>2. ASSUME Active, Exit PROVE FullscreenType' /\ FullInv'
  <2>1. CASE native
    BY <1>0, <1>2, <2>1, Zenon DEF Exit
  <2>2. CASE ~ native
    BY <1>0, <1>2, <2>2, Zenon DEF Exit
  <2>3. QED
    BY <2>1, <2>2
<1>3. ASSUME Toggle \/ Close PROVE FullscreenType' /\ FullInv'
  BY <1>1, <1>2, <1>3 DEF Toggle, Close
<1>4. ASSUME UNCHANGED fullscreenVars PROVE FullscreenType' /\ FullInv'
  BY <1>4 DEF fullscreenVars
<1>5. ASSUME Escape PROVE FullscreenType' /\ FullInv'
  BY <1>2, <1>4, <1>5 DEF Escape
<1>6. ASSUME Granted PROVE FullscreenType' /\ FullInv'
  BY <1>0, <1>6, Zenon DEF Granted, BrowserDoes
<1>7. ASSUME Refused PROVE FullscreenType' /\ FullInv'
  BY <1>0, <1>7, Zenon DEF Refused, BrowserDoes
<1>8. ASSUME Left \/ BrowserLeaves PROVE FullscreenType' /\ FullInv'
  <2>1. CASE Left
    BY <1>0, <2>1, Zenon DEF Left, BrowserDoes
  <2>2. CASE BrowserLeaves
    BY <2>2, Zenon DEF BrowserLeaves, BrowserDoes
  <2>3. QED
    BY <1>8, <2>1, <2>2
<1>9. ASSUME FullscreenChange PROVE FullscreenType' /\ FullInv'
  <2>1. CASE native
    BY <1>9, <2>1, Zenon DEF FullscreenChange, BrowserDoes
  <2>2. CASE ~ native
    BY <1>9, <2>2, Zenon DEF FullscreenChange, BrowserDoes
  <2>3. QED
    BY <2>1, <2>2
<1>10. ASSUME Reload PROVE FullscreenType' /\ FullInv'
  BY <1>10 DEF Reload
<1>11. QED
  BY <1>3, <1>4, <1>5, <1>6, <1>7, <1>8, <1>9, <1>10
  DEF Next, vars, Aside, PressNode, PickResult, PickRelation, SelectFitting, Search, FilterType,
      FilterLifecycle, ToggleDepth, Deselect, Zoom, FitAll, FitFocus, Frame, PointerDown,
      PointerMove, FinishPointer, Click, Calm
-----------------------------------------------------------------------------
(* Pointers *)

\* What the page knows of a gesture and what really happened: only a single
\* pointer that went nowhere may still become a tap, and a lone pointer that
\* went far has been seen to move.
GestureInv ==
  /\ IsFiniteSet(gesture.pointers) /\ touch.down \subseteq gesture.pointers
  /\ touch.tap # None =>
       touch.tap = gesture.on /\ ~ gesture.far /\ \E i : gesture.pointers = {i}
  /\ gesture.far /\ (\E i : gesture.pointers = {i}) => touch.moved
  /\ due # None => due = gesture.press /\ (touch.moved => suppressed)

\* Every step keeps it.
LEMMA GestureStep == PointerType /\ GestureInv /\ [Next]_vars => GestureInv'
<1> SUFFICES ASSUME PointerType, GestureInv, [Next]_vars PROVE GestureInv'
  OBVIOUS
<1> USE DEF PointerType
<1>1. ASSUME NEW i \in Pointers, NEW n \in shown.visible \cup {None}, PointerDown(i, n)
      PROVE  GestureInv'
  <2>1. CASE touch.down = {}
    <3>1. /\ gesture'.pointers = {i} /\ gesture'.far = FALSE /\ gesture'.on = n
          /\ touch'.down = {i} /\ touch'.tap = n /\ due' = None
      BY <1>1, <2>1 DEF PointerDown, Input, Touches, NoGesture
    <3>2. IsFiniteSet({i})
      BY FS_Singleton, Zenon
    <3>3. IsFiniteSet(gesture'.pointers)
      BY <3>1, <3>2, Zenon
    <3>4. QED
      BY <3>1, <3>3 DEF GestureInv
  <2>2. CASE touch.down # {}
    <3>1. /\ gesture'.pointers = gesture.pointers \cup {i} /\ gesture'.far = gesture.far
          /\ touch'.down = touch.down \cup {i} /\ touch'.tap = None /\ due' = None
          /\ i \notin touch.down
      BY <1>1, <2>2 DEF PointerDown, Input, Touches
    <3>2. IsFiniteSet(gesture'.pointers)
      BY <3>1, FS_AddElement DEF GestureInv
    <3>3. ~ \E j : gesture'.pointers = {j}
      BY <2>2, <3>1 DEF GestureInv
    <3>4. QED
      BY <3>1, <3>2, <3>3 DEF GestureInv
  <2>3. QED
    BY <2>1, <2>2
<1>2. ASSUME NEW i \in Pointers, NEW far \in BOOLEAN, PointerMove(i, far)
      PROVE  GestureInv'
  <2>1. /\ gesture'.pointers = gesture.pointers /\ gesture'.on = gesture.on
        /\ gesture'.far = (gesture.far \/ far)
        /\ touch'.down = touch.down /\ due' = None
    BY <1>2 DEF PointerMove
  <2>2. CASE far \/ Cardinality(touch.down) > 1
    <3>1. touch'.moved = TRUE /\ touch'.tap = None
      BY <1>2, <2>2 DEF PointerMove
    <3>2. QED
      BY <2>1, <3>1 DEF GestureInv
  <2>3. CASE ~ (far \/ Cardinality(touch.down) > 1)
    <3>1. touch'.moved = touch.moved /\ touch'.tap = touch.tap
      BY <1>2, <2>3 DEF PointerMove
    <3>2. QED
      BY <2>1, <2>3, <3>1 DEF GestureInv
  <2>4. QED
    BY <2>2, <2>3
<1>3. ASSUME NEW i \in Pointers, FinishPointer(i) PROVE GestureInv'
  <2>1. /\ touch'.down = touch.down \ {i} /\ touch'.moved = touch.moved
        /\ touch'.tap \in {touch.tap, None} /\ gesture' = gesture
        /\ due' \in {None, gesture.press}
        /\ suppressed' = (suppressed \/ touch.moved)
    BY <1>3 DEF FinishPointer
  <2>2. QED
    BY <2>1 DEF GestureInv
<1>4. ASSUME Click \/ Calm PROVE GestureInv'
  BY <1>4 DEF Click, Calm, GestureInv
<1>5. ASSUME Reload PROVE GestureInv'
  BY <1>5, FS_EmptySet DEF Reload, GestureInv, Untouched, NoGesture
<1>6. ASSUME UNCHANGED pointerVars PROVE GestureInv'
  BY <1>6 DEF pointerVars, GestureInv
<1>7. QED
  BY <1>1, <1>2, <1>3, <1>4, <1>5, <1>6
  DEF Next, vars, Aside, PressNode, PickResult, PickRelation, SelectFitting, Search, FilterType,
      FilterLifecycle, ToggleDepth, Deselect, Zoom, FitAll, FitFocus, Frame, Toggle, Close, Escape,
      Granted, Refused, Left, BrowserLeaves, FullscreenChange, BrowserDoes

\* A selection made by letting go is one the gesture meant.
LEMMA LetsGoStep ==
  ASSUME Inv, GestureInv, page'.selected # page.selected, LetsGo
  PROVE  LET alone == Cardinality(gesture.pointers) = 1
         IN \/ due = None /\ page'.selected = gesture.on /\ alone /\ ~ gesture.far
            \/ due # None /\ page'.selected = gesture.press /\ (gesture.far => ~ alone)
<1>0. page \in Page /\ PointerType
  BY DEF Inv, ExplorerType
<1>1. ASSUME NEW i \in Pointers, FinishPointer(i)
      PROVE  due = None /\ page'.selected = gesture.on /\ Cardinality(gesture.pointers) = 1
             /\ ~ gesture.far
  <2>1. due = None /\ touch.tap # None /\ Apply(Selecting(page, touch.tap))
    BY <1>1 DEF FinishPointer, explorerVars
  <2>2. page'.selected = touch.tap
    BY <1>0, <2>1, SelectingType DEF Apply, PointerType, Node
  <2>3. QED
    BY <2>1, <2>2, FS_Singleton DEF GestureInv
<1>2. ASSUME Click
      PROVE  due # None /\ page'.selected = gesture.press
             /\ (gesture.far => Cardinality(gesture.pointers) # 1)
  <2>1. due # None /\ ~ suppressed /\ Apply(Selecting(page, due))
    BY <1>2 DEF Click, explorerVars
  <2>2. page'.selected = due
    BY <1>0, <2>1, SelectingType DEF Apply, PointerType, Node
  <2>3. QED
    BY <2>1, <2>2, FS_Singleton DEF GestureInv
<1>3. QED
  BY <1>1, <1>2 DEF LetsGo
-----------------------------------------------------------------------------
(* The address *)

\* A scheduled update has a frame due; and with none due, the address says what
\* the page is.
AddressInv ==
  /\ scheduled => frames > 0
  /\ frames = 0 => url = Address(page)

\* Whatever schedules an update leaves a frame due.
LEMMA LeavesFrame ==
  ASSUME ExplorerType, AddressInv, ScheduleUrlUpdate
  PROVE  AddressInv'
<1>1. frames \in 0..2 /\ (scheduled => frames > 0)
  BY DEF ExplorerType, AddressInv
<1>2. frames' > 0
  BY <1>1 DEF ScheduleUrlUpdate
<1>3. QED
  BY <1>2 DEF AddressInv

\* Every step keeps the address invariant.
LEMMA AddressStep == ExplorerType /\ AddressInv /\ [Next]_vars => AddressInv'
<1> SUFFICES ASSUME ExplorerType, AddressInv, [Next]_vars PROVE AddressInv'
  OBVIOUS
<1>1. ASSUME UNCHANGED explorerVars PROVE AddressInv'
  BY <1>1 DEF explorerVars, AddressInv, Address
<1>2. ASSUME Frame PROVE AddressInv'
  BY <1>2 DEF Frame, AddressInv, Address
<1>3. ASSUME Reload PROVE AddressInv'
  <2>1. /\ page' = Opened(url).page /\ url' = Opened(url).url /\ scheduled' = FALSE
        /\ Opened(url).url = Address(Opened(url).page)
    BY <1>3 DEF Reload, Opened
  <2>2. url' = Address(page')
    BY <2>1
  <2>3. QED
    BY <2>1, <2>2 DEF AddressInv, Address
<1>4. ASSUME ScheduleUrlUpdate PROVE AddressInv'
  BY <1>4, LeavesFrame
<1>5. QED
  BY <1>1, <1>2, <1>3, <1>4
  DEF Next, vars, PressNode, PickResult, PickRelation, SelectFitting, Search, FilterType,
      FilterLifecycle, ToggleDepth, Deselect, ClearSelection, Apply, SetView, Zoom, FitAll,
      FitFocus, PointerDown, PointerMove, FinishPointer, Click, Calm, Toggle, Close, Escape,
      Granted, Refused, Left, BrowserLeaves, FullscreenChange, BrowserDoes

\* Fitting changes the view only.
LEMMA FittedView ==
  ASSUME NEW p \in Page
  PROVE  Fitted(p) = [p EXCEPT !.view = Fitted(p).view]
<1>1. p = [p EXCEPT !.view = p.view] /\ \A S : [p EXCEPT !.view = S].view = S
  BY DEF Page
<1>2. \/ Fitted(p) = p
      \/ \E S : Fitted(p) = [p EXCEPT !.view = S]
  BY DEF Fitted
<1>3. QED
  BY <1>1, <1>2

\* The names of the filters are none of what an address leaves out.
LEMMA NamesFilters == None \notin Types /\ None \notin Lifecycles
  BY ViewerAssumption DEF Types, Lifecycles

\* A page with nothing selected but what an address says of the rest.
Linking(t, l, q, d, v) ==
  [type |-> t, lifecycle |-> l, query |-> q, selected |-> None, depth |-> d, view |-> v]

\* A selection that lifts no filter changes the selection only.
LEMMA SelectsOnly ==
  ASSUME NEW t, NEW l, NEW q, NEW d, NEW v, NEW n,
         t \in {"all", TypeOf[n]}, l \in {"all", LifecycleOf[n]}, q # None => n \in Hits[q]
  PROVE  Selecting(Linking(t, l, q, d, v), n) = [Linking(t, l, q, d, v) EXCEPT !.selected = n]
<1> DEFINE p == Linking(t, l, q, d, v)
<1>1. p.type = t /\ p.lifecycle = l /\ p.query = q
  BY DEF Linking
<1>2. Selecting(p, n) = [p EXCEPT !.type = p.type, !.lifecycle = p.lifecycle, !.query = p.query,
                                  !.selected = n]
  BY <1>1 DEF Selecting
<1>3. QED
  BY <1>2 DEF Linking

\* With nothing selected, the depth plays no part in what is drawn.
LEMMA DrawnUnselected ==
  ASSUME NEW p, p.selected = None
  PROVE  Drawn(p) = [visible |-> BaseVisible(p), second |-> {},
                     arrows |-> {x \in Arrows : \A e \in Deciding(x) :
                                   e[1] \in BaseVisible(p) /\ e[2] \in BaseVisible(p)},
                     results |-> BaseVisible(p), detail |-> None, depth |-> None]
  BY DEF Drawn

\* Nor does anything but the filters, the selection and its depth.
LEMMA DrawnFor ==
  ASSUME NEW p, NEW q, q.selected = p.selected, BaseVisible(q) = BaseVisible(p),
         p.selected # None => q.depth = p.depth
  PROVE  Drawn(q) = Drawn(p)
<1>1. CASE p.selected = None
  BY <1>1, DrawnUnselected
<1>2. CASE p.selected # None
  <2>1. q.depth = p.depth
    BY <1>2
  <2>2. QED
    BY <2>1, Zenon DEF Drawn
<1>3. QED
  BY <1>1, <1>2

\* Opening the address of a page gives back that page: with nothing selected at
\* depth 1, and with the whole map as the view its choice of a view.
LEMMA OpensAddress ==
  ASSUME NEW p \in Page, p.selected # None => p.selected \in BaseVisible(p)
  PROVE  LET r == Restored(Address(p))
         IN /\ r = [p EXCEPT !.depth = IF p.selected = None THEN 1 ELSE @,
                             !.view = IF @ = Whole THEN r.view ELSE @]
            /\ p.view = Whole /\ p.selected = None => r.view = Whole
<1> DEFINE u == Address(p)
           kept == [p EXCEPT !.depth = IF p.selected = None THEN 1 ELSE @, !.view = Whole]
           asLinked == [type |-> IF u.type \in Types THEN u.type ELSE "all",
                        lifecycle |-> IF u.lifecycle \in Lifecycles THEN u.lifecycle ELSE "all",
                        query |-> u.query, selected |-> None,
                        depth |-> IF u.depth = 2 THEN 2 ELSE 1, view |-> Whole]
           chosen == IF u.node \in Records THEN Selecting(asLinked, u.node) ELSE asLinked
           r == Restored(u)
<1>1. /\ u.type = IF p.type = "all" THEN None ELSE p.type
      /\ u.lifecycle = IF p.lifecycle = "all" THEN None ELSE p.lifecycle
      /\ u.query = p.query /\ u.node = p.selected
      /\ u.depth = IF p.selected # None /\ p.depth = 2 THEN 2 ELSE None
      /\ u.view = IF p.view = Whole THEN None ELSE p.view
  BY DEF Address
<1>2. /\ p.type \in Types /\ p.lifecycle \in Lifecycles /\ p.query \in Queries \cup {None}
      /\ p.selected \in Records \cup {None} /\ p.depth \in {1, 2}
      /\ p.view \in {Whole, Moved} \cup SUBSET Records
      /\ p = [type |-> p.type, lifecycle |-> p.lifecycle, query |-> p.query,
              selected |-> p.selected, depth |-> p.depth, view |-> p.view]
  BY DEF Page, Node
<1> HIDE DEF u
<1>3. asLinked = [type |-> p.type, lifecycle |-> p.lifecycle, query |-> p.query, selected |-> None,
                  depth |-> IF p.selected # None THEN p.depth ELSE 1, view |-> Whole]
  <2>1. (IF u.type \in Types THEN u.type ELSE "all") = p.type
    BY <1>1, <1>2, NamesFilters
  <2>2. (IF u.lifecycle \in Lifecycles THEN u.lifecycle ELSE "all") = p.lifecycle
    BY <1>1, <1>2, NamesFilters
  <2>3. (IF u.depth = 2 THEN 2 ELSE 1) = IF p.selected # None THEN p.depth ELSE 1
    <3>1. CASE p.selected = None
      BY <1>1, <3>1, ViewerAssumption
    <3>2. CASE p.selected # None /\ p.depth = 2
      BY <1>1, <3>2
    <3>3. CASE p.selected # None /\ p.depth = 1
      BY <1>1, <3>3, ViewerAssumption
    <3>4. QED
      BY <1>2, <3>1, <3>2, <3>3
  <2>4. QED
    BY <1>1, <2>1, <2>2, <2>3
<1> HIDE DEF asLinked
<1>4. ASSUME p.selected # None
      PROVE  chosen = [p EXCEPT !.view = Whole]
  <2> DEFINE n == p.selected
  <2>1. n \in Records /\ n \in BaseVisible(p) /\ chosen = Selecting(asLinked, n)
    BY <1>1, <1>2, <1>4
  <2>2. /\ p.type \in {"all", TypeOf[n]} /\ p.lifecycle \in {"all", LifecycleOf[n]}
        /\ p.query # None => n \in Hits[p.query]
    BY <2>1 DEF BaseVisible
  <2>3. Selecting(asLinked, n) = [type |-> p.type, lifecycle |-> p.lifecycle, query |-> p.query,
                                  selected |-> n, depth |-> p.depth, view |-> Whole]
    <3>1. asLinked = Linking(p.type, p.lifecycle, p.query, p.depth, Whole)
      BY <1>3, <1>4 DEF Linking
    <3>2. Selecting(asLinked, n) = [asLinked EXCEPT !.selected = n]
      BY <2>2, <3>1, SelectsOnly
    <3>3. QED
      BY <1>3, <1>4, <3>2
  <2>4. QED
    BY <1>2, <2>1, <2>3
<1>5. ASSUME p.selected = None
      PROVE  chosen = [p EXCEPT !.depth = 1, !.view = Whole]
  <2>1. chosen = asLinked
    BY <1>1, <1>5, NoneOutside
  <2>2. asLinked = Linking(p.type, p.lifecycle, p.query, 1, Whole)
    BY <1>3, <1>5 DEF Linking
  <2>3. [p EXCEPT !.depth = 1, !.view = Whole] = Linking(p.type, p.lifecycle, p.query, 1, Whole)
    <3> DEFINE q == [p EXCEPT !.depth = 1, !.view = Whole]
    <3>1. /\ q.type = p.type /\ q.lifecycle = p.lifecycle /\ q.query = p.query
          /\ q.selected = None /\ q.depth = 1 /\ q.view = Whole
      BY <1>5 DEF Page
    <3>2. q \in Page
      BY <1>2 DEF Page, Node
    <3>3. q = [type |-> q.type, lifecycle |-> q.lifecycle, query |-> q.query,
               selected |-> q.selected, depth |-> q.depth, view |-> q.view]
      <4> HIDE DEF q
      <4>1. QED
        BY <3>2 DEF Page
    <3>4. QED
      BY <3>1, <3>3 DEF Linking
  <2>4. QED
    BY <2>1, <2>2, <2>3
<1>6. chosen = kept
  BY <1>4, <1>5, <1>2
<1> HIDE DEF chosen
<1>7. CASE p.view # Whole
  <2>1. u.view = p.view /\ u.view \notin {None, Junk}
    BY <1>1, <1>2, <1>7, ViewerAssumption DEF Records
  <2>2. r = [chosen EXCEPT !.view = u.view]
    BY <2>1 DEF Restored, chosen, asLinked
  <2>3. r = [p EXCEPT !.depth = IF p.selected = None THEN 1 ELSE p.depth, !.view = p.view]
    BY <1>2, <1>6, <2>1, <2>2
  <2>4. QED
    BY <1>7, <2>3 DEF u
<1>8. CASE p.view = Whole
  <2>1. u.view \in {None, Junk}
    BY <1>1, <1>8
  <2>2. r = IF chosen.selected # None THEN Fitted(chosen) ELSE chosen
    BY <2>1 DEF Restored, chosen, asLinked
  <2>3. chosen \in Page /\ chosen.selected = p.selected /\ chosen.view = Whole
    BY <1>2, <1>6 DEF Page
  <2>4. r = [chosen EXCEPT !.view = r.view] /\ (p.selected = None => r.view = Whole)
    <3>1. CASE p.selected # None
      BY <2>2, <2>3, <3>1, FittedView
    <3>2. CASE p.selected = None
      BY <2>2, <2>3, <3>2 DEF Page
    <3>3. QED
      BY <3>1, <3>2
  <2>5. r = [p EXCEPT !.depth = IF p.selected = None THEN 1 ELSE p.depth, !.view = r.view]
    BY <1>2, <1>6, <2>4
  <2>6. QED
    BY <1>8, <2>4, <2>5 DEF u
<1>9. QED
  BY <1>7, <1>8 DEF u

\* Reloading with no frame due draws the same page.
LEMMA ReloadStep ==
  ASSUME Inv, AddressInv, frames = 0, Reload
  PROVE  /\ shown' = shown
         /\ page' = [page EXCEPT !.depth = IF page.selected = None THEN 1 ELSE @,
                                 !.view = IF @ = Whole THEN page'.view ELSE @]
         /\ page.view = Whole /\ page.selected = None => page'.view = Whole
<1>1. /\ page \in Page /\ shown = Drawn(page)
      /\ page.selected # None => page.selected \in BaseVisible(page)
  BY DEF Inv, ExplorerType, Sync
<1>2. page' = Restored(Address(page)) /\ shown' = Drawn(page')
  BY DEF Reload, Opened, AddressInv
<1>3. /\ page' = [page EXCEPT !.depth = IF page.selected = None THEN 1 ELSE page.depth,
                              !.view = IF page.view = Whole THEN page'.view ELSE page.view]
      /\ page.view = Whole /\ page.selected = None => page'.view = Whole
  BY <1>1, <1>2, OpensAddress
<1>4. Drawn(page') = Drawn(page)
  <2> DEFINE q == page'
  <2>1. /\ q.type = page.type /\ q.lifecycle = page.lifecycle /\ q.query = page.query
        /\ q.selected = page.selected /\ (page.selected # None => q.depth = page.depth)
    BY <1>1, <1>3 DEF Page
  <2> HIDE DEF q
  <2>2. BaseVisible(q) = BaseVisible(page)
    BY <2>1 DEF BaseVisible
  <2>3. Drawn(q) = Drawn(page)
    BY <2>1, <2>2, DrawnFor
  <2>4. QED
    BY <2>3 DEF q
<1>5. QED
  BY <1>1, <1>2, <1>3, <1>4
-----------------------------------------------------------------------------
(* The theorems *)

LEMMA InitInv == Init => Inv /\ FullInv /\ GestureInv /\ AddressInv
<1> SUFFICES ASSUME Init PROVE Inv /\ FullInv /\ GestureInv /\ AddressInv
  OBVIOUS
<1>1. ExplorerType /\ Sync
  <2>1. PICK u \in Links : /\ page = Opened(u).page /\ shown = Opened(u).shown
                          /\ url = Opened(u).url /\ frames = Opened(u).frames
    BY DEF Init
  <2>2. Linked(u)
    BY ViewerAssumption DEF Linked, Records
  <2>3. /\ page \in Page /\ shown = Drawn(page) /\ Linked(url) /\ frames \in 0..1
        /\ page.selected # None => page.selected \in BaseVisible(page)
    BY <2>1, <2>2, OpenedType
  <2>4. scheduled \in BOOLEAN
    BY Zenon DEF Init
  <2>5. frames \in 0..2
    BY <2>3
  <2>6. QED
    BY <2>3, <2>4, <2>5, Zenon DEF ExplorerType, Sync
<1>2. PointerType /\ GestureInv
  BY FS_EmptySet DEF Init, PointerType, GestureInv, Untouched, NoGesture, Node
<1>3. FullscreenType /\ FullInv /\ inputs \in Nat
  BY DEF Init, FullscreenType, FullInv, Active
<1>4. AddressInv
  BY DEF Init, Opened, AddressInv
<1>5. QED
  BY <1>1, <1>2, <1>3, <1>4 DEF Inv

LEMMA NextInv ==
  Inv /\ FullInv /\ GestureInv /\ AddressInv /\ [Next]_vars =>
    (Inv /\ FullInv /\ GestureInv /\ AddressInv)'
<1> SUFFICES ASSUME Inv, FullInv, GestureInv, AddressInv, [Next]_vars
             PROVE  (Inv /\ FullInv /\ GestureInv /\ AddressInv)'
  OBVIOUS
<1>1. inputs' \in Nat
  <2>1. inputs \in Nat
    BY DEF Inv
  <2>2. inputs' \in {inputs, inputs + 1}
    BY DEF Next, vars, Input, PressNode, PickResult, PickRelation, SelectFitting, Search, FilterType,
      FilterLifecycle, ToggleDepth, Deselect, Zoom, FitAll, FitFocus, Frame, Toggle, Close, Escape,
      Granted, Refused, Left, BrowserLeaves, FullscreenChange, BrowserDoes, PointerDown, PointerMove,
      FinishPointer, Click, Calm, Reload
  <2>3. QED
    BY <2>1, <2>2
<1>2. QED
  BY <1>1, ExplorerStep, PointerStep, FullscreenStep, GestureStep, AddressStep DEF Inv

\* The invariant behind the results below.
THEOREM Invariance == Spec => [](Inv /\ FullInv /\ GestureInv /\ AddressInv)
  BY InitInv, NextInv, PTL DEF Spec

\* Every reachable state is well typed.
THEOREM TypeCorrect == Spec => []TypeOK
<1>1. Inv => TypeOK
  BY DrawnType
  DEF Inv, ExplorerType, PointerType, FullscreenType, Sync, TypeOK, Page, Linked
<1>2. QED
  BY <1>1, Invariance, PTL

\* Fullscreen settles: with no request open and no change untold, the page is
\* drawn as it is.
THEOREM Settles == Spec => []FullscreenSettles
<1>1. FullInv => FullscreenSettles
  BY DEF FullInv, FullscreenSettles
<1>2. QED
  BY <1>1, Invariance, PTL

\* A drag selects nothing.
THEOREM DragsSelectNothing == Spec => DragSelectsNothing
<1>1. Inv /\ GestureInv /\ [Next]_vars =>
        [page'.selected # page.selected /\ LetsGo =>
           LET alone == Cardinality(gesture.pointers) = 1
           IN \/ due = None /\ page'.selected = gesture.on /\ alone /\ ~ gesture.far
              \/ due # None /\ page'.selected = gesture.press /\ (gesture.far => ~ alone)]_vars
  BY LetsGoStep
<1>2. QED
  BY <1>1, Invariance, PTL DEF Spec, DragSelectsNothing

\* A shareable address: once no frame is due, loading it again shows the same page.
THEOREM Reloads == Spec => ReloadShowsTheSame
<1>1. Inv /\ AddressInv =>
        [frames = 0 /\ Reload =>
           /\ shown' = shown
           /\ page' = [page EXCEPT !.depth = IF page.selected = None THEN 1 ELSE @,
                                   !.view = IF @ = Whole THEN page'.view ELSE @]
           /\ page.view = Whole /\ page.selected = None => page'.view = Whole]_vars
  BY ReloadStep
<1>2. QED
  BY <1>1, Invariance, PTL DEF ReloadShowsTheSame

\* Of the relationships an arrow bears, if any, the last decides.
LEMMA OneDecides ==
  ASSUME NEW x \in Arrows, Bears(x) # {}
  PROVE  Deciding(x) # {} /\ Deciding(x) \subseteq Bears(x)
<1> DEFINE S == {After[e] : e \in Bears(x)}
<1>1. S \in SUBSET Nat /\ S # {}
  BY ViewerAssumption DEF Bears, Relationships
<1>2. \E n \in S : \A m \in S : ~ (<<m, n>> \in OpToRel(<, Nat))
  <2>1. IsWellFoundedOn(OpToRel(<, Nat), Nat)
    BY NatLessThanWellFounded
  <2> HIDE DEF S
  <2>2. QED
    BY <1>1, <2>1, WFMin
<1>3. PICK e \in Bears(x) : \A f \in Bears(x) : ~ (After[f] < After[e])
  BY <1>1, <1>2 DEF OpToRel
<1>4. \A f \in Bears(x) : After[e] <= After[f]
  BY <1>1, <1>3
<1>5. QED
  BY <1>4 DEF Deciding

\* The page shows what its filters and its selection mean.
THEOREM Current == Spec => []ShownIsCurrent
<1>1. Inv => ShownIsCurrent
  <2> SUFFICES ASSUME Inv PROVE ShownIsCurrent
    OBVIOUS
  <2> DEFINE s == page.selected
             two == {n \in Records \ {s} :
                       ~ Near(s, n) /\ \E m \in Records : Near(s, m) /\ Near(m, n)}
             one == {n \in Records : n = s \/ Near(s, n)}
  <2>1. page \in Page /\ shown = Drawn(page) /\ (s # None => s \in BaseVisible(page))
    BY DEF Inv, ExplorerType, Sync
  <2>2. BaseVisible(page) =
          {n \in Records : /\ page.type # "all" => TypeOf[n] = page.type
                           /\ page.lifecycle # "all" => LifecycleOf[n] = page.lifecycle
                           /\ page.query # None => n \in Hits[page.query]}
    BY DEF BaseVisible
  <2>3. \A n \in Records : NeighborsOf(n) = {m \in Records : Near(n, m)}
    <3>1. \A e \in Relationships : e = <<e[1], e[2]>> /\ e[1] \in Records /\ e[2] \in Records
      BY ViewerAssumption DEF Relationships
    <3>2. \A n, m : Near(n, m) <=> \E e \in Relationships : e = <<n, m>> \/ e = <<m, n>>
      BY DEF Near
    <3>3. \A n, m : m \in NeighborsOf(n) <=>
                      \E e \in Relationships : (e[1] = n /\ e[2] = m) \/ (e[2] = n /\ e[1] = m)
      BY DEF NeighborsOf
    <3>4. \A n, m : m \in NeighborsOf(n) <=> Near(n, m)
      BY <3>1, <3>2, <3>3
    <3>5. \A n, m : Near(n, m) => m \in Records
      BY <3>1, <3>2
    <3>6. QED
      BY <3>4, <3>5
  <2>4. ASSUME s # None
        PROVE  /\ s \in Records /\ DirectFocusSet(s) = one
               /\ FocusSet(s, 1) = one /\ FocusSet(s, 2) = one \cup two
    <3>1. s \in Records
      BY <2>1, <2>4 DEF Page, Node
    <3>2. DirectFocusSet(s) = one
      BY <2>3, <3>1 DEF DirectFocusSet
    <3>3. \A n : n \in UNION {NeighborsOf(m) : m \in one} <=>
                   n \in Records /\ \E m \in one : Near(m, n)
      BY <2>3
    <3>4. \A n \in Records : Near(s, n) => n \in one
      OBVIOUS
    <3>5. one \cup UNION {NeighborsOf(m) : m \in one} = one \cup two
      BY <3>1, <3>3, <3>4
    <3>6. QED
      BY <3>1, <3>2, <3>5 DEF FocusSet
  <2>5. /\ shown.results = BaseVisible(page) /\ shown.detail = s
        /\ s = None => shown.visible = BaseVisible(page) /\ shown.second = {}
        /\ s # None => /\ shown.visible = FocusSet(s, page.depth)
                       /\ shown.second = FocusSet(s, page.depth) \ DirectFocusSet(s)
    BY <2>1 DEF Drawn
  <2>6. shown.visible \subseteq Records
    BY <2>1, DrawnType
  <2>7. ASSUME NEW x \in Arrows
        PROVE  LET own == {e \in Carries[x] : e[1] \in Records /\ e[2] \in Records}
                   joined == {e \in own : e[1] \in shown.visible /\ e[2] \in shown.visible}
               IN IF x \in shown.arrows THEN own = {} \/ joined # {} ELSE joined # own
    <3> DEFINE Shown(e) == e[1] \in shown.visible /\ e[2] \in shown.visible
    <3>1. x \in shown.arrows <=> \A e \in Deciding(x) : Shown(e)
      BY <2>1, <2>7 DEF Drawn
    <3>2. Bears(x) = {e \in Carries[x] : e[1] \in Records /\ e[2] \in Records}
      BY <2>7, ViewerAssumption DEF Bears, Relationships
    <3>3. Bears(x) # {} => \E e \in Bears(x) : e \in Deciding(x)
      BY <2>7, OneDecides
    <3>4. Deciding(x) \subseteq Bears(x)
      BY DEF Deciding
    <3> HIDE DEF Shown
    <3>5. IF x \in shown.arrows THEN Bears(x) = {} \/ {e \in Bears(x) : Shown(e)} # {}
          ELSE {e \in Bears(x) : Shown(e)} # Bears(x)
      BY <3>1, <3>3, <3>4
    <3>6. QED
      BY <3>2, <3>5 DEF Shown
  <2>8. ASSUME s # None
        PROVE  shown.second = (IF page.depth = 2 THEN two ELSE {})
               /\ shown.visible = one \cup shown.second
    <3>1. page.depth \in {1, 2}
      BY <2>1 DEF Page
    <3>2. one \cap two = {}
      OBVIOUS
    <3>3. QED
      BY <2>4, <2>5, <2>8, <3>1, <3>2
  <2>9. QED
    BY <2>1, <2>2, <2>5, <2>7, <2>8 DEF ShownIsCurrent
<1>2. QED
  BY <1>1, Invariance, PTL
=============================================================================
