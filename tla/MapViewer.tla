----------------------------- MODULE MapViewer -----------------------------
(***************************************************************************)
(* The map page in the browser (src/src/public/ecosystem-map.mjs): the     *)
(* explorer with its filters, search, selection and shareable address, the *)
(* viewport with its pointers, and the fullscreen controller, driven by    *)
(* inputs in any order while frames, promises and events of the browser    *)
(* come later.                                                             *)
(*                                                                         *)
(* A view box is where it came from: the whole map, a fit to some nodes,   *)
(* or a pan or zoom.  Keyboard focus and what a screen reader is told are  *)
(* left out; a letter typed into a field is no input here.                 *)
(***************************************************************************)
EXTENDS Naturals, FiniteSets

CONSTANTS
  Navigation,          \* the entries of the page's navigation data
  Rendered,            \* those of them that Mermaid drew
  Edges,               \* the labelled arrows of the definition, pairs of ids
  After,               \* After[e]: how many lines of the definition follow e
  Arrows,              \* the paths and labels that Mermaid drew for arrows
  Carries,             \* Carries[x]: those of Edges whose two ids, joined, occur
                       \* in the id of x: its own and, where an id contains
                       \* another, also others
  TypeOf, LifecycleOf, \* of each entry
  Queries, Hits,       \* Hits[q]: the entries whose text contains q
  Links,               \* the addresses the page is opened with
  Fingers, Mouse,      \* the pointers
  None, Whole, Moved, Junk,
  MaxInputs            \* inputs other than reloads, moves and what the browser does

VARIABLES
  page,       \* type, lifecycle, query, selected, depth and view
  shown,      \* what the page was last drawn as
  url, scheduled,
  frames,     \* animation-frame callbacks of updateUrlNow not yet run
  touch,      \* pointers down, whether they moved, the node a tap would hit
  suppressed, \* clicks are held off after a drag
  due,        \* the node the browser will report a click on
  gesture,    \* what the fingers really did since none was down
  able,       \* the browser offers fullscreen for elements
  overlay, native, \* the page fills the window, or the browser does
  drawn,      \* the page was last drawn as fullscreen
  entering, leaving, \* requests that the browser has not answered
  changed,    \* a fullscreenchange event is queued
  overlapped, \* a request to enter was made while another was open
  inputs

explorerVars == <<page, shown, url, scheduled, frames>>
pointerVars == <<touch, suppressed, due, gesture>>
fullscreenVars == <<able, overlay, native, drawn, entering, leaving, changed, overlapped>>
vars == <<explorerVars, pointerVars, fullscreenVars, inputs>>

ASSUME ViewerAssumption ==
  /\ Rendered \subseteq Navigation /\ None \notin Navigation /\ None \notin Queries
  /\ Hits \in [Queries -> SUBSET Navigation] /\ Edges \subseteq Navigation \X Navigation
  /\ After \in [Edges -> Nat] /\ \A e, f \in Edges : After[e] = After[f] => e = f
  /\ Carries \in [Arrows -> SUBSET Edges]
  /\ Mouse \notin Fingers /\ MaxInputs \in Nat
  \* what an address leaves out, or what does not parse, is no filter and no view
  /\ None # "all" /\ None # 2 /\ \A n \in Navigation : None \notin {TypeOf[n], LifecycleOf[n]}
  /\ \A v \in {Whole, Moved} \cup SUBSET Rendered : v \notin {None, Junk}
  /\ \A u \in Links : /\ u.query \in Queries \cup {None}
                     /\ u.view \in {None, Junk, Whole, Moved} \cup SUBSET Rendered
-----------------------------------------------------------------------------
(***************************************************************************)
(* The explorer                                                            *)
(***************************************************************************)
\* bindExplorer: entries whose node was drawn
Records == Rendered

\* createExplorer: a filter for every value that occurs and has a name
Types == ({TypeOf[n] : n \in Navigation} \ {"other"}) \cup {"all"}
Lifecycles == {LifecycleOf[n] : n \in Navigation} \cup {"all"}

\* parseRelationships: arrows between two records
Relationships == {e \in Edges : e[1] \in Records /\ e[2] \in Records}

\* relationshipIndex: the neighbours in both directions
NeighborsOf(n) ==
  {e[2] : e \in {r \in Relationships : r[1] = n}} \cup {e[1] : e \in {r \in Relationships : r[2] = n}}

\* relationElements: what an arrow belongs to is what its id contains; an arrow
\* without a label, or to a node without a record, may belong to none
Bears(x) == Carries[x] \cap Relationships
\* applyVisualState goes through them in the order of the definition, and each
\* overrules those before it
Deciding(x) == {e \in Bears(x) : \A f \in Bears(x) : After[e] <= After[f]}

\* directFocusSet
DirectFocusSet(n) == {n} \cup NeighborsOf(n)
\* focusSet: a breadth-first walk of `depth' levels
FocusSet(n, depth) ==
  IF depth = 1 THEN DirectFocusSet(n)
  ELSE DirectFocusSet(n) \cup UNION {NeighborsOf(m) : m \in DirectFocusSet(n)}

BaseVisible(p) ==
  {n \in Records : /\ p.type \in {"all", TypeOf[n]}
                   /\ p.lifecycle \in {"all", LifecycleOf[n]}
                   /\ p.query # None => n \in Hits[p.query]}

\* applyVisualState drops a selection that the filters hide ...
Settled(p) ==
  [p EXCEPT !.selected = IF @ # None /\ @ \in BaseVisible(p) THEN @ ELSE None]
\* ... and draws nodes, arrows, results (renderResults) and details (renderDetail)
Drawn(p) ==
  LET s == p.selected
      focused == IF s # None THEN FocusSet(s, p.depth) ELSE BaseVisible(p)
  IN [visible |-> focused,
      second |-> IF s # None THEN focused \ DirectFocusSet(s) ELSE {},
      arrows |-> {x \in Arrows : \A e \in Deciding(x) : e[1] \in focused /\ e[2] \in focused},
      results |-> BaseVisible(p), detail |-> s,
      depth |-> IF s # None THEN p.depth ELSE None]

\* relevantNodes and fitNodes
Fitted(p) ==
  LET nodes == IF p.selected # None THEN FocusSet(p.selected, p.depth) ELSE Records
  IN IF nodes = {} THEN p ELSE [p EXCEPT !.view = nodes]

\* selectRecord, before it draws: filters that would hide the
\* record are lifted
Selecting(p, n) ==
  [p EXCEPT !.type = IF @ \in {"all", TypeOf[n]} THEN @ ELSE "all",
            !.lifecycle = IF @ \in {"all", LifecycleOf[n]} THEN @ ELSE "all",
            !.query = IF @ # None /\ n \notin Hits[@] THEN None ELSE @,
            !.selected = n]

\* updateUrlNow: what the address says
Address(p) ==
  [type |-> IF p.type = "all" THEN None ELSE p.type,
   lifecycle |-> IF p.lifecycle = "all" THEN None ELSE p.lifecycle,
   query |-> p.query, node |-> p.selected,
   depth |-> IF p.selected # None /\ p.depth = 2 THEN 2 ELSE None,
   view |-> IF p.view = Whole THEN None ELSE p.view]

\* seeded fault: a selection is fitted even if the address has a view
RestoredFitting(u) ==
  LET asLinked == [type |-> IF u.type \in Types THEN u.type ELSE "all",
                   lifecycle |-> IF u.lifecycle \in Lifecycles THEN u.lifecycle ELSE "all",
                   query |-> u.query, selected |-> None,
                   depth |-> IF u.depth = 2 THEN 2 ELSE 1,
                   view |-> IF u.view \notin {None, Junk} THEN u.view ELSE Whole]
  IN IF u.node \in Records THEN Fitted(Selecting(asLinked, u.node)) ELSE asLinked
\* seeded fault: the filters of an address are taken at its word
RestoredUnchecked(u) ==
  LET asLinked == [type |-> IF u.type = None THEN "all" ELSE u.type,
                   lifecycle |-> IF u.lifecycle = None THEN "all" ELSE u.lifecycle,
                   query |-> u.query, selected |-> None,
                   depth |-> IF u.depth = 2 THEN 2 ELSE 1, view |-> Whole]
      selecting == IF u.node \in Records THEN Selecting(asLinked, u.node) ELSE asLinked
  IN IF u.view \notin {None, Junk} THEN [selecting EXCEPT !.view = u.view]
     ELSE IF selecting.selected # None THEN Fitted(selecting) ELSE selecting
\* bindExplorer's start: the state an address restores
Restored(u) ==
  LET asLinked == [type |-> IF u.type \in Types THEN u.type ELSE "all",
                   lifecycle |-> IF u.lifecycle \in Lifecycles THEN u.lifecycle ELSE "all",
                   query |-> u.query, selected |-> None,
                   depth |-> IF u.depth = 2 THEN 2 ELSE 1, view |-> Whole]
      selecting == IF u.node \in Records THEN Selecting(asLinked, u.node) ELSE asLinked
  IN IF u.view \notin {None, Junk} THEN [selecting EXCEPT !.view = u.view]  \* parseViewBox
     ELSE IF selecting.selected # None THEN Fitted(selecting) ELSE selecting

Opened(u) ==
  LET p == Restored(u)
      fits == p.selected # None /\ u.view \in {None, Junk}
  IN [page |-> p, shown |-> Drawn(p), url |-> Address(p), frames |-> IF fits THEN 1 ELSE 0]
-----------------------------------------------------------------------------
\* nothing comes between letting go of the mouse and the click
Input == due = None /\ inputs < MaxInputs /\ inputs' = inputs + 1
Aside == UNCHANGED <<pointerVars, fullscreenVars>>

\* scheduleUrlUpdate
ScheduleUrlUpdate ==
  /\ scheduled' = TRUE
  /\ frames' = IF scheduled THEN frames ELSE frames + 1
  /\ UNCHANGED url

\* applyVisualState, then the address is due
Apply(p) ==
  /\ page' = Settled(p)
  /\ shown' = Drawn(Settled(p))
  /\ ScheduleUrlUpdate

\* set: the view box moves, nothing is drawn anew
SetView(p) == page' = p /\ ScheduleUrlUpdate /\ UNCHANGED shown

\* a node by key, a result or a relation: selected, and fitted once it is drawn
SelectFitting(n) ==
  /\ Input /\ Aside
  /\ page' = Fitted(Settled(Selecting(page, n)))
  /\ shown' = Drawn(page')
  /\ ScheduleUrlUpdate
PressNode(n) == SelectFitting(n)
PickResult(n) == n \in shown.results /\ SelectFitting(n)
PickRelation(n) ==
  shown.detail # None /\ n \in NeighborsOf(shown.detail) /\ SelectFitting(n)

Search(q) == q # page.query /\ Input /\ Aside /\ Apply([page EXCEPT !.query = q])
FilterType(t) == Input /\ Aside /\ Apply([page EXCEPT !.type = t])
FilterLifecycle(l) == Input /\ Aside /\ Apply([page EXCEPT !.lifecycle = l])

\* seeded fault: the view is fitted before the page is drawn for the new depth,
\* and the page is not drawn
ToggleDepthUndrawn ==
  /\ shown.detail # None /\ Input /\ Aside
  /\ SetView(Fitted([page EXCEPT !.depth = 3 - @]))
\* the detail's buttons, which are there while it is shown
ToggleDepth ==
  /\ shown.detail # None /\ Input /\ Aside
  /\ page' = Fitted(Settled([page EXCEPT !.depth = 3 - @]))
  /\ shown' = Drawn(page')
  /\ ScheduleUrlUpdate

\* clearSelection
ClearSelection == Apply([page EXCEPT !.selected = None, !.depth = 1])
Deselect == shown.detail # None /\ Input /\ Aside /\ ClearSelection

\* zoom, by button, key or wheel
Zoom == Input /\ Aside /\ SetView([page EXCEPT !.view = Moved])
FitAll == Input /\ Aside /\ SetView([page EXCEPT !.view = Whole])
FitFocus == shown.detail # None /\ Input /\ Aside /\ SetView(Fitted(page))

\* updateUrlNow in an animation frame
Frame ==
  /\ frames > 0 /\ frames' = 0
  /\ scheduled' = FALSE
  /\ url' = Address(page)
  /\ UNCHANGED <<page, shown, pointerVars, fullscreenVars, inputs>>
-----------------------------------------------------------------------------
(***************************************************************************)
(* The viewport's pointers                                                 *)
(***************************************************************************)
Untouched == [down |-> {}, moved |-> FALSE, tap |-> None]
Pointers == Fingers \cup {Mouse}
NoGesture == [pointers |-> {}, far |-> FALSE, on |-> None, press |-> None]
\* pointer i goes down on node n
Touches(i, n) ==
  LET g == IF touch.down = {} THEN [NoGesture EXCEPT !.on = n] ELSE gesture
  IN [g EXCEPT !.pointers = @ \cup {i}, !.press = IF i = Mouse THEN n ELSE @]

\* seeded fault: every finger may start a tap
PointerDownAnyTap(i, n) ==
  /\ i \notin touch.down /\ Input
  /\ touch' = [down |-> touch.down \cup {i}, moved |-> FALSE, tap |-> n]
  /\ gesture' = Touches(i, n)
  /\ UNCHANGED <<explorerVars, suppressed, due, fullscreenVars>>
\* pointerdown, on a node or beside them all: only the first may become a tap
PointerDown(i, n) ==
  /\ i \notin touch.down /\ Input
  /\ touch' = [down |-> touch.down \cup {i}, moved |-> FALSE,
               tap |-> IF touch.down = {} THEN n ELSE None]
  /\ gesture' = Touches(i, n)
  /\ UNCHANGED <<explorerVars, suppressed, due, fullscreenVars>>

\* pointermove: a pan counts as a move once it travelled far enough, a pinch at
\* once
PointerMove(i, far) ==
  /\ i \in touch.down /\ due = None
  /\ LET moves == far \/ Cardinality(touch.down) > 1
     IN touch' = [touch EXCEPT !.moved = @ \/ moves, !.tap = IF moves THEN None ELSE @]
  /\ gesture' = [gesture EXCEPT !.far = @ \/ far]
  /\ SetView([page EXCEPT !.view = Moved])
  /\ UNCHANGED <<suppressed, due, fullscreenVars, inputs>>

\* finishPointer, of pointerup and pointercancel alike: the last finger of a tap
\* selects (the touch-tap event), and a move holds off clicks.  After the mouse
\* button the browser may go on to a click; the one it may report after a finger
\* is left out, as are pointers it reports as lifted but never as put down.
FinishPointer(i) ==
  LET down == touch.down \ {i}
      tapped == down = {} /\ ~ touch.moved /\ i \in Fingers /\ touch.tap # None
  IN /\ i \in touch.down /\ due = None
     /\ touch' = [touch EXCEPT !.down = down, !.tap = IF down = {} THEN None ELSE @]
     /\ suppressed' = (suppressed \/ touch.moved)
     /\ due' \in {None, IF i = Mouse THEN gesture.press ELSE None}
     /\ IF tapped THEN Apply(Selecting(page, touch.tap)) ELSE UNCHANGED explorerVars
     /\ UNCHANGED <<gesture, fullscreenVars, inputs>>

\* the click, held off right after a move
Click ==
  /\ due # None /\ due' = None
  /\ IF suppressed THEN UNCHANGED explorerVars ELSE Apply(Selecting(page, due))
  /\ UNCHANGED <<touch, suppressed, gesture, fullscreenVars, inputs>>

\* a quarter of a second without one
Calm ==
  /\ suppressed /\ due = None /\ suppressed' = FALSE
  /\ UNCHANGED <<explorerVars, touch, due, gesture, fullscreenVars, inputs>>
-----------------------------------------------------------------------------
(***************************************************************************)
(* Fullscreen                                                              *)
(***************************************************************************)
Active == overlay \/ native
Modes == <<overlay, native, drawn>>

\* enter: the browser is asked if it can, else the overlay takes its place
Enter ==
  IF able
  THEN /\ entering' = entering + 1
       /\ overlapped' = (overlapped \/ entering > 0)
       /\ UNCHANGED <<Modes, able, leaving, changed>>
  ELSE /\ overlay' = TRUE /\ drawn' = TRUE
       /\ UNCHANGED <<native, able, entering, leaving, changed, overlapped>>

\* exit
Exit ==
  IF native
  THEN /\ leaving' = leaving + 1
       /\ UNCHANGED <<Modes, able, entering, changed, overlapped>>
  ELSE /\ overlay' = FALSE /\ drawn' = FALSE
       /\ UNCHANGED <<native, able, entering, leaving, changed, overlapped>>

\* the button and the letter f
Toggle ==
  /\ Input /\ UNCHANGED <<explorerVars, pointerVars>>
  /\ IF Active THEN Exit ELSE Enter

\* the close button is hidden while nothing is drawn
Close ==
  /\ drawn /\ Active /\ Input
  /\ Exit /\ UNCHANGED <<explorerVars, pointerVars>>

\* Escape: fullscreen takes it first and keeps it
Escape ==
  /\ Input /\ UNCHANGED pointerVars
  /\ IF Active THEN Exit /\ UNCHANGED explorerVars
     ELSE page.selected # None /\ ClearSelection /\ UNCHANGED fullscreenVars

BrowserDoes == UNCHANGED <<explorerVars, pointerVars, inputs, able, overlapped>>
\* the browser's answers to a request to enter
Granted ==
  /\ entering > 0 /\ entering' = entering - 1
  /\ native' = TRUE /\ changed' = (changed \/ ~ native)
  /\ UNCHANGED <<overlay, drawn, leaving>> /\ BrowserDoes
Refused ==
  /\ entering > 0 /\ entering' = entering - 1
  /\ overlay' = TRUE /\ drawn' = TRUE
  /\ UNCHANGED <<native, leaving, changed>> /\ BrowserDoes
\* to leave: done, or refused because it is not in fullscreen any more
Left ==
  /\ leaving > 0 /\ leaving' = leaving - 1
  /\ native' = FALSE /\ changed' = (changed \/ native)
  /\ UNCHANGED <<overlay, drawn, entering>> /\ BrowserDoes
\* the browser leaves by itself, by its own key or gesture
BrowserLeaves ==
  /\ native /\ native' = FALSE /\ changed' = TRUE
  /\ UNCHANGED <<overlay, drawn, entering, leaving>> /\ BrowserDoes

\* seeded fault: the overlay is not asked about
FullscreenChangeAlways ==
  /\ changed /\ changed' = FALSE
  /\ overlay' = (overlay /\ ~ native) /\ drawn' = native
  /\ UNCHANGED <<native, entering, leaving>> /\ BrowserDoes
\* the fullscreenchange listener
FullscreenChange ==
  /\ changed /\ changed' = FALSE
  /\ IF native THEN overlay' = FALSE /\ drawn' = TRUE
     ELSE drawn' = (overlay /\ drawn) /\ UNCHANGED overlay
  /\ UNCHANGED <<native, entering, leaving>> /\ BrowserDoes
-----------------------------------------------------------------------------
\* renderEcosystemMap: everything is set up from the address
Init ==
  /\ \E u \in Links :
       /\ page = Opened(u).page /\ shown = Opened(u).shown
       /\ url = Opened(u).url /\ frames = Opened(u).frames
  /\ scheduled = FALSE
  /\ touch = Untouched /\ gesture = NoGesture /\ suppressed = FALSE /\ due = None
  /\ able \in BOOLEAN /\ overlay = FALSE /\ native = FALSE /\ drawn = FALSE
  /\ entering = 0 /\ leaving = 0 /\ changed = FALSE /\ overlapped = FALSE
  /\ inputs = 0

Reload ==
  /\ due = None /\ UNCHANGED inputs
  /\ page' = Opened(url).page /\ shown' = Opened(url).shown
  /\ url' = Opened(url).url /\ frames' = Opened(url).frames
  /\ scheduled' = FALSE
  /\ touch' = Untouched /\ gesture' = NoGesture /\ suppressed' = FALSE /\ due' = None
  /\ overlay' = FALSE /\ native' = FALSE /\ drawn' = FALSE /\ UNCHANGED able
  /\ entering' = 0 /\ leaving' = 0 /\ changed' = FALSE /\ overlapped' = FALSE

Next ==
  \/ \E n \in Records : PressNode(n) \/ PickResult(n) \/ PickRelation(n)
  \/ \E q \in Queries \cup {None} : Search(q)
  \/ \E t \in Types : FilterType(t)
  \/ \E l \in Lifecycles : FilterLifecycle(l)
  \/ ToggleDepth \/ Deselect \/ Zoom \/ FitAll \/ FitFocus \/ Frame
  \/ \E i \in Pointers :
       \/ \E n \in shown.visible \cup {None} : PointerDown(i, n)
       \/ \E far \in BOOLEAN : PointerMove(i, far)
       \/ FinishPointer(i)
  \/ Click \/ Calm
  \/ Toggle \/ Close \/ Escape
  \/ Granted \/ Refused \/ Left \/ BrowserLeaves \/ FullscreenChange
  \/ Reload

Spec == Init /\ [][Next]_vars
-----------------------------------------------------------------------------
(***************************************************************************)
(* Properties                                                              *)
(***************************************************************************)
Node == Records \cup {None}
Page == [type : Types, lifecycle : Lifecycles, query : Queries \cup {None}, selected : Node,
         depth : {1, 2}, view : {Whole, Moved} \cup SUBSET Records]
Linked(u) ==
  u.query \in Queries \cup {None} /\ u.view \in {None, Junk, Whole, Moved} \cup SUBSET Records
TypeOK ==
  /\ page \in Page /\ Linked(url)
  /\ shown.visible \subseteq Records /\ shown.detail \in Node
  /\ scheduled \in BOOLEAN /\ frames \in 0..2
  /\ touch \in [down : SUBSET Pointers, moved : BOOLEAN, tap : Node]
  /\ gesture \in [pointers : SUBSET Pointers, far : BOOLEAN, on : Node, press : Node]
  /\ suppressed \in BOOLEAN /\ due \in Node
  /\ able \in BOOLEAN /\ overlay \in BOOLEAN /\ native \in BOOLEAN /\ drawn \in BOOLEAN
  /\ entering \in Nat /\ leaving \in Nat
  /\ changed \in BOOLEAN /\ overlapped \in BOOLEAN /\ inputs \in Nat

LetsGo == Click \/ \E i \in Pointers : FinishPointer(i)
Near(m, n) == <<m, n>> \in Relationships \/ <<n, m>> \in Relationships

\* However the page got here, what it shows is what its filters and selection
\* mean: the selected record is among the results, and with one selected the
\* nodes shown are those at most `depth' arrows away, faint at exactly two; else
\* those that pass every filter.  An arrow is shown with both ends and hidden
\* without: one that belongs to a single relationship exactly so, one whose id
\* contains several is shown only if both ends of one of them are, and hidden only
\* if an end of one of them is not.
ShownIsCurrent ==
  LET s == page.selected
      passing == {n \in Records : /\ page.type # "all" => TypeOf[n] = page.type
                                  /\ page.lifecycle # "all" => LifecycleOf[n] = page.lifecycle
                                  /\ page.query # None => n \in Hits[page.query]}
      two == {n \in Records \ {s} : ~ Near(s, n) /\ \E m \in Records : Near(s, m) /\ Near(m, n)}
      one == {n \in Records : n = s \/ Near(s, n)}
  IN /\ shown.results = passing /\ shown.detail = s
     /\ s = None => shown.visible = passing /\ shown.second = {}
     /\ s # None => /\ s \in passing
                    /\ shown.second = IF page.depth = 2 THEN two ELSE {}
                    /\ shown.visible = one \cup shown.second
     /\ \A x \in Arrows :
          LET own == {e \in Carries[x] : e[1] \in Records /\ e[2] \in Records}
              joined == {e \in own : e[1] \in shown.visible /\ e[2] \in shown.visible}
          IN IF x \in shown.arrows THEN own = {} \/ joined # {} ELSE joined # own

\* The address is shareable: once no frame is due, loading it again shows the same
\* nodes, filters, selection and view, whatever led here; only the whole map with
\* a record selected comes back fitted to that record, as no view is written for
\* it.
ReloadShowsTheSame ==
  [][frames = 0 /\ Reload =>
       /\ shown' = shown
       /\ page' = [page EXCEPT !.depth = IF page.selected = None THEN 1 ELSE @,
                               !.view = IF @ = Whole THEN page'.view ELSE @]
       /\ page.view = Whole /\ page.selected = None => page'.view = Whole]_vars

\* A drag selects nothing.  A tap selects only the node it began on, if no second
\* pointer came down and none went far; a click only the node under the mouse, and
\* after a drag only if another pointer came down meanwhile.
DragSelectsNothing ==
  [][page'.selected # page.selected /\ LetsGo =>
       LET alone == Cardinality(gesture.pointers) = 1
       IN \/ due = None /\ page'.selected = gesture.on /\ alone /\ ~ gesture.far
          \/ due # None /\ page'.selected = gesture.press /\ (gesture.far => ~ alone)]_vars

\* Once the browser has answered every request and told every change, the page is
\* drawn as fullscreen if and only if it is; and the overlay and the browser's
\* fullscreen hide each other's way out only after two requests overlapped.
FullscreenSettles ==
  entering = 0 /\ leaving = 0 /\ ~ changed =>
    /\ drawn = Active
    /\ overlay /\ native => overlapped
=============================================================================
