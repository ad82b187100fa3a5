SPECIFICATION Spec
CONSTANTS
  None = None
  Whole = Whole
  Moved = Moved
  Junk = Junk
  a = a
  b = b
  c = c
  ghost = ghost
  Navigation = {a, b, c, ghost}
  Rendered = {a, b, c}
  Edges <- MCEdges
  After <- MCAfter
  Arrows = {"a-b", "b-c", "c-ghost"}
  Carries <- MCCarries
  TypeOf <- MCTypeOf
  LifecycleOf <- MCLifecycleOf
  Queries = {"ab"}
  Hits <- MCHits
  Links <- MCLinks
  Fingers = {"finger"}
  Mouse = "mouse"
  MaxInputs = 3
INVARIANTS TypeOK ShownIsCurrent FullscreenSettles
PROPERTIES ReloadShowsTheSame DragSelectsNothing
