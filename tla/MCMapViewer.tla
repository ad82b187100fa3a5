---------------------------- MODULE MCMapViewer ----------------------------
\* Three nodes in a chain and one that was not drawn: every filter hides
\* something, and the ends of the chain are at distance two.  The id of c contains
\* those of a and b, so that the arrow from b to c is also taken for the one
\* from a to b, which the definition has later; the third leads to the node that
\* was not drawn.
EXTENDS MapViewer, TLC

CONSTANTS a, b, c, ghost

MCTypeOf == [n \in Navigation |-> IF n = b THEN "service" ELSE "repo"]
MCLifecycleOf == [n \in Navigation |-> IF n = c THEN "retired" ELSE "active"]
MCEdges == {<<a, b>>, <<b, c>>, <<c, ghost>>}
MCAfter == [e \in Edges |-> CASE e = <<a, b>> -> 0 [] e = <<b, c>> -> 1 [] OTHER -> 2]
MCCarries ==
  "a-b" :> {<<a, b>>} @@ "b-c" :> {<<a, b>>, <<b, c>>} @@ "c-ghost" :> {<<c, ghost>>}
MCHits == [q \in Queries |-> {a, b}]
\* a shared selection that its own filters hide, and the address of another page:
\* filters and a node that are gone, and a view that does not parse
MCLinks ==
  {[type |-> "service", lifecycle |-> "retired", query |-> None, node |-> a,
    depth |-> 2, view |-> None],
   [type |-> "gone", lifecycle |-> "gone", query |-> None, node |-> ghost,
    depth |-> 2, view |-> Junk]}
=============================================================================
