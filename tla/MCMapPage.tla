----------------------------- MODULE MCMapPage ------------------------------
(***************************************************************************)
(* A history of four commits: c2 continues c1 with the same files, c3      *)
(* continues c2 with another map, side branches off c1 with c1's files.    *)
(* The two maps have the same length; both repeat a node, once under its   *)
(* own and once under another Mermaid id.                                  *)
(***************************************************************************)
EXTENDS MapPage, TLC

CONSTANTS c1, c2, c3, side, m1, m2, r1, mapFile, nodes, n1, n2, x, y

MCTree == [c \in Commits |-> [a \in Artifacts |->
             IF a = nodes THEN r1 ELSE IF c = c3 THEN m2 ELSE m1]]
MCAncestors ==
  c1 :> {c1} @@ c2 :> {c1, c2} @@ c3 :> {c1, c2, c3} @@ side :> {c1, side}
MCSize == m1 :> 2 @@ m2 :> 2 @@ r1 :> 1

Line(mermaid, node) == [mermaid |-> mermaid, node |-> node]
MCLines ==
  m1 :> <<Line(None, None), Line(x, n1), Line(y, n1), Line(x, n2), Line(y, n2)>> @@
  m2 :> <<Line(x, n2), Line(x, n1), Line(y, n2)>> @@
  r1 :> <<>>
MCRegistry == m1 :> Malformed @@ m2 :> Malformed @@ r1 :> (n1 :> "active")

Mapping(node, status, targets) == [node |-> node, status |-> status, targets |-> targets]
MCLinkFiles ==
  {Absent, <<Mapping(n1, "linked", 1), Mapping(n2, "unmapped", 0)>>,
   <<Mapping(n1, "linked", 1), Mapping(n1, "unmapped", 0)>>,
   <<Mapping(n2, "linked", 0)>>}
=============================================================================
