------------------------------ MODULE MCBoards ------------------------------
\* Two branch heads, three ticks of a second each, one change of the world during
\* any number of requests, and few sources at a time: two boards beside each other,
\* each of the others alone, and the map with the exported head.  Some checkouts
\* are on a branch, some are not; a RepoGround index promises less than the
\* receipt's limit, or more.
EXTENDS Boards

CONSTANTS h1, h2

MCLimit == [k \in Kinds |-> IF k = "repo" THEN 2 ELSE 1]
Setting(sources, configured, release, head) ==
  [sources |-> sources, configured |-> configured, fallback |-> TRUE, fixture |-> 0,
   release |-> release, head |-> head]
MCSettings ==
  {Setting({"bureau", "storage"}, FALSE, h1, h1), Setting({"checkouts"}, FALSE, h1, h1),
   Setting({"axis"}, TRUE, h1, h1), Setting({"repo"}, TRUE, h1, None),
   Setting({"repo"}, FALSE, h1, h1), Setting({"map", "head"}, TRUE, h1, "branch"),
   Setting({"head"}, TRUE, None, "branch")}
=============================================================================
