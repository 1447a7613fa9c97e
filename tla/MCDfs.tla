------------------------------- MODULE MCDfs -------------------------------
(* Every multigraph of four edges over four nodes, up to the numbering of   *)
(* its edges, which the arbitrary order of the hash sets makes irrelevant.  *)
EXTENDS Dfs

MCNodes == 0 .. 3
MCEdgeIds == 1 .. 4

Rank(e) == 4 * e.from + e.to

MCGraphs == {g \in [MCEdgeIds -> [from : MCNodes, to : MCNodes]] :
                \A e \in 1 .. 3 : Rank(g[e]) <= Rank(g[e + 1])}
=============================================================================
