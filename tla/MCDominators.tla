---------------------------- MODULE MCDominators ----------------------------
(* Every graph of four nodes with at most two successors each and no self   *)
(* loop, and every graph of five nodes in which the search first follows a  *)
(* path through all of them and each node has at most one further           *)
(* successor, itself and its neighbour on the path included.                *)
EXTENDS Dominators

MCNodes == 0 .. 4

Lists(S) == {<<>>} \cup {<<a>> : a \in S} \cup {l \in S \X S : l[1] # l[2]}

\* The first successor of the root is node 1, up to renaming.
Small == {[n \in MCNodes |-> IF n = 4 THEN <<>> ELSE g[n]] :
            g \in {h \in [0 .. 3 -> Lists(0 .. 3)] :
                      /\ h[0] # <<>> /\ h[0][1] = 1
                      /\ \A n \in 0 .. 3 : \A i \in DOMAIN h[n] : h[n][i] # n}}

Further == {<<>>} \cup {<<a>> : a \in MCNodes}

Spine == {[n \in MCNodes |-> IF n = 4 THEN g[n] ELSE <<n + 1>> \o g[n]] :
            g \in [MCNodes -> Further]}

MCGraphs == Small \cup Spine
=============================================================================
