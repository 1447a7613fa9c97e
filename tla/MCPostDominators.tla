-------------------------- MODULE MCPostDominators --------------------------
(* Four nodes with at most two successors each and no self loop, in one     *)
(* order without an exit and in the reverse order with one; and three nodes *)
(* of a graph of four, self loops included, with one and with two exits.    *)
EXTENDS PostDominators, FiniteSets

MCNode == 0 .. 3

AtMostTwo(S) == {T \in SUBSET S : Cardinality(T) <= 2}

Loopless == {g \in [MCNode -> AtMostTwo(MCNode)] : \A n \in MCNode : n \notin g[n]}

Whole == [succ : Loopless, nodes : {<<0, 1, 2, 3>>}, exit_set : {{}}]
    \cup [succ : Loopless, nodes : {<<3, 2, 1, 0>>}, exit_set : {{3}}]

Part == [succ : {[n \in MCNode |-> IF n = 3 THEN {0} ELSE g[n]] :
                    g \in [0 .. 2 -> AtMostTwo(MCNode)]},
         nodes : {<<0, 1, 2>>},
         exit_set : {{2}, {1, 2}}]

MCInputs == Whole \cup Part
=============================================================================
