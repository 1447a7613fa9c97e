------------------------------- MODULE MCSese -------------------------------
EXTENDS Sese

LOCAL INSTANCE FiniteSetsExt

Pair(n) == [from : 1 .. n, to : 1 .. n]

ByEnds(d, e) == d.from < e.from \/ (d.from = e.from /\ d.to < e.to)

Graph(n, root, E) == [nodes |-> n, root |-> root, edges |-> E]

Chain(E) == [i \in DOMAIN E |-> [from |-> E[i][1], to |-> E[i][2]]]

\* Every graph of four nodes with at most five edges and no self loop.
Small == {Graph(4, 1, Sorted(E, ByEnds)) :
            E \in UNION {kSubset(k, {p \in Pair(4) : p.from # p.to}) : k \in 0 .. 5}}

\* Five nodes on a path, and five nodes of which the second has two successors,
\* with two further edges anywhere: branches, loops, parallel edges, self loops,
\* and parts that never reach an exit.  From node 2 the first node may be out of
\* reach.
Spine == Chain(<<<<1, 2>>, <<2, 3>>, <<3, 4>>, <<4, 5>>>>)
Fork == Chain(<<<<1, 2>>, <<2, 3>>, <<2, 4>>, <<4, 5>>>>)

Extended == {Graph(5, 1, base \o <<d, e>>) :
               base \in {Spine, Fork}, d \in Pair(5), e \in Pair(5)}
OffRoot == {Graph(5, 2, base \o <<e>>) : base \in {Spine, Fork}, e \in Pair(5)}

\* Two regions with the same nodes, in a loop that is never left.
Twins == {Graph(6, 1, Chain(<<<<1, 2>>, <<1, 5>>, <<1, 6>>, <<3, 4>>, <<4, 3>>, <<5, 3>>, <<5, 4>>>>))}

\* Three regions with the same nodes before such a loop, and a region that
\* crosses another there: beyond what the canonical tree is promised for.
Triplets == {Graph(5, 1, Chain(<<<<3, 4>>, <<2, 3>>, <<2, 4>>, <<1, 2>>, <<2, 3>>, <<4, 3>>, <<1, 5>>>>))}
Crossed == {Graph(9, 1, Chain(<<<<2, 3>>, <<3, 6>>, <<9, 6>>, <<1, 4>>, <<1, 5>>, <<5, 2>>, <<6, 9>>,
                                <<2, 3>>>>))}

MCGraphs == Small \cup {g \in Extended : ~ByEnds(g.edges[6], g.edges[5])} \cup OffRoot
              \cup Twins \cup Triplets \cup Crossed
=============================================================================
