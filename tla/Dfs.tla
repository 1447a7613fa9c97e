-------------------------------- MODULE Dfs --------------------------------
(***************************************************************************)
(* DfsIter of src/graph.rs over the edge iterators of src/graph/node.rs: a *)
(* stack of (tree edge, node) pairs that may hold a node several times,    *)
(* and the set of visited nodes that filters the repetitions out.          *)
(*                                                                         *)
(* The iterator borrows the graph, so the graph does not change under it.  *)
(* A node's incident edges sit in a hash set: their order is arbitrary.    *)
(***************************************************************************)
EXTENDS Naturals, SequencesExt

CONSTANTS
    Nodes,
    EdgeIds,
    Root,       \* where the traversal starts
    Graphs,     \* the graphs explored: functions from edge ids to endpoints
    None        \* the tree edge of the root

ASSUME DfsAssumption ==
    /\ Root \in Nodes /\ None \notin EdgeIds /\ IsFiniteSet(EdgeIds)
    /\ Graphs \subseteq [EdgeIds -> [from : Nodes, to : Nodes]]

VARIABLES
    graph,
    mode,       \* the type parameter Mode
    visited,
    stack,      \* the top is the last element
    yielded     \* history: what next() returned so far

vars == <<graph, mode, visited, stack, yielded>>

-----------------------------------------------------------------------------
(* What children() and edges() of a node yield, as sets of edges, and the  *)
(* node an edge leads to.                                                  *)

ChildMode(n) == {e \in EdgeIds : graph[e].from = n}

EdgeMode(n) == {e \in EdgeIds : n \in {graph[e].from, graph[e].to}}

Items(n) == IF mode = "directed" THEN ChildMode(n) ELSE EdgeMode(n)

\* Fault: an undirected traversal takes every edge to lead to its target.
node_idTarget(n, e) == graph[e].to

node_id(n, e) == IF n = graph[e].from THEN graph[e].to ELSE graph[e].from

-----------------------------------------------------------------------------
Init == /\ graph \in Graphs
        /\ mode \in {"directed", "undirected"}
        /\ visited = {}
        /\ stack = <<[edge |-> None, node |-> Root]>>
        /\ yielded = <<>>

\* Fault: the entry is looked at, not popped.
SkipPeeking ==
    /\ stack # <<>>
    /\ Last(stack).node \in visited
    /\ UNCHANGED vars

\* The loop of next() drops entries whose node was reached in the meantime.
Skip ==
    /\ stack # <<>>
    /\ Last(stack).node \in visited
    /\ stack' = Front(stack)
    /\ UNCHANGED <<graph, mode, visited, yielded>>

\* Fault: entries are pushed at the far end, as into a queue.
PushedBelow(rest, new) == new \o rest

Pushed(rest, new) == rest \o new

\* The entries n pushes: only edges to nodes not visited yet, n itself counted.
Found(n) == {e \in Items(n) : node_id(n, e) \notin visited \cup {n}}

Entries(n, order) ==
    [i \in 1 .. Len(order) |-> [edge |-> order[i], node |-> node_id(n, order[i])]]

Visit(n) ==
    /\ stack # <<>>
    /\ n = Last(stack).node
    /\ n \notin visited
    /\ visited' = visited \cup {n}
    /\ \E order \in SetToSeqs(Found(n)) :
          stack' = Pushed(Front(stack), Entries(n, order))
    /\ yielded' = Append(yielded, Last(stack))
    /\ UNCHANGED <<graph, mode>>

\* With an empty stack next() returns None, however often it is called.
Exhausted == stack = <<>> /\ UNCHANGED vars

Next == Skip \/ (\E n \in Nodes : Visit(n)) \/ Exhausted

\* The consumer drains the iterator.
Spec == Init /\ [][Next]_vars /\ WF_vars(Next)

-----------------------------------------------------------------------------
\* Edge e leads from m to n, in the reading the mode gives it.
Leads(e, m, n) ==
    \/ graph[e] = [from |-> m, to |-> n]
    \/ mode = "undirected" /\ graph[e] = [from |-> n, to |-> m]

Adjacent(m, n) == \E e \in EdgeIds : Leads(e, m, n)

\* The nodes in every closed set that holds the root.
Reachable ==
    {n \in Nodes : \A S \in SUBSET Nodes :
        Root \in S /\ (\A m \in S, k \in Nodes : Adjacent(m, k) => k \in S) => n \in S}

\* A traversal yields no node twice and only reachable ones; an exhausted one has
\* yielded them all.
YieldsReachable ==
    LET found == {yielded[i].node : i \in 1 .. Len(yielded)}
    IN /\ \A i, j \in 1 .. Len(yielded) : yielded[i].node = yielded[j].node => i = j
       /\ found \subseteq Reachable
       /\ stack = <<>> => found = Reachable

\* The traversal is depth first: each node but the root comes with an edge that
\* leads to it from the latest node yielded before that it is a neighbour of,
\* although the stack may hold it under several older edges.
DepthFirst ==
    \A i \in 2 .. Len(yielded) : \E j \in 1 .. i - 1 :
        /\ Leads(yielded[i].edge, yielded[j].node, yielded[i].node)
        /\ \A k \in j + 1 .. i - 1 : ~Adjacent(yielded[k].node, yielded[i].node)

\* Whatever cycles the graph has, the traversal ends.
Drained == <>(stack = <<>>)

=============================================================================
