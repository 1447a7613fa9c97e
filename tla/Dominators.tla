----------------------------- MODULE Dominators -----------------------------
(***************************************************************************)
(* compute_dominators of src/graph/analysis/dominator.rs: the algorithm of *)
(* Lengauer and Tarjan over a successor relation, and the queries of the   *)
(* DominatorTree it returns.  The graph is fixed; its successors come in   *)
(* an arbitrary order, which decides the numbering of the search.          *)
(*                                                                         *)
(* The vectors of LtState are sequences indexed by search number, from 1;  *)
(* the code's dummy entry at index 0 is the value 0.                       *)
(***************************************************************************)
EXTENDS Naturals, Sequences, SequencesExt

CONSTANTS
    Nodes,
    Root,
    Graphs      \* successor lists: functions from nodes to sequences of nodes

ASSUME DominatorsAssumption ==
    Root \in Nodes /\ Graphs \subseteq [Nodes -> Seq(Nodes)]

VARIABLES
    graph,
    node_set,   \* the nodes reachable from the root
    stage,      \* the loop of run_lengauer_tarjan that is running
    frames,     \* the recursion of dfs: number and next successor of each call
    lt,         \* LtState
    w           \* the loop variable

vars == <<graph, node_set, stage, frames, lt, w>>

last_index == Len(lt.vertex)

push_vertex(s, node, parent) ==
    LET idx == Len(s.vertex) + 1
    IN [vertex   |-> Append(s.vertex, node),
        parent   |-> Append(s.parent, parent),
        semi     |-> Append(s.semi, idx),
        idom     |-> Append(s.idom, 0),
        ancestor |-> Append(s.ancestor, 0),
        label    |-> Append(s.label, idx),
        bucket   |-> Append(s.bucket, <<>>),
        pred     |-> Append(s.pred, <<>>)]

NoVertex == [vertex |-> <<>>, parent |-> <<>>, semi |-> <<>>, idom |-> <<>>,
             ancestor |-> <<>>, label |-> <<>>, bucket |-> <<>>, pred |-> <<>>]

Numbered(node) == \E i \in 1 .. last_index : lt.vertex[i] = node

number(node) == CHOOSE i \in 1 .. last_index : lt.vertex[i] = node

-----------------------------------------------------------------------------
(* The forest of the vertices linked so far.                               *)

\* The label with the smaller semidominator, of v and of its ancestor a.
Better(s, a, v) ==
    IF s.semi[s.label[a]] < s.semi[s.label[v]] THEN s.label[a] ELSE s.label[v]

\* Fault: the path is compressed but the labels stay.
compressUnlabelled(s, v) ==
    LET c[x \in 1 .. v] ==
          LET a == s.ancestor[x]
          IN IF a # 0 /\ s.ancestor[a] # 0
             THEN [c[a] EXCEPT !.ancestor[x] = c[a].ancestor[a]]
             ELSE s
    IN c[v]

\* Ancestors have smaller numbers than their descendants.
compress(s, v) ==
    LET c[x \in 1 .. v] ==
          LET a == s.ancestor[x]
          IN IF a # 0 /\ s.ancestor[a] # 0
             THEN [c[a] EXCEPT !.label[x] = Better(c[a], a, x),
                               !.ancestor[x] = c[a].ancestor[a]]
             ELSE s
    IN c[v]

\* The state after eval(v), which returns the label v has then.
eval(s, v) ==
    LET t == compress(s, v)
    IN IF s.ancestor[v] = 0 THEN s ELSE [t EXCEPT !.label[v] = Better(t, t.ancestor[v], v)]

link(s, parent, child) == [s EXCEPT !.ancestor[child] = parent]

\* One predecessor of x in the loop that computes its semidominator.
lower_semi(s, x, v) ==
    LET t == eval(s, v)
        u == t.label[v]
    IN IF t.semi[u] < t.semi[x] THEN [t EXCEPT !.semi[x] = t.semi[u]] ELSE t

\* One vertex of the bucket of p, whose semidominator is p.
settle(s, p, v) ==
    LET t == eval(s, v)
        u == t.label[v]
    IN [t EXCEPT !.idom[v] = IF t.semi[u] < t.semi[v] THEN u ELSE p]

semidominate(s, x) ==
    LET t[i \in 0 .. Len(s.pred[x])] ==
          IF i = 0 THEN s ELSE lower_semi(t[i - 1], x, s.pred[x][i])
        low == t[Len(s.pred[x])]
    IN [low EXCEPT !.bucket[low.semi[x]] = Append(@, x)]

empty_bucket(s, p) ==
    LET t[i \in 0 .. Len(s.bucket[p])] ==
          IF i = 0 THEN [s EXCEPT !.bucket[p] = <<>>] ELSE settle(t[i - 1], p, s.bucket[p][i])
    IN t[Len(s.bucket[p])]

-----------------------------------------------------------------------------
Succ(m) == {graph[m][i] : i \in 1 .. Len(graph[m])}

\* The nodes reached from the nodes in From through nodes in Through.
ReachedFrom(From, Through) ==
    {n \in Nodes : \A S \in SUBSET Nodes :
        From \subseteq S /\ (\A m \in S \cap Through : Succ(m) \subseteq S) => n \in S}

\* The nodes its worklist visits.
reachable_from_root == ReachedFrom({Root}, Nodes)

Init == /\ graph \in Graphs
        /\ node_set = reachable_from_root
        /\ stage = "dfs"
        /\ lt = push_vertex(NoVertex, Root, 0)
        /\ frames = <<[idx |-> 1, next |-> 1]>>
        /\ w = 0

Top == Last(frames)

Successors == graph[lt.vertex[Top.idx]]

\* The loop of dfs reaches a successor with no number: the call is entered,
\* and the caller looks at the same successor again when it returns.
Descend ==
    /\ stage = "dfs"
    /\ Top.next <= Len(Successors)
    /\ Successors[Top.next] \in node_set /\ ~Numbered(Successors[Top.next])
    /\ lt' = push_vertex(lt, Successors[Top.next], Top.idx)
    /\ frames' = Append(frames, [idx |-> last_index + 1, next |-> 1])
    /\ UNCHANGED <<graph, node_set, stage, w>>

\* A successor outside node_set is passed over.
RecordPred ==
    /\ stage = "dfs"
    /\ Top.next <= Len(Successors)
    /\ LET succ == Successors[Top.next]
       IN /\ succ \in node_set => Numbered(succ)
          /\ lt' = IF succ \in node_set
                   THEN [lt EXCEPT !.pred[number(succ)] = Append(@, Top.idx)] ELSE lt
    /\ frames' = Append(Front(frames), [Top EXCEPT !.next = @ + 1])
    /\ UNCHANGED <<graph, node_set, stage, w>>

Return ==
    /\ stage = "dfs"
    /\ Top.next > Len(Successors)
    /\ frames' = Front(frames)
    /\ IF Len(frames) > 1
       THEN UNCHANGED <<stage, w>>
       ELSE stage' = "semi" /\ w' = last_index
    /\ UNCHANGED <<graph, node_set, lt>>

\* One vertex of the backward loop.
Semidominator ==
    /\ stage = "semi"
    /\ w >= 2
    /\ lt' = empty_bucket(link(semidominate(lt, w), lt.parent[w], w), lt.parent[w])
    /\ w' = w - 1
    /\ UNCHANGED <<graph, node_set, stage, frames>>

SemiDone ==
    stage = "semi" /\ w < 2 /\ stage' = "idom" /\ w' = 2 /\ UNCHANGED <<graph, node_set, frames, lt>>

\* Fault: the vertices whose dominator was deferred keep the vertex they were
\* deferred to.
ImmediateDeferred ==
    /\ stage = "idom"
    /\ w <= last_index
    /\ w' = w + 1
    /\ UNCHANGED <<graph, node_set, stage, frames, lt>>

\* One vertex of the forward loop.
Immediate ==
    /\ stage = "idom"
    /\ w <= last_index
    /\ lt' = IF lt.idom[w] # lt.semi[w] THEN [lt EXCEPT !.idom[w] = lt.idom[lt.idom[w]]] ELSE lt
    /\ w' = w + 1
    /\ UNCHANGED <<graph, node_set, stage, frames>>

ImmediateDone ==
    stage = "idom" /\ w > last_index /\ stage' = "done" /\ UNCHANGED <<graph, node_set, frames, lt, w>>

Next == Descend \/ RecordPred \/ Return \/ Semidominator \/ SemiDone \/ Immediate \/ ImmediateDone

Spec == Init /\ [][Next]_vars

-----------------------------------------------------------------------------
(* The DominatorTree: the maps from nodes it is built from, and its        *)
(* queries.                                                                *)

analyzed == {lt.vertex[i] : i \in 1 .. last_index}

idom == [n \in analyzed \ {Root} |-> lt.vertex[lt.idom[number(n)]]]

preds == [n \in analyzed |-> IF n = Root THEN <<>>
                             ELSE [i \in 1 .. Len(lt.pred[number(n)]) |->
                                     lt.vertex[lt.pred[number(n)][i]]]]

children_of(n) == {c \in DOMAIN idom : idom[c] = n}

\* The nodes from n up to the root.
dominator_set(n) ==
    LET up[x \in analyzed] == {x} \cup IF x \in DOMAIN idom THEN up[idom[x]] ELSE {}
    IN up[n]

dominates(d, n) == n \in analyzed /\ d \in dominator_set(n)

\* Fault: the runner passes the immediate dominator.
runnersToRoot(p, stop) == dominator_set(p)

\* The nodes the runner visits from p up, before it meets stop.
runners(p, stop) ==
    LET up[x \in analyzed] ==
          IF x = stop THEN {} ELSE {x} \cup IF x \in DOMAIN idom THEN up[idom[x]] ELSE {}
    IN up[p]

dominator_frontier(r) ==
    {n \in DOMAIN idom : /\ Len(preds[n]) >= 2
                         /\ \E i \in 1 .. Len(preds[n]) : r \in runners(preds[n][i], idom[n])}

-----------------------------------------------------------------------------
(* The definitions the algorithm is to agree with, by paths.               *)

\* Every path from the root to n passes through d.
Dom(d, n) == d = n \/ n \notin ReachedFrom({Root} \ {d}, Nodes \ {d})

StrictDom(d, n) == d # n /\ Dom(d, n)

\* Vertex v starts a path to x that passes only through numbers above x.
SemiPath(v, x) ==
    LET above == {lt.vertex[i] : i \in x + 1 .. last_index}
    IN lt.vertex[x] \in ReachedFrom(Succ(lt.vertex[v]), above)

-----------------------------------------------------------------------------
\* Once a vertex was processed, its semidominator is the smallest number that
\* starts a path to it through larger numbers.
SemiExact ==
    stage = "semi" =>
        \A x \in w + 1 .. last_index :
            /\ x >= 2 => SemiPath(lt.semi[x], x)
            /\ \A v \in 1 .. lt.semi[x] - 1 : ~SemiPath(v, x)

\* The tree covers the reachable nodes, and its queries answer dominance as
\* the paths define it: the immediate dominator is the closest strict one.  That
\* is the definition of dominator.rs:4-5, by which the root dominates every node of
\* the tree; line 6, "The root dominates only itself.", says otherwise and fails in
\* every tree of two nodes.  Dominated only by itself is what the root is.
DominanceExact ==
    stage = "done" =>
        /\ analyzed = node_set
        /\ \A n \in node_set : \A d \in Nodes : dominates(d, n) <=> Dom(d, n)
        /\ \A n \in node_set \ {Root} :
              /\ StrictDom(idom[n], n)
              /\ \A d \in Nodes : StrictDom(d, n) => Dom(d, idom[n])

\* The dominance frontier of a node, as its comment defines it, for every
\* node but the root as a member.
InFrontier(y, n) == /\ \E p \in node_set : y \in Succ(p) /\ Dom(n, p)
                    /\ ~StrictDom(n, y)

FrontierExact ==
    stage = "done" =>
        \A n \in node_set : dominator_frontier(n) = {y \in node_set \ {Root} : InFrontier(y, n)}

\* What the comment on dominator_frontier says, the root included.
FrontierAsDocumented ==
    stage = "done" =>
        \A n \in node_set : dominator_frontier(n) = {y \in node_set : InFrontier(y, n)}

=============================================================================
