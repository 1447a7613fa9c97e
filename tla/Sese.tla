-------------------------------- MODULE Sese --------------------------------
(***************************************************************************)
(* compute_sese and compute_sese_candidates of src/graph/analysis/sese.rs: *)
(* the reachable part of a graph becomes a flowgraph with one exit that    *)
(* leads back to the root, CycleClasses gives its edges classes, pairs of  *)
(* edges that bound a region are selected, and the regions become a tree.  *)
(*                                                                         *)
(* A graph is a record of its edges, in the order of their ids, the number *)
(* of its nodes and the root.                                              *)
(***************************************************************************)
EXTENDS CycleClasses

CONSTANTS
    Graphs,     \* the calls explored
    None        \* an absent edge or region

ASSUME SeseAssumption ==
    /\ None \notin Nat
    /\ \A g \in Graphs :
          /\ g.nodes \in Nat /\ g.root \in 1 .. g.nodes
          /\ g.edges \in Seq([from : 1 .. g.nodes, to : 1 .. g.nodes])

VARIABLES
    todo,       \* the selected regions not in the tree yet, largest first
    regions     \* the tree; the root comes first

vars == <<cycleVars, todo, regions>>

-----------------------------------------------------------------------------
(* The flowgraph: nodes are numbered by the order of their ids, the        *)
(* synthetic exit comes last, original edges before synthetic ones.        *)

ReachableIds(g) ==
    LET seen[k \in 1 .. g.nodes] ==
            IF k = 1 THEN {g.root}
            ELSE LET S == seen[k - 1]
                 IN S \cup {e.to : e \in {d \in ToSet(g.edges) : d.from \in S}}
    IN seen[g.nodes]

Kept(g) == {i \in DOMAIN g.edges : g.edges[i].from # g.edges[i].to
                                     /\ g.edges[i].from \in ReachableIds(g)}

SyntheticEdge(x, y) == [from |-> x, to |-> y, original |-> None]

Flowgraph(g) ==
    LET ids == Ascending(ReachableIds(g))
        index(id) == CHOOSE i \in DOMAIN ids : ids[i] = id
        synthetic_exit == Len(ids) + 1
        kept == Ascending(Kept(g))
        original == [i \in DOMAIN kept |-> [from |-> index(g.edges[kept[i]].from),
                                            to |-> index(g.edges[kept[i]].to),
                                            original |-> kept[i]]]
        silent == {x \in DOMAIN ids : \A i \in DOMAIN original : original[i].from # x}
        exits == Ascending(IF silent = {} THEN {Len(ids)} ELSE silent)
    IN [n |-> synthetic_exit, root |-> index(g.root), ids |-> ids,
        edges |-> original
                  \o [i \in DOMAIN exits |-> SyntheticEdge(exits[i], synthetic_exit)]
                  \o <<SyntheticEdge(synthetic_exit, index(g.root))>>]

-----------------------------------------------------------------------------
(* Candidates: two original edges of one class, the first dominating the   *)
(* second and the second post-dominating the first.                        *)

Original == {e \in Input : flow.edges[e].original # None}

edge_dominates(a, b) == flow.edges[b].from \notin reachable(flow.root, {a}, FALSE)

edge_postdominates(b, a) == flow.edges[a].to \notin reachable(flow.n, {b}, TRUE)

region_nodes(entry, exit) ==
    {x \in 1 .. flow.n - 1 : /\ x \in reachable(flow.edges[entry].to, {exit}, FALSE)
                             /\ x \in reachable(flow.edges[exit].from, {entry}, TRUE)}

\* Fault: the classes are not compared.
BoundsAnyClass(a, b) ==
    a # b /\ edge_dominates(a, b) /\ edge_postdominates(b, a)

Bounds(a, b) == /\ a # b /\ classes[a] # 0 /\ classes[a] = classes[b]
                /\ edge_dominates(a, b) /\ edge_postdominates(b, a)

candidates ==
    {c \in {[entry |-> p[1], exit |-> p[2], nodes |-> region_nodes(p[1], p[2])] :
              p \in {q \in Original \X Original : Bounds(q[1], q[2])}} : c.nodes # {}}

ByBoundary(c, d) == c.entry < d.entry \/ (c.entry = d.entry /\ c.exit < d.exit)

Smaller(c, d) ==
    LET m == Cardinality(c.nodes) n == Cardinality(d.nodes)
    IN m < n \/ (m = n /\ ByBoundary(c, d))

Larger(c, d) ==
    LET m == Cardinality(c.nodes) n == Cardinality(d.nodes)
    IN m > n \/ (m = n /\ ByBoundary(c, d))

Ids(S) == {flow.ids[x] : x \in S}

\* A set as a sequence, in a total order.
Sorted(S, before(_, _)) ==
    LET rank(c) == Cardinality({d \in S : before(d, c)}) + 1
    IN [i \in 1 .. Cardinality(S) |-> CHOOSE c \in S : rank(c) = i]

\* What the layout asks for: every candidate in the caller's ids, largest first.
compute_sese_candidates ==
    LET sorted == Sorted(candidates, Larger)
    IN [i \in DOMAIN sorted |->
          [entry_edge |-> flow.edges[sorted[i].entry].original,
           exit_edge |-> flow.edges[sorted[i].exit].original,
           contained_nodes |-> Ids(sorted[i].nodes)]]

\* Fault: the last candidate instead of the first.
largest_for_boundary(C, e) ==
    CHOOSE c \in C : /\ e \in {c.entry, c.exit}
                     /\ \A d \in C : e \in {d.entry, d.exit} => d = c \/ Smaller(d, c)

\* The first candidate in the order of size for which the edge is a boundary.
smallest_for_boundary(C, e) ==
    CHOOSE c \in C : /\ e \in {c.entry, c.exit}
                     /\ \A d \in C : e \in {d.entry, d.exit} => d = c \/ Smaller(c, d)

Canonical(C) ==
    {c \in C : smallest_for_boundary(C, c.entry) = c \/ smallest_for_boundary(C, c.exit) = c}

Crossing(S, T) == S \cap T # {} /\ ~(S \subseteq T) /\ ~(T \subseteq S)

\* A region that crosses any candidate, selected or not, is given up.
selected ==
    LET C == candidates
    IN {c \in Canonical(C) : \A d \in C : ~Crossing(c.nodes, d.nodes)}

-----------------------------------------------------------------------------
RegionNamed(parent, entry, exit, contained) ==
    [parent |-> parent, children |-> {}, entry_edge |-> entry, exit_edge |-> exit,
     nodes |-> {}, contained |-> contained]

Init == /\ \E g \in Graphs : Call(Flowgraph(g))
        /\ todo = <<>> /\ regions = <<>>

Classify == CycleNext /\ UNCHANGED <<todo, regions>>

Select ==
    /\ phase = "classified"
    /\ todo' = Sorted(selected, Larger)
    /\ regions' = <<RegionNamed(None, None, None, ToSet(flow.ids))>>
    /\ phase' = "tree"
    /\ UNCHANGED <<flow, search, jpp, joining, classes>>

\* The first of the smallest regions that satisfy a condition.
Innermost(fits(_)) ==
    LET R == {i \in DOMAIN regions : fits(regions[i].contained)}
        size(i) == Cardinality(regions[i].contained)
    IN CHOOSE i \in R : \A j \in R : size(i) < size(j) \/ (size(i) = size(j) /\ i <= j)

AddRegion ==
    /\ phase = "tree" /\ todo # <<>>
    /\ LET c == Head(todo)
           contained == Ids(c.nodes)
           parent == Innermost(LAMBDA S : contained \subseteq S)
       IN regions' = Append([regions EXCEPT ![parent].children = @ \cup {Len(regions) + 1}],
                            RegionNamed(parent, flow.edges[c.entry].original,
                                        flow.edges[c.exit].original, contained))
    /\ todo' = Tail(todo)
    /\ UNCHANGED cycleVars

\* Fault: a node goes to the first region that contains it.
OwnerFirst(id) == Min({i \in DOMAIN regions : id \in regions[i].contained})

Owner(id) == Innermost(LAMBDA S : id \in S)

AssignNodes ==
    /\ phase = "tree" /\ todo = <<>>
    /\ regions' = [i \in DOMAIN regions |->
                     [regions[i] EXCEPT !.nodes = {id \in ToSet(flow.ids) : Owner(id) = i}]]
    /\ phase' = "done"
    /\ UNCHANGED <<flow, search, jpp, joining, classes, todo>>

\* The tree is handed out.
Done == phase = "done" /\ UNCHANGED vars

Next == Classify \/ Select \/ AddRegion \/ AssignNodes \/ Done

Spec == Init /\ [][Next]_vars

-----------------------------------------------------------------------------
TypeOK ==
    /\ phase \in {"search", "brackets", "direct", "classified", "tree", "done"}
    /\ search.stack \in Seq(Nodes) /\ search.preorder \in Seq(Nodes)
    /\ search.number \in [Nodes -> 1 .. Unset]
    /\ search.parent_edge \in [Nodes -> 0 .. Len(flow.edges)]
    /\ jpp.left \in 0 .. flow.n /\ jpp.hi \in [Nodes -> 1 .. Unset]
    /\ \A x \in Nodes : jpp.brackets[x] \in Seq(1 .. Len(edges))
    /\ joining.parent \in [Input -> Input] /\ joining.left \subseteq Input \X Input
    /\ classes \in {<<>>} \cup [Input -> Nat \ {0}]
    /\ \A i \in DOMAIN regions : regions[i].parent \in (1 .. i - 1) \cup {None}

\* The nodes from which the synthetic exit can be reached.
Ending == reachable(flow.n, {}, TRUE) \ {flow.n}

\* The flowgraph is proper: every node is on a path to the exit.
Terminating == Ending = 1 .. flow.n - 1

\* Every candidate is entered by its entry edge only, and left by its exit edge
\* only, but for edges into parts of the graph that never end.
SingleEntryExit ==
    phase = "classified" =>
        \A c \in candidates : \A e \in Input :
            LET inside == {flow.edges[e].from, flow.edges[e].to} \cap c.nodes
            IN /\ flow.edges[e].from \notin c.nodes /\ flow.edges[e].to \in c.nodes => e = c.entry
               /\ flow.edges[e].from \in c.nodes /\ flow.edges[e].to \notin c.nodes
                    => e = c.exit \/ flow.edges[e].to \notin Ending \cup {flow.n}
               /\ e \in {c.entry, c.exit} => Cardinality(inside) = 1

\* The regions are canonical: each is a candidate, and if every node can reach
\* the exit, every edge that bounds a candidate bounds a region of the tree, one
\* as small as any of its candidates.  In particular the filter for crossing
\* regions gives up none that matters there.
CanonicalRegions ==
    phase = "done" =>
        LET listed == ToSet(compute_sese_candidates)
            inner == {regions[i] : i \in 2 .. Len(regions)}
        IN /\ \A r \in inner :
                 [entry_edge |-> r.entry_edge, exit_edge |-> r.exit_edge,
                  contained_nodes |-> r.contained] \in listed
           /\ Terminating => \A c \in listed : \A e \in {c.entry_edge, c.exit_edge} :
                 \E r \in inner :
                    /\ e \in {r.entry_edge, r.exit_edge}
                    /\ Cardinality(r.contained) <= Cardinality(c.contained_nodes)

\* The result is a tree of regions over all reachable nodes: a region is inside
\* its parent and crosses none of its siblings.  If every node can reach the
\* exit, siblings are apart, and a region owns exactly the nodes none of its
\* children contains.
TreeExact ==
    phase = "done" =>
        /\ UNION {regions[i].nodes : i \in DOMAIN regions} = ToSet(flow.ids)
        /\ \A i \in DOMAIN regions :
             LET kids == regions[i].children
             IN /\ \A k \in kids : /\ regions[k].parent = i
                                   /\ regions[k].contained \subseteq regions[i].contained
                /\ \A k, l \in kids : ~Crossing(regions[k].contained, regions[l].contained)
                /\ Terminating =>
                     /\ \A k, l \in kids :
                          k # l => regions[k].contained \cap regions[l].contained = {}
                     /\ regions[i].nodes =
                          regions[i].contained \ UNION {regions[k].contained : k \in kids}

=============================================================================
