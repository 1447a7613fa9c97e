---------------------------- MODULE CycleClasses ----------------------------
(***************************************************************************)
(* jpp_cycle_classes of src/graph/analysis/sese.rs: the bracket lists of   *)
(* Johnson, Pearson and Pingali along one undirected depth-first search,   *)
(* the check of the partition they give against the definition, and the    *)
(* direct computation that replaces it.                                    *)
(*                                                                         *)
(* Nodes, edges and preorder numbers count from 1; the code's usize::MAX   *)
(* is Unset.  A capping edge is an edge after those of the input.          *)
(***************************************************************************)
EXTENDS Naturals, SequencesExt, FiniteSetsExt

VARIABLES
    flow,       \* the input: edges, the number n of nodes, root
    phase,      \* "search", "brackets", then what the caller does with the classes
    search,     \* the arrays of the depth-first search, and its recursion as a stack
    jpp,        \* the arrays of the bracket pass; left counts the nodes to do
    joining,    \* the union-find forest of direct_cycle_classes and the pairs left
    classes     \* the result: a class per edge of the input

cycleVars == <<flow, phase, search, jpp, joining, classes>>

Nodes == 1 .. flow.n
Input == 1 .. Len(flow.edges)
Unset == flow.n + 1

edges == flow.edges \o jpp.capping
Capping == Len(flow.edges) + 1 .. Len(edges)

incident(x) == {e \in 1 .. Len(edges) : x \in {edges[e].from, edges[e].to}}
Other(e, x) == IF edges[e].from = x THEN edges[e].to ELSE edges[e].from

\* The elements of a set of numbers, in order.
Ascending(S) ==
    [i \in 1 .. Cardinality(S) |-> CHOOSE x \in S : Cardinality({y \in S : y <= x}) = i]

\* What is left of s without the elements outside T.
Filtered(s, T) ==
    LET kept == Ascending({i \in DOMAIN s : s[i] \in T}) IN [i \in DOMAIN kept |-> s[kept[i]]]

-----------------------------------------------------------------------------
(* The defining predicate: every cycle through one edge uses the other.    *)

reachable(start, skip, reverse) ==
    LET Source(e) == IF reverse THEN flow.edges[e].to ELSE flow.edges[e].from
        Target(e) == IF reverse THEN flow.edges[e].from ELSE flow.edges[e].to
        seen[k \in 1 .. flow.n] ==
            IF k = 1 THEN {start}
            ELSE LET S == seen[k - 1]
                 IN S \cup {Target(e) : e \in {d \in Input \ skip : Source(d) \in S}}
    IN seen[flow.n]

\* Fault: only the cycles through the first edge are looked at.
cycle_equivalentOneWay(a, b) ==
    flow.edges[a].from \notin reachable(flow.edges[a].to, {b}, FALSE)

cycle_equivalent(a, b) ==
    /\ flow.edges[a].from \notin reachable(flow.edges[a].to, {b}, FALSE)
    /\ flow.edges[b].from \notin reachable(flow.edges[b].to, {a}, FALSE)

-----------------------------------------------------------------------------
(* The undirected search from the root, along incident edges by number.    *)

\* Fault: the number is taken from the preorder before it grew.
EnterEarly(s, x, edge) ==
    [s EXCEPT !.stack = Append(@, x), !.preorder = Append(@, x),
              !.number[x] = Len(s.preorder), !.parent_edge[x] = edge]

Enter(s, x, edge) ==
    [s EXCEPT !.stack = Append(@, x), !.preorder = Append(@, x),
              !.number[x] = Len(s.preorder) + 1, !.parent_edge[x] = edge]

\* The state in which jpp_cycle_classes is called with the flowgraph f.
Call(f) ==
    /\ flow = f
    /\ phase = "search"
    /\ search = Enter([stack |-> <<>>, preorder |-> <<>>,
                       number |-> [x \in 1 .. f.n |-> f.n + 1],
                       parent_edge |-> [x \in 1 .. f.n |-> 0],
                       end |-> [x \in 1 .. f.n |-> 0]], f.root, 0)
    /\ jpp = [capping |-> <<>>, left |-> 0, next_class |-> 1,
              hi |-> [x \in 1 .. f.n |-> f.n + 1],
              brackets |-> [x \in 1 .. f.n |-> <<>>],
              classes |-> [e \in 1 .. Len(f.edges) |-> 0],
              recent |-> [e \in 1 .. Len(f.edges) |-> [size |-> 0, class |-> 0]]]
    /\ joining = [parent |-> [e \in 1 .. Len(f.edges) |-> e], left |-> {}]
    /\ classes = <<>>

Unvisited(x) == {e \in incident(x) : search.number[Other(e, x)] = Unset}

Descend ==
    /\ phase = "search"
    /\ LET x == Last(search.stack)
       IN /\ Unvisited(x) # {}
          /\ LET e == Min(Unvisited(x)) IN search' = Enter(search, Other(e, x), e)
    /\ UNCHANGED <<flow, phase, jpp, joining, classes>>

Return ==
    /\ phase = "search"
    /\ LET x == Last(search.stack)
       IN /\ Unvisited(x) = {}
          /\ search' = [search EXCEPT !.stack = Front(@), !.end[x] = Len(search.preorder)]
          /\ phase' = IF x = flow.root THEN "brackets" ELSE "search"
          /\ jpp' = [jpp EXCEPT !.left = IF x = flow.root THEN flow.n ELSE 0]
    /\ UNCHANGED <<flow, joining, classes>>

tree(e) == \E x \in Nodes : search.parent_edge[x] = e
is_descendant(x, ancestor) ==
    /\ x # ancestor
    /\ search.number[ancestor] <= search.number[x]
    /\ search.number[x] <= search.end[ancestor]

children(x) ==
    Filtered(search.preorder,
             {y \in Nodes : search.parent_edge[y] # 0 /\ Other(search.parent_edge[y], y) = x})

-----------------------------------------------------------------------------
(* The bracket pass, one node of the reversed preorder at a time.          *)

Upward(x) == {e \in incident(x) : ~tree(e) /\ is_descendant(x, Other(e, x))}
Downward(x) == {e \in incident(x) : ~tree(e) /\ is_descendant(Other(e, x), x)}

\* A cap that does not touch x is placed by its target.
Stale(x) ==
    {e \in Capping : is_descendant(IF edges[e].to = x THEN edges[e].from ELSE edges[e].to, x)}

Lowest(S) == Min(S \cup {Unset})
hi0(x) == Lowest({search.number[Other(e, x)] : e \in Upward(x)})
hi1(x) == Lowest({jpp.hi[y] : y \in ToSet(children(x))})
hi2(x) ==
    LET C == ToSet(children(x))
    IN Lowest({jpp.hi[y] : y \in {c \in C : \E d \in C \ {c} : jpp.hi[d] <= jpp.hi[c]}})
Capped(x) == hi2(x) < hi0(x)

\* The edges that x does not take out of the lists.
Open(x) == (1 .. Len(edges)) \ (Stale(x) \cup Downward(x))

\* Fault: the lists of all children but the first are lost.
MergedFirst(x) ==
    Filtered(IF children(x) = <<>> THEN <<>> ELSE jpp.brackets[children(x)[1]], Open(x))
    \o Ascending(Upward(x))

Merged(x) ==
    LET lists == [i \in DOMAIN children(x) |-> jpp.brackets[children(x)[i]]]
    IN Filtered(FlattenSeq(lists), Open(x)) \o Ascending(Upward(x))

\* The lists, hi and the classes of the edges that end at x from below.
Listed(x) ==
    LET closed == Ascending({e \in Downward(x) : jpp.classes[e] = 0})
        named == [e \in DOMAIN jpp.classes |->
                    IF Contains(closed, e)
                    THEN jpp.next_class + SelectInSeq(closed, LAMBDA d : d = e) - 1
                    ELSE jpp.classes[e]]
        cap == IF Capped(x)
               THEN <<[from |-> x, to |-> search.preorder[hi2(x)]]>> ELSE <<>>
    IN [capping |-> jpp.capping \o cap,
        left |-> jpp.left - 1,
        next_class |-> jpp.next_class + Len(closed),
        hi |-> [jpp.hi EXCEPT ![x] = Lowest({hi0(x), hi1(x)})],
        brackets |-> [y \in Nodes |->
                        IF y = x THEN Merged(x) \o [i \in DOMAIN cap |-> Len(edges) + 1]
                        ELSE IF Contains(children(x), y) THEN <<>> ELSE jpp.brackets[y]],
        classes |-> named \o [i \in DOMAIN cap |-> 0],
        recent |-> jpp.recent \o [i \in DOMAIN cap |-> [size |-> 0, class |-> 0]]]

\* The class of the tree edge above x, which the size of the list and its top
\* edge name; a bracket that is alone in the list is in that class itself.
Classified(j, x) ==
    LET top == Last(j.brackets[x])
        size == Len(j.brackets[x])
        fresh == j.recent[top].size # size
        class == IF fresh THEN j.next_class ELSE j.recent[top].class
    IN [j EXCEPT !.next_class = IF fresh THEN @ + 1 ELSE @,
                 !.recent[top] = [size |-> size, class |-> class],
                 !.classes = [e \in DOMAIN @ |->
                                IF e = search.parent_edge[x] \/ (e = top /\ size = 1)
                                THEN class ELSE @[e]]]

Node == search.preorder[jpp.left]

Bracket ==
    /\ phase = "brackets" /\ jpp.left > 0
    /\ LET j == Listed(Node)
       IN /\ Node = flow.root \/ j.brackets[Node] # <<>>
          /\ jpp' = IF Node = flow.root THEN j ELSE Classified(j, Node)
    /\ UNCHANGED <<flow, phase, search, joining, classes>>

\* direct_cycle_classes looks at the pairs a < b in order.
ClassifyDirectly ==
    /\ phase' = "direct"
    /\ joining' = [joining EXCEPT !.left =
                     {p \in Input \X Input : p[1] < p[2] /\ cycle_equivalent(p[1], p[2])}]

\* A tree edge without a bracket: not a proper flowgraph.
NoBracket ==
    /\ phase = "brackets" /\ jpp.left > 0
    /\ Node # flow.root /\ Listed(Node).brackets[Node] = <<>>
    /\ ClassifyDirectly
    /\ UNCHANGED <<flow, search, jpp, classes>>

\* The partition is compared with the predicate on all pairs, an edge and
\* itself included.
valid ==
    \A a, b \in Input : (jpp.classes[a] = jpp.classes[b]) <=> cycle_equivalent(a, b)

Validate ==
    /\ phase = "brackets" /\ jpp.left = 0
    /\ IF valid
       THEN /\ classes' = SubSeq(jpp.classes, 1, Len(flow.edges))
            /\ phase' = "classified" /\ UNCHANGED joining
       ELSE ClassifyDirectly /\ UNCHANGED classes
    /\ UNCHANGED <<flow, search, jpp>>

find(edge) ==
    LET root[e \in Input] == IF joining.parent[e] = e THEN e ELSE root[joining.parent[e]]
    IN root[edge]

union(a, b) == [joining.parent EXCEPT ![find(b)] = find(a)]

Join ==
    /\ phase = "direct"
    /\ \E p \in joining.left :
          /\ \A q \in joining.left : p[1] < q[1] \/ (p[1] = q[1] /\ p[2] <= q[2])
          /\ joining' = [parent |-> union(p[1], p[2]), left |-> joining.left \ {p}]
    /\ UNCHANGED <<flow, phase, search, jpp, classes>>

\* The classes are numbered in the order of their first edges.
Label ==
    /\ phase = "direct" /\ joining.left = {}
    /\ LET first(e) == Min({d \in Input : find(d) = find(e)})
       IN classes' = [e \in Input |-> Cardinality({find(d) : d \in 1 .. first(e)})]
    /\ phase' = "classified"
    /\ UNCHANGED <<flow, search, jpp, joining>>

CycleNext == Descend \/ Return \/ Bracket \/ NoBracket \/ Validate \/ Join \/ Label

-----------------------------------------------------------------------------
(* Cycles as sets of edges: closed, without a repeated node, and minimal.  *)

Closed(C) ==
    /\ \A d, e \in C : d # e => /\ flow.edges[d].from # flow.edges[e].from
                                /\ flow.edges[d].to # flow.edges[e].to
    /\ {flow.edges[e].from : e \in C} = {flow.edges[e].to : e \in C}

Cycles == {C \in (SUBSET Input) \ {{}} :
             Closed(C) /\ \A D \in (SUBSET C) \ {{}, C} : ~Closed(D)}

\* Once the classes are known, two edges have the same class exactly when they
\* lie on the same cycles, whichever way the classes were computed.
ClassesExact ==
    phase = "classified" =>
        LET cycles == Cycles
        IN \A a, b \in Input :
              (classes[a] = classes[b]) <=> (\A C \in cycles : a \in C <=> b \in C)

\* Throughout the bracket pass, the list of a finished node whose parent is not
\* finished holds each back edge from its subtree to a proper ancestor once, and
\* otherwise caps only.
BracketsExact ==
    phase = "brackets" =>
        \A x \in Nodes \ {flow.root} :
            LET Below(y) == y = x \/ is_descendant(y, x)
                parent == Other(search.parent_edge[x], x)
                real == Filtered(jpp.brackets[x], Input)
            IN search.number[x] > jpp.left /\ search.number[parent] <= jpp.left =>
                 /\ IsInjective(real)
                 /\ ToSet(real) =
                      {e \in Input :
                         /\ ~tree(e)
                         /\ \E y, z \in {flow.edges[e].from, flow.edges[e].to} :
                               Below(y) /\ is_descendant(x, z)}

\* What the comment on the validation says: the partition of the bracket pass
\* is replaced where the input is not a proper flowgraph.  A partition that
\* agrees with the predicate on every two edges is therefore returned.
FallbackOnlyIfWrong ==
    phase = "classified" /\ jpp.left = 0
      /\ (\A a, b \in Input : a # b =>
            ((jpp.classes[a] = jpp.classes[b]) <=> cycle_equivalent(a, b)))
      => \A e \in Input : classes[e] = jpp.classes[e]

=============================================================================
