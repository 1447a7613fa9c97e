---------------------------- MODULE OwningGraph ----------------------------
(***************************************************************************)
(* OwningGraph of src/graph/owning.rs with merge_nodes of src/graph.rs.  A *)
(* graph keeps every adjacency twice: an edge record names its endpoints,  *)
(* and each node holds the set of its incident edges.                      *)
(*                                                                         *)
(* A call that panics, at an endpoint or a record that is missing or in    *)
(* the destructor of a payload, has changed part of the graph by then, and *)
(* its caller may catch the unwind: such a call is a step that ends where  *)
(* the panic begins.  A call that panics before it changes anything is not *)
(* a step.                                                                 *)
(***************************************************************************)
EXTENDS Naturals, FiniteSets

CONSTANTS
    MaxNodes,   \* bound of the model: node ids issued
    MaxEdges,   \* bound of the model: edge ids issued
    Payload     \* what an owner stores with a node or an edge

ASSUME BoundsAssumption == MaxNodes \in Nat /\ MaxEdges \in Nat

NodeIds == 0 .. MaxNodes - 1
EdgeIds == 0 .. MaxEdges - 1

VARIABLES
    nodes,          \* node id -> ids of its incident edges
    edges,          \* edge id -> its endpoints
    node_data,      \* node id -> payload
    edge_data,      \* edge id -> payload
    next_node_id,
    next_edge_id,
    loose           \* history: edges a merge or a panic left at odds with a set of
                    \* their ends; an edge whose removal returned is not among them

graph == <<nodes, edges, node_data, edge_data, next_node_id, next_edge_id, loose>>

Has(f, x) == x \in DOMAIN f

Without(f, S) == [x \in DOMAIN f \ S |-> f[x]]

With(f, x, y) == [z \in DOMAIN f \cup {x} |-> IF z = x THEN y ELSE f[z]]

\* Insert or remove an edge in the incident sets of the nodes in S.
Attach(ns, S, e) == [n \in DOMAIN ns |-> IF n \in S THEN ns[n] \cup {e} ELSE ns[n]]
Detach(ns, S, E) == [n \in DOMAIN ns |-> IF n \in S THEN ns[n] \ E ELSE ns[n]]

EndsOf(r) == {r.from, r.to}
Ends(e) == EndsOf(edges[e])
Complete(r) == EndsOf(r) \subseteq DOMAIN nodes

\* Fault: the set of the target is updated first.
UnlistedTargetFirst(ns, r, e) == IF Has(ns, r.to) THEN Detach(ns, EndsOf(r), {e}) ELSE ns

\* Fault: only the source lists the edge.
ListedSource(ns, r, e) == Attach(ns, {r.from}, e)

\* The set of the source is updated first: a missing source ends the call
\* before either set changed, a missing target after the first.
Listed(ns, r, e) == IF Has(ns, r.from) THEN Attach(ns, EndsOf(r), e) ELSE ns
Unlisted(ns, r, e) == IF Has(ns, r.from) THEN Detach(ns, EndsOf(r), {e}) ELSE ns

\* get_node and get_edge look at the payload maps.
get_node(n) == Has(node_data, n)
get_edge(e) == Has(edge_data, e)

\* The edges the ChildMode iterator of n yields, and the nodes they lead to; a
\* listed edge without a record makes it panic instead.
Outgoing(n) == {e \in nodes[n] : Has(edges, e) /\ edges[e].from = n}
children(n) == {edges[e].to : e \in Outgoing(n)}

-----------------------------------------------------------------------------
Init == /\ nodes = <<>> /\ edges = <<>>
        /\ node_data = <<>> /\ edge_data = <<>>
        /\ next_node_id = 0 /\ next_edge_id = 0
        /\ loose = {}

make_node(data) ==
    /\ next_node_id < MaxNodes
    /\ next_node_id' = next_node_id + 1
    /\ nodes' = With(nodes, next_node_id, {})
    /\ node_data' = With(node_data, next_node_id, data)
    /\ UNCHANGED <<edges, edge_data, next_edge_id, loose>>

make_edge(from, to, data) ==
    /\ next_edge_id < MaxEdges
    /\ next_edge_id' = next_edge_id + 1
    /\ LET id == next_edge_id
           r == [from |-> from, to |-> to]
       IN /\ edges' = With(edges, id, r)
          /\ edge_data' = With(edge_data, id, data)
          /\ nodes' = Listed(nodes, r, id)
          /\ loose' = IF Complete(r) THEN loose ELSE loose \cup {id}
    /\ UNCHANGED <<node_data, next_node_id>>

\* Fault: the payload of the edge stays.
remove_edgeKeepsData(e) ==
    /\ Has(edges, e)
    /\ edges' = Without(edges, {e})
    /\ nodes' = Unlisted(nodes, edges[e], e)
    /\ loose' = loose \ {e}
    /\ UNCHANGED <<edge_data, node_data, next_node_id, next_edge_id>>

remove_edge(e) ==
    /\ Has(edges, e)
    /\ edges' = Without(edges, {e})
    /\ edge_data' = Without(edge_data, {e})
    /\ nodes' = Unlisted(nodes, edges[e], e)
    /\ loose' = loose \ {e}
    /\ UNCHANGED <<node_data, next_node_id, next_edge_id>>

\* The destructor of the payload panics: the maps have let the edge go by then,
\* the incident sets have not.
RemoveEdgeDropPanics(e) ==
    /\ Has(edges, e)
    /\ edges' = Without(edges, {e})
    /\ edge_data' = Without(edge_data, {e})
    /\ loose' = loose \cup {e}
    /\ UNCHANGED <<nodes, node_data, next_node_id, next_edge_id>>

\* The record changes after the old ends let the edge go, before the new ones
\* take it.
edit_edge(e, new_from, new_to) ==
    /\ Has(edges, e)
    /\ LET r == [from |-> new_from, to |-> new_to]
           old == Unlisted(nodes, edges[e], e)
       IN IF Complete(edges[e])
          THEN /\ edges' = With(edges, e, r)
               /\ nodes' = Listed(old, r, e)
               /\ loose' = IF Complete(r) THEN loose \ {e} ELSE loose \cup {e}
          ELSE nodes' = old /\ UNCHANGED <<edges, loose>>
    /\ UNCHANGED <<node_data, edge_data, next_node_id, next_edge_id>>

\* The edges on which remove_edge returns, unless a destructor panics.
Removable == {e \in DOMAIN edges : Complete(edges[e])}

\* remove_node calls remove_edge on each edge of its incident set, then drops
\* the node.
remove_node(n) ==
    /\ Has(nodes, n)
    /\ nodes[n] \subseteq Removable
    /\ edges' = Without(edges, nodes[n])
    /\ edge_data' = Without(edge_data, nodes[n])
    /\ nodes' = Without(Detach(nodes, NodeIds, nodes[n]), {n})
    /\ node_data' = Without(node_data, {n})
    /\ loose' = loose \ nodes[n]
    /\ UNCHANGED <<next_node_id, next_edge_id>>

\* remove_edge panics for an edge of the set, after those that came before it in
\* the order of the copied set were removed; the node stays.  The edge has no
\* record, or its destructor panics, or an end of it is missing.
RemoveNodeStopped(n) ==
    /\ Has(nodes, n)
    /\ \E bad \in nodes[n], done \in SUBSET (nodes[n] \cap Removable) :
          LET ns == Detach(nodes, NodeIds, done)
              gone == done \cup {bad}
          IN /\ bad \notin done
             /\ edges' = Without(edges, gone)
             /\ edge_data' = Without(edge_data, gone)
             /\ \/ ~Has(edges, bad) /\ nodes' = ns /\ loose' = loose \ done
                \/ Has(edges, bad) /\ nodes' = ns /\ loose' = (loose \ done) \cup {bad}
                \/ /\ Has(edges, bad) /\ ~Complete(edges[bad])
                   /\ nodes' = Unlisted(ns, edges[bad], bad)
                   /\ loose' = loose \ gone
    /\ UNCHANGED <<node_data, next_node_id, next_edge_id>>

\* Fault: the moved edges name their new source but are not added to its set.
merge_nodesUnlisted(keep, remove, direct) ==
    /\ keep # remove
    /\ get_node(keep) /\ get_node(remove) /\ get_edge(direct)
    /\ edges[direct] = [from |-> keep, to |-> remove]
    /\ nodes[remove] \ {direct} \subseteq DOMAIN edges
    /\ LET moved == Outgoing(remove) \ {direct}
       IN /\ edges' = [e \in DOMAIN edges |->
                         IF e \in moved THEN [edges[e] EXCEPT !.from = keep] ELSE edges[e]]
          /\ nodes' = [nodes EXCEPT ![keep] = @ \ {direct},
                                    ![remove] = @ \ (moved \cup {direct})]
          /\ loose' = loose \cup {direct} \cup {e \in moved : edges[e].to = remove}
    /\ UNCHANGED <<node_data, edge_data, next_node_id, next_edge_id>>

\* The direct edge leaves both incident sets but keeps its record; every other
\* outgoing edge of remove is re-sourced and moves to the set of keep.  That the
\* nodes differ and that direct joins them is the contract the comment on it
\* states; the code checks neither.
merge_nodes(keep, remove, direct) ==
    /\ keep # remove
    /\ get_node(keep) /\ get_node(remove) /\ get_edge(direct)
    /\ edges[direct] = [from |-> keep, to |-> remove]
    /\ nodes[remove] \ {direct} \subseteq DOMAIN edges
    /\ LET moved == Outgoing(remove) \ {direct}
       IN /\ edges' = [e \in DOMAIN edges |->
                         IF e \in moved THEN [edges[e] EXCEPT !.from = keep] ELSE edges[e]]
          /\ nodes' = [nodes EXCEPT ![keep] = (@ \ {direct}) \cup moved,
                                    ![remove] = @ \ (moved \cup {direct})]
          /\ loose' = loose \cup {direct} \cup {e \in moved : edges[e].to = remove}
    /\ UNCHANGED <<node_data, edge_data, next_node_id, next_edge_id>>

\* The direct edge has left the set of keep when remove turns out to be missing,
\* and both sets when remove lists an edge without a record.
MergeStopped(keep, remove, direct) ==
    /\ keep # remove
    /\ get_node(keep) /\ get_edge(direct)
    /\ edges[direct] = [from |-> keep, to |-> remove]
    /\ get_node(remove) => ~(nodes[remove] \ {direct} \subseteq DOMAIN edges)
    /\ nodes' = Detach(nodes, {keep, remove}, {direct})
    /\ loose' = loose \cup {direct}
    /\ UNCHANGED <<edges, node_data, edge_data, next_node_id, next_edge_id>>

\* The payloads are mapped, here all to the same ones; the rest is cloned.
reinterpret(node_payload, edge_payload) ==
    /\ node_data' = [n \in DOMAIN node_data |-> node_payload]
    /\ edge_data' = [e \in DOMAIN edge_data |-> edge_payload]
    /\ UNCHANGED <<nodes, edges, next_node_id, next_edge_id, loose>>

Next == \/ make_node(Payload)
        \/ \E from, to \in NodeIds : make_edge(from, to, Payload)
        \/ \E e \in EdgeIds : remove_edge(e) \/ RemoveEdgeDropPanics(e)
        \/ \E e \in EdgeIds, from, to \in NodeIds : edit_edge(e, from, to)
        \/ \E n \in NodeIds : remove_node(n) \/ RemoveNodeStopped(n)
        \/ \E keep, remove \in NodeIds, e \in EdgeIds :
              merge_nodes(keep, remove, e) \/ MergeStopped(keep, remove, e)

Spec == Init /\ [][Next]_graph

\* The calls that return: no end is missing and no destructor panics.
NextReturning ==
    \/ make_node(Payload)
    \/ \E from, to \in DOMAIN nodes : make_edge(from, to, Payload)
    \/ \E e \in Removable : remove_edge(e) \/ \E from, to \in DOMAIN nodes : edit_edge(e, from, to)
    \/ \E n \in DOMAIN nodes : remove_node(n)
    \/ \E keep, remove \in DOMAIN nodes, e \in DOMAIN edges : merge_nodes(keep, remove, e)

SpecReturning == Init /\ [][NextReturning]_graph

-----------------------------------------------------------------------------
Edge == [from : NodeIds, to : NodeIds]

TypeOK ==
    /\ DOMAIN nodes \subseteq NodeIds /\ \A n \in DOMAIN nodes : nodes[n] \subseteq EdgeIds
    /\ DOMAIN edges \subseteq EdgeIds /\ \A e \in DOMAIN edges : edges[e] \in Edge
    /\ DOMAIN node_data = DOMAIN nodes /\ DOMAIN edge_data = DOMAIN edges
    /\ next_node_id \in 0 .. MaxNodes /\ next_edge_id \in 0 .. MaxEdges

\* A node lists no edge it is not an end of, and an edge without a record only
\* when the destructor of its payload stopped the removal: whatever else panicked
\* before, iterating an incident set looks up no missing record.
IncidenceSound ==
    \A n \in DOMAIN nodes : \A e \in nodes[n] :
        IF Has(edges, e) THEN n \in Ends(e) ELSE e \in loose

\* An edge that no merge and no panic has touched joins two existing nodes, and
\* both list it; of any edge, the target lists it only if the source does.
IncidenceExact ==
    \A e \in DOMAIN edges :
        LET Lists(n) == Has(nodes, n) /\ e \in nodes[n]
        IN /\ e \notin loose => \A n \in Ends(e) : Lists(n)
           /\ Lists(edges[e].to) => Lists(edges[e].from)

\* The least set holding n that is closed under children.
Reach(n) ==
    CHOOSE S \in SUBSET NodeIds :
        /\ n \in S
        /\ \A m \in S \cap DOMAIN nodes : children(m) \subseteq S
        /\ \A T \in SUBSET S : n \in T /\ (\A m \in T \cap DOMAIN nodes : children(m) \subseteq T)
                                => T = S

\* After a merge along an edge the graph still lists, the kept node reaches what
\* it reached before, the removed node aside: no successor is lost or gained on
\* the way from one set to the other.
MergeKeepsReach ==
    [][\A keep, remove \in NodeIds, e \in EdgeIds \ loose :
         merge_nodes(keep, remove, e) =>
            /\ Reach(keep)' \cup {remove} = Reach(keep)
            /\ Outgoing(remove)' = {}]_graph


=============================================================================
