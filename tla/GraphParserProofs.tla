------------------------- MODULE GraphParserProofs -------------------------
(***************************************************************************)
(* The graph with an owner, alone and after the parser.                    *)
(*                                                                         *)
(* First, the two incidence invariants of OwningGraph and what merge_nodes *)
(* keeps, for any number of nodes and edges: the invariants are inductive  *)
(* together, once an id that was never issued is known to name nothing.    *)
(* Then the same along the whole life of a parsed graph, and that the      *)
(* parser accepts exactly the texts of the grammar.  That is about         *)
(* positions: what trim, find and the slices of the parser cut out of a    *)
(* line is a piece of it between two positions, and those are the          *)
(* positions the grammar speaks of.  Last, that the graph of an accepted   *)
(* text says what the text says: before each mention of a name, the graph  *)
(* says what the text said so far.                                         *)
(***************************************************************************)
EXTENDS GraphParser, VecsProofs, FiniteSetTheorems

\* The next ids are above every id in use: a new node overwrites no node, and
\* no node lists the id of a new edge, nor does the history hold it.
Fresh == /\ \A n \in DOMAIN nodes : n < next_node_id
         /\ \A e \in DOMAIN edges \cup loose : e \in 0 .. next_edge_id - 1

IInv == TypeOK /\ Fresh /\ IncidenceSound /\ IncidenceExact

-----------------------------------------------------------------------------
(* Incidence in terms of one node and one edge. *)

\* Node n exists and has e in its incident set.
Lists(ns, n, e) == n \in DOMAIN ns /\ e \in ns[n]

Incidence(ns, es, ls) ==
    /\ \A n, e : Lists(ns, n, e) =>
          IF e \in DOMAIN es THEN n = es[e].from \/ n = es[e].to ELSE e \in ls
    /\ \A e \in DOMAIN es :
          /\ e \notin ls => Lists(ns, es[e].from, e) /\ Lists(ns, es[e].to, e)
          /\ Lists(ns, es[e].to, e) => Lists(ns, es[e].from, e)

\* The two invariants and Incidence say the same.
LEMMA IncidenceIs ==
    IncidenceSound /\ IncidenceExact <=> Incidence(nodes, edges, loose)
  BY DEF IncidenceSound, IncidenceExact, Incidence, Lists, Has, Ends, EndsOf

\* The same of the state after a step.
LEMMA IncidenceIsNext ==
    (IncidenceSound /\ IncidenceExact)' <=> Incidence(nodes', edges', loose')
  BY DEF IncidenceSound, IncidenceExact, Incidence, Lists, Has, Ends, EndsOf

\* What a map holds after With and Without.
LEMMA WithFacts ==
    ASSUME NEW f, NEW x, NEW y
    PROVE  /\ DOMAIN With(f, x, y) = DOMAIN f \cup {x}
           /\ With(f, x, y)[x] = y
           /\ \A z \in DOMAIN f : z # x => With(f, x, y)[z] = f[z]
  BY DEF With

\* Who lists what after the incident sets changed.
LEMMA AttachFacts ==
    ASSUME NEW ns, NEW S, NEW x
    PROVE  /\ DOMAIN Attach(ns, S, x) = DOMAIN ns
           /\ \A n, e : Lists(Attach(ns, S, x), n, e) <=>
                          Lists(ns, n, e) \/ (n \in DOMAIN ns \cap S /\ e = x)
  BY DEF Attach, Lists

\* Detach takes edges out of the sets of some nodes and touches nothing else.
LEMMA DetachFacts ==
    ASSUME NEW ns, NEW S, NEW E
    PROVE  /\ DOMAIN Detach(ns, S, E) = DOMAIN ns
           /\ \A n, e : Lists(Detach(ns, S, E), n, e) <=> Lists(ns, n, e) /\ ~(n \in S /\ e \in E)
  BY DEF Detach, Lists

\* Once the edges outside loose are out of doubt, an edge with a missing source
\* is listed nowhere: the assumption under which Unlisted changes nothing.
LEMMA UnlistedFacts ==
    ASSUME NEW ns, NEW es, NEW ls, Incidence(ns, es, ls), NEW x \in DOMAIN es
    PROVE  /\ DOMAIN Unlisted(ns, es[x], x) = DOMAIN ns
           /\ \A n, e : Lists(Unlisted(ns, es[x], x), n, e) <=> Lists(ns, n, e) /\ e # x
  <1>1. \A n : Lists(ns, n, x) => n = es[x].from \/ n = es[x].to
    BY DEF Incidence
  <1>2. CASE Has(ns, es[x].from)
    <2>1. Unlisted(ns, es[x], x) = Detach(ns, EndsOf(es[x]), {x})
      BY <1>2 DEF Unlisted
    <2>. QED
      BY <1>1, <2>1, DetachFacts DEF EndsOf
  <1>3. CASE ~Has(ns, es[x].from)
    <2>1. Unlisted(ns, es[x], x) = ns
      BY <1>3 DEF Unlisted
    <2>2. ~Lists(ns, es[x].from, x)
      BY <1>3 DEF Lists, Has
    <2>3. \A n : ~Lists(ns, n, x)
      BY <1>1, <2>2 DEF Incidence
    <2>. QED
      BY <2>1, <2>3
  <1>. QED
    BY <1>2, <1>3

\* A missing source leaves every set as it is; else the ends that exist list x.
LEMMA ListedFacts ==
    ASSUME NEW ns, NEW r, NEW x
    PROVE  /\ DOMAIN Listed(ns, r, x) = DOMAIN ns
           /\ \A n, e : Lists(Listed(ns, r, x), n, e) <=>
                          \/ Lists(ns, n, e)
                          \/ /\ e = x /\ n \in DOMAIN ns /\ r.from \in DOMAIN ns
                             /\ n = r.from \/ n = r.to
  <1>1. CASE Has(ns, r.from)
    BY <1>1, AttachFacts DEF Listed, Has, EndsOf
  <1>2. CASE ~Has(ns, r.from)
    BY <1>2 DEF Listed, Has
  <1>. QED
    BY <1>1, <1>2

\* The incident sets after an action, with the types they keep.
NodesTyped(ns) == DOMAIN ns \subseteq NodeIds /\ \A n, e : Lists(ns, n, e) => e \in EdgeIds

\* The type of the incident sets, said without Lists.
LEMMA NodesTypedIs ==
    ASSUME NEW ns
    PROVE  NodesTyped(ns) <=> DOMAIN ns \subseteq NodeIds
                                /\ \A n \in DOMAIN ns : ns[n] \subseteq EdgeIds
  BY DEF NodesTyped, Lists

-----------------------------------------------------------------------------
(* Each action keeps the invariant, for any payload. *)

\* make_node: an unused id with an empty set.
LEMMA MakeNodeKeeps ==
    ASSUME IInv, NEW data, make_node(data)
    PROVE  IInv'
  <1>. DEFINE id == next_node_id
  <1>1. /\ id \in NodeIds /\ id \notin DOMAIN nodes
        /\ next_node_id' = id + 1 /\ next_node_id' \in 0 .. MaxNodes
    BY BoundsAssumption DEF IInv, TypeOK, Fresh, make_node, NodeIds
  <1>2. /\ nodes' = With(nodes, id, {}) /\ node_data' = With(node_data, id, data)
        /\ UNCHANGED <<edges, edge_data, next_edge_id, loose>>
    BY DEF make_node
  <1>3. \A n, e : Lists(nodes', n, e) <=> Lists(nodes, n, e)
    BY <1>1, <1>2 DEF With, Lists
  <1>4. DOMAIN nodes' = DOMAIN nodes \cup {id} /\ DOMAIN node_data' = DOMAIN node_data \cup {id}
    BY <1>2, WithFacts
  <1>. HIDE DEF id
  <1>5. TypeOK'
    <2>1. NodesTyped(nodes')
      BY <1>1, <1>3, <1>4, NodesTypedIs DEF IInv, TypeOK, NodesTyped
    <2>. QED
      BY <1>1, <1>2, <1>4, <2>1, NodesTypedIs DEF IInv, TypeOK
  <1>6. Fresh'
    BY <1>1, <1>2, <1>4 DEF IInv, TypeOK, Fresh, NodeIds, id
  <1>7. IncidenceSound' /\ IncidenceExact'
    BY <1>2, <1>3, IncidenceIs, IncidenceIsNext DEF IInv, Incidence
  <1>. QED
    BY <1>5, <1>6, <1>7 DEF IInv

\* make_edge, also where an end is missing and only the source, or neither,
\* lists it.
LEMMA MakeEdgeKeeps ==
    ASSUME IInv, NEW from \in NodeIds, NEW to \in NodeIds, NEW data, make_edge(from, to, data)
    PROVE  IInv'
  <1>. DEFINE id == next_edge_id
              r == [from |-> from, to |-> to]
  <1>1. /\ id \in EdgeIds /\ id \notin DOMAIN edges
        /\ next_edge_id' = id + 1 /\ next_edge_id' \in 0 .. MaxEdges
        /\ r \in Edge /\ r.from = from /\ r.to = to
    BY BoundsAssumption DEF IInv, TypeOK, Fresh, make_edge, EdgeIds, Edge
  <1>2. /\ edges' = With(edges, id, r) /\ edge_data' = With(edge_data, id, data)
        /\ nodes' = Listed(nodes, r, id)
        /\ loose' = IF Complete(r) THEN loose ELSE loose \cup {id}
        /\ UNCHANGED <<node_data, next_node_id>>
    BY DEF make_edge
  <1>. HIDE DEF id, r
  <1>3. /\ DOMAIN edges' = DOMAIN edges \cup {id} /\ edges'[id] = r
        /\ \A e \in DOMAIN edges : e # id /\ edges'[e] = edges[e]
        /\ DOMAIN edge_data' = DOMAIN edge_data \cup {id}
    BY <1>1, <1>2 DEF With
  <1>4. /\ DOMAIN nodes' = DOMAIN nodes
        /\ \A n, e : Lists(nodes', n, e) <=>
                       \/ Lists(nodes, n, e)
                       \/ /\ e = id /\ n \in DOMAIN nodes /\ from \in DOMAIN nodes
                          /\ n = from \/ n = to
    BY <1>1, <1>2, ListedFacts
  <1>5. TypeOK'
    <2>1. NodesTyped(nodes')
      BY <1>1, <1>4, NodesTypedIs DEF IInv, TypeOK, NodesTyped
    <2>. QED
      BY <1>1, <1>2, <1>3, <1>4, <2>1, NodesTypedIs DEF IInv, TypeOK
  <1>6. Fresh'
    <2>1. \A e \in DOMAIN edges' \cup loose' : e \in DOMAIN edges \cup loose \/ e = id
      BY <1>2, <1>3
    <2>2. \A e \in DOMAIN edges \cup loose : e \in 0 .. next_edge_id' - 1
      BY <1>1 DEF IInv, TypeOK, Fresh, EdgeIds, id
    <2>3. id \in 0 .. next_edge_id' - 1
      BY <1>1 DEF EdgeIds
    <2>. QED
      BY <1>2, <1>4, <2>1, <2>2, <2>3 DEF IInv, Fresh
  <1>7. Incidence(nodes, edges, loose)
    BY IncidenceIs DEF IInv
  <1>8. \A n : ~Lists(nodes, n, id)
    <2>1. id \notin loose
      BY DEF IInv, TypeOK, Fresh, id
    <2>. QED
      BY <1>1, <1>7, <2>1 DEF Incidence
  <1>9. id \notin loose' => from \in DOMAIN nodes /\ to \in DOMAIN nodes
    BY <1>1, <1>2 DEF Complete, EndsOf
  <1>10. \A e : e \in loose /\ e # id => e \in loose'
    BY <1>2
  <1>11. Incidence(nodes', edges', loose')
    BY <1>1, <1>2, <1>3, <1>4, <1>7, <1>8, <1>9 DEF Incidence
  <1>. QED
    BY <1>5, <1>6, <1>11, IncidenceIsNext DEF IInv

\* The common effect of the removals: the edges of X leave the maps, and every
\* incident set unless a destructor stopped the removal, perhaps with the nodes
\* that listed nothing else.
LEMMA EdgesLeave ==
    ASSUME IInv, NEW X,
           edges' = Without(edges, X), edge_data' = Without(edge_data, X),
           loose \ X \subseteq loose', loose' \subseteq loose \cup (X \cap DOMAIN edges),
           DOMAIN nodes' \subseteq DOMAIN nodes, DOMAIN node_data' = DOMAIN nodes',
           \A n, e : Lists(nodes', n, e) <=> Lists(nodes, n, e) /\ (e \in X => e \in loose'),
           UNCHANGED <<next_node_id, next_edge_id>>
    PROVE  IInv'
  <1>1. Incidence(nodes, edges, loose)
    BY IncidenceIs DEF IInv
  <1>2. /\ DOMAIN edges' = DOMAIN edges \ X /\ DOMAIN edge_data' = DOMAIN edge_data \ X
        /\ \A e \in DOMAIN edges' : edges'[e] = edges[e]
    BY DEF Without
  <1>3. TypeOK'
    <2>1. NodesTyped(nodes')
      BY NodesTypedIs DEF IInv, TypeOK, NodesTyped
    <2>. QED
      BY <1>2, <2>1, NodesTypedIs DEF IInv, TypeOK
  <1>4. Fresh'
    <2>1. DOMAIN edges' \cup loose' \subseteq DOMAIN edges \cup loose
      BY <1>2
    <2>. QED
      BY <2>1 DEF IInv, Fresh
  <1>5. Incidence(nodes', edges', loose')
    <2>1. \A e \in DOMAIN edges' : e \notin X /\ e \in DOMAIN edges /\ (e \notin loose' => e \notin loose)
      BY <1>2
    <2>2. ASSUME NEW n, NEW e, Lists(nodes', n, e)
          PROVE  IF e \in DOMAIN edges' THEN n = edges'[e].from \/ n = edges'[e].to ELSE e \in loose'
      <3>1. CASE e \in DOMAIN edges'
        BY <1>1, <1>2, <2>1, <2>2, <3>1 DEF Incidence
      <3>2. CASE e \notin DOMAIN edges' /\ e \notin X
        BY <1>1, <1>2, <2>2, <3>2 DEF Incidence
      <3>3. CASE e \in X
        BY <1>2, <2>2, <3>3
      <3>. QED
        BY <3>1, <3>2, <3>3
    <2>3. ASSUME NEW e \in DOMAIN edges'
          PROVE  /\ e \notin loose' => Lists(nodes', edges'[e].from, e) /\ Lists(nodes', edges'[e].to, e)
                 /\ Lists(nodes', edges'[e].to, e) => Lists(nodes', edges'[e].from, e)
      BY <1>1, <1>2, <2>1 DEF Incidence
    <2>. QED
      BY <2>2, <2>3 DEF Incidence
  <1>. QED
    BY <1>3, <1>4, <1>5, IncidenceIsNext DEF IInv

\* remove_edge, also where it panics between the two sets.
LEMMA RemoveEdgeKeeps ==
    ASSUME IInv, NEW x, remove_edge(x)
    PROVE  IInv'
  <1>1. /\ x \in DOMAIN edges
        /\ edges' = Without(edges, {x}) /\ edge_data' = Without(edge_data, {x})
        /\ nodes' = Unlisted(nodes, edges[x], x) /\ loose' = loose \ {x}
        /\ UNCHANGED <<node_data, next_node_id, next_edge_id>>
    BY DEF remove_edge, Has
  <1>2. /\ DOMAIN nodes' = DOMAIN nodes
        /\ \A n, e : Lists(nodes', n, e) <=> Lists(nodes, n, e) /\ e \notin {x}
    BY <1>1, UnlistedFacts, IncidenceIs DEF IInv
  <1>3. DOMAIN node_data' = DOMAIN nodes'
    BY <1>1, <1>2 DEF IInv, TypeOK
  <1>. QED
    BY <1>1, <1>2, <1>3, EdgesLeave

\* The panicking destructor leaves the sets as they were, which the history says.
LEMMA RemoveEdgeDropPanicsKeeps ==
    ASSUME IInv, NEW x, RemoveEdgeDropPanics(x)
    PROVE  IInv'
  <1>1. /\ x \in DOMAIN edges
        /\ edges' = Without(edges, {x}) /\ edge_data' = Without(edge_data, {x})
        /\ loose' = loose \cup {x}
        /\ UNCHANGED <<nodes, node_data, next_node_id, next_edge_id>>
    BY DEF RemoveEdgeDropPanics, Has
  <1>2. DOMAIN node_data' = DOMAIN nodes'
    BY <1>1 DEF IInv, TypeOK
  <1>. QED
    BY <1>1, <1>2, EdgesLeave

\* remove_node: every listed edge leaves the records and the sets of both its ends.
LEMMA RemoveNodeKeeps ==
    ASSUME IInv, NEW n, remove_node(n)
    PROVE  IInv'
  <1>. DEFINE X == nodes[n]
              ns == Detach(nodes, NodeIds, X)
  <1>1. /\ n \in DOMAIN nodes
        /\ edges' = Without(edges, X) /\ edge_data' = Without(edge_data, X)
        /\ nodes' = Without(ns, {n}) /\ node_data' = Without(node_data, {n})
        /\ loose' = loose \ X
        /\ UNCHANGED <<next_node_id, next_edge_id>>
    BY DEF remove_node, Has
  <1>2. /\ DOMAIN ns = DOMAIN nodes
        /\ \A m, e : Lists(ns, m, e) <=> Lists(nodes, m, e) /\ ~(m \in NodeIds /\ e \in X)
    BY DetachFacts
  <1>. HIDE DEF ns
  <1>3. /\ DOMAIN nodes' = DOMAIN nodes \ {n} /\ DOMAIN node_data' = DOMAIN node_data \ {n}
        /\ \A m, e : Lists(nodes', m, e) <=> Lists(ns, m, e) /\ m # n
    BY <1>1, <1>2 DEF Without, Lists
  <1>4. \A m, e : Lists(nodes', m, e) <=> Lists(nodes, m, e) /\ e \notin X
    BY <1>2, <1>3 DEF IInv, TypeOK, Lists
  <1>5. DOMAIN node_data' = DOMAIN nodes'
    BY <1>3 DEF IInv, TypeOK
  <1>. HIDE DEF X
  <1>. QED
    BY <1>1, <1>3, <1>4, <1>5, EdgesLeave

\* The edge the call stops at keeps its place in the sets if it had no record, as
\* an earlier destructor left it, or if its own destructor panics; else it is
\* listed by n, so its source exists and it too leaves every set.
LEMMA RemoveNodeStoppedKeeps ==
    ASSUME IInv, NEW n, RemoveNodeStopped(n)
    PROVE  IInv'
  <1>0. n \in DOMAIN nodes /\ UNCHANGED <<node_data, next_node_id, next_edge_id>>
    BY DEF RemoveNodeStopped, Has
  <1>1. PICK bad \in nodes[n], done \in SUBSET (nodes[n] \cap Removable) :
          LET ns == Detach(nodes, NodeIds, done)
              gone == done \cup {bad}
          IN /\ bad \notin done
             /\ edges' = Without(edges, gone)
             /\ edge_data' = Without(edge_data, gone)
             /\ \/ ~Has(edges, bad) /\ nodes' = ns /\ loose' = loose \ done
                \/ Has(edges, bad) /\ nodes' = ns /\ loose' = (loose \ done) \cup {bad}
                \/ /\ Has(edges, bad) /\ ~Complete(edges[bad])
                   /\ nodes' = Unlisted(ns, edges[bad], bad)
                   /\ loose' = loose \ gone
    BY DEF RemoveNodeStopped
  <1>. DEFINE ns == Detach(nodes, NodeIds, done)
              gone == done \cup {bad}
  <1>2. edges' = Without(edges, gone) /\ edge_data' = Without(edge_data, gone)
    BY <1>1
  <1>3. Incidence(nodes, edges, loose) /\ DOMAIN nodes \subseteq NodeIds
    BY IncidenceIs DEF IInv, TypeOK
  <1>4. bad \notin done /\ done \subseteq DOMAIN edges /\ Lists(nodes, n, bad)
    BY <1>0, <1>1 DEF Removable, Lists
  <1>5. /\ DOMAIN ns = DOMAIN nodes
        /\ \A m, e : Lists(ns, m, e) <=> Lists(nodes, m, e) /\ e \notin done
    <2>1. \A m, e : Lists(nodes, m, e) => m \in NodeIds
      BY <1>3 DEF Lists
    <2>. QED
      BY <2>1, DetachFacts
  <1>6. CASE ~Has(edges, bad) /\ nodes' = ns /\ loose' = loose \ done
    <2>1. bad \in loose
      BY <1>3, <1>4, <1>6 DEF Incidence, Has
    <2>. HIDE DEF ns
    <2>2. \A m, e : Lists(nodes', m, e) <=> Lists(nodes, m, e) /\ (e \in gone => e \in loose')
      BY <1>4, <1>5, <1>6, <2>1
    <2>3. loose \ gone \subseteq loose' /\ loose' \subseteq loose \cup (gone \cap DOMAIN edges)
      BY <1>6
    <2>4. DOMAIN nodes' \subseteq DOMAIN nodes /\ DOMAIN node_data' = DOMAIN nodes'
      BY <1>0, <1>5, <1>6 DEF IInv, TypeOK
    <2>. HIDE DEF gone
    <2>. QED
      BY <1>0, <1>2, <2>2, <2>3, <2>4, EdgesLeave
  <1>7. CASE Has(edges, bad) /\ nodes' = ns /\ loose' = (loose \ done) \cup {bad}
    <2>. HIDE DEF ns
    <2>2. \A m, e : Lists(nodes', m, e) <=> Lists(nodes, m, e) /\ (e \in gone => e \in loose')
      BY <1>4, <1>5, <1>7
    <2>3. loose \ gone \subseteq loose' /\ loose' \subseteq loose \cup (gone \cap DOMAIN edges)
      BY <1>7 DEF Has
    <2>4. DOMAIN nodes' \subseteq DOMAIN nodes /\ DOMAIN node_data' = DOMAIN nodes'
      BY <1>0, <1>5, <1>7 DEF IInv, TypeOK
    <2>. HIDE DEF gone
    <2>. QED
      BY <1>0, <1>2, <2>2, <2>3, <2>4, EdgesLeave
  <1>8. CASE /\ Has(edges, bad)
             /\ nodes' = Unlisted(ns, edges[bad], bad) /\ loose' = loose \ gone
    <2>. HIDE DEF ns
    <2>1. Incidence(ns, Without(edges, done), loose \ done)
      BY <1>3, <1>5 DEF Incidence, Without
    <2>2. bad \in DOMAIN Without(edges, done) /\ Without(edges, done)[bad] = edges[bad]
      BY <1>4, <1>8 DEF Without, Has
    <2>3. /\ DOMAIN nodes' = DOMAIN ns
          /\ \A m, e : Lists(nodes', m, e) <=> Lists(ns, m, e) /\ e # bad
      BY <1>8, <2>1, <2>2, UnlistedFacts
    <2>4. \A m, e : Lists(nodes', m, e) <=> Lists(nodes, m, e) /\ (e \in gone => e \in loose')
      BY <1>5, <1>8, <2>3
    <2>5. loose \ gone \subseteq loose' /\ loose' \subseteq loose \cup (gone \cap DOMAIN edges)
      BY <1>8
    <2>6. DOMAIN nodes' \subseteq DOMAIN nodes /\ DOMAIN node_data' = DOMAIN nodes'
      BY <1>0, <1>5, <2>3 DEF IInv, TypeOK
    <2>. HIDE DEF gone
    <2>. QED
      BY <1>0, <1>2, <2>4, <2>5, <2>6, EdgesLeave
  <1>. QED
    BY <1>1, <1>6, <1>7, <1>8

\* Between its two updates edit_edge has the edge in no set, whichever ends it
\* had; the new ends then list it as make_edge would.
LEMMA EditEdgeKeeps ==
    ASSUME IInv, NEW x, NEW from \in NodeIds, NEW to \in NodeIds, edit_edge(x, from, to)
    PROVE  IInv'
  <1>. DEFINE r == [from |-> from, to |-> to]
              old == Unlisted(nodes, edges[x], x)
  <1>1. /\ x \in DOMAIN edges
        /\ IF Complete(edges[x])
           THEN /\ edges' = With(edges, x, r)
                /\ nodes' = Listed(old, r, x)
                /\ loose' = IF Complete(r) THEN loose \ {x} ELSE loose \cup {x}
           ELSE nodes' = old /\ UNCHANGED <<edges, loose>>
        /\ UNCHANGED <<node_data, edge_data, next_node_id, next_edge_id>>
    BY DEF edit_edge, Has
  <1>2. r \in Edge /\ r.from = from /\ r.to = to
    BY DEF Edge
  <1>3. Incidence(nodes, edges, loose)
    BY IncidenceIs DEF IInv
  <1>4. /\ DOMAIN old = DOMAIN nodes
        /\ \A n, e : Lists(old, n, e) <=> Lists(nodes, n, e) /\ e # x
    BY <1>1, <1>3, UnlistedFacts
  <1>. HIDE DEF r, old
  <1>5. CASE ~Complete(edges[x])
    <2>1. /\ UNCHANGED <<edges, loose, node_data, edge_data, next_node_id, next_edge_id>>
          /\ DOMAIN nodes' = DOMAIN nodes
          /\ \A n, e : Lists(nodes', n, e) <=> Lists(nodes, n, e) /\ e # x
      BY <1>1, <1>4, <1>5
    <2>2. x \in loose
      BY <1>1, <1>3, <1>5 DEF Incidence, Complete, EndsOf, Lists
    <2>3. Incidence(nodes', edges', loose')
      BY <1>3, <2>1, <2>2 DEF Incidence
    <2>4. NodesTyped(nodes')
      BY <2>1, NodesTypedIs DEF IInv, TypeOK, NodesTyped
    <2>. QED
      BY <2>1, <2>3, <2>4, NodesTypedIs, IncidenceIsNext DEF IInv, TypeOK, Fresh
  <1>6. CASE Complete(edges[x])
    <2>1. /\ edges' = With(edges, x, r) /\ nodes' = Listed(old, r, x)
          /\ loose' = IF Complete(r) THEN loose \ {x} ELSE loose \cup {x}
          /\ UNCHANGED <<node_data, edge_data, next_node_id, next_edge_id>>
      BY <1>1, <1>6
    <2>2. /\ DOMAIN edges' = DOMAIN edges /\ edges'[x] = r
          /\ \A e \in DOMAIN edges : e # x => edges'[e] = edges[e]
      BY <1>1, <2>1 DEF With
    <2>3. /\ DOMAIN nodes' = DOMAIN nodes
          /\ \A n, e : Lists(nodes', n, e) <=>
                         \/ Lists(nodes, n, e) /\ e # x
                         \/ /\ e = x /\ n \in DOMAIN nodes /\ from \in DOMAIN nodes
                            /\ n = from \/ n = to
      BY <1>2, <1>4, <2>1, ListedFacts
    <2>4. TypeOK'
      <3>1. NodesTyped(nodes')
        BY <1>1, <2>3, NodesTypedIs DEF IInv, TypeOK, NodesTyped
      <3>2. \A e \in DOMAIN edges' : edges'[e] \in Edge
        BY <1>2, <2>2 DEF IInv, TypeOK
      <3>. QED
        BY <2>1, <2>2, <2>3, <3>1, <3>2, NodesTypedIs DEF IInv, TypeOK
    <2>5. Fresh'
      <3>1. DOMAIN edges' \cup loose' \subseteq DOMAIN edges \cup loose
        BY <1>1, <2>1, <2>2
      <3>. QED
        BY <2>1, <2>3, <3>1 DEF IInv, Fresh
    <2>6. x \notin loose' => from \in DOMAIN nodes /\ to \in DOMAIN nodes
      BY <1>2, <2>1 DEF Complete, EndsOf
    <2>7. \A e : e \notin loose' /\ e # x => e \notin loose
      BY <2>1
    <2>8. Incidence(nodes', edges', loose')
      <3>1. ASSUME NEW n, NEW e, Lists(nodes', n, e)
            PROVE  IF e \in DOMAIN edges' THEN n = edges'[e].from \/ n = edges'[e].to
                   ELSE e \in loose'
        <4>1. CASE e = x
          BY <1>1, <1>2, <2>2, <2>3, <3>1, <4>1
        <4>2. CASE e # x
          BY <1>3, <2>2, <2>3, <2>7, <3>1, <4>2 DEF Incidence
        <4>. QED
          BY <4>1, <4>2
      <3>2. ASSUME NEW e \in DOMAIN edges', e # x
            PROVE  /\ e \notin loose' => Lists(nodes', edges'[e].from, e) /\ Lists(nodes', edges'[e].to, e)
                   /\ Lists(nodes', edges'[e].to, e) => Lists(nodes', edges'[e].from, e)
        BY <1>3, <2>2, <2>3, <2>7, <3>2 DEF Incidence
      <3>3. /\ x \notin loose' => Lists(nodes', edges'[x].from, x) /\ Lists(nodes', edges'[x].to, x)
            /\ Lists(nodes', edges'[x].to, x) => Lists(nodes', edges'[x].from, x)
        BY <1>2, <2>2, <2>3, <2>6
      <3>. QED
        BY <3>1, <3>2, <3>3 DEF Incidence
    <2>. QED
      BY <2>4, <2>5, <2>8, IncidenceIsNext DEF IInv
  <1>. QED
    BY <1>5, <1>6

\* merge_nodes in terms of one edge: what is moved, who lists it afterwards.
LEMMA MergeFacts ==
    ASSUME IInv, NEW keep, NEW remove, NEW direct, merge_nodes(keep, remove, direct)
    PROVE  LET moved == Outgoing(remove) \ {direct}
           IN /\ keep # remove /\ keep \in DOMAIN nodes /\ remove \in DOMAIN nodes
              /\ direct \in DOMAIN edges /\ edges[direct].from = keep /\ edges[direct].to = remove
              /\ DOMAIN edges' = DOMAIN edges /\ DOMAIN nodes' = DOMAIN nodes
              /\ \A e : e \in moved <=> /\ Lists(nodes, remove, e) /\ e \in DOMAIN edges
                                        /\ edges[e].from = remove
              /\ \A e \in DOMAIN edges : /\ edges'[e].to = edges[e].to
                                         /\ edges'[e].from = IF e \in moved THEN keep ELSE edges[e].from
                                         /\ edges'[e] \in Edge
              /\ \A n, e : Lists(nodes', n, e) <=>
                             \/ Lists(nodes, n, e) /\ e # direct /\ ~(n = remove /\ e \in moved)
                             \/ n = keep /\ e \in moved
              /\ loose' = loose \cup {direct} \cup {e \in moved : edges[e].to = remove}
              /\ UNCHANGED <<node_data, edge_data, next_node_id, next_edge_id>>
  <1>. DEFINE moved == Outgoing(remove) \ {direct}
  <1>1. /\ keep # remove /\ keep \in DOMAIN nodes /\ remove \in DOMAIN nodes
        /\ direct \in DOMAIN edges /\ edges[direct].from = keep /\ edges[direct].to = remove
        /\ UNCHANGED <<node_data, edge_data, next_node_id, next_edge_id>>
        /\ keep \in NodeIds
    BY DEF merge_nodes, get_node, get_edge, Has, IInv, TypeOK
  <1>2. /\ edges' = [e \in DOMAIN edges |->
                       IF e \in moved THEN [edges[e] EXCEPT !.from = keep] ELSE edges[e]]
        /\ nodes' = [nodes EXCEPT ![keep] = (@ \ {direct}) \cup moved,
                                  ![remove] = @ \ (moved \cup {direct})]
        /\ loose' = loose \cup {direct} \cup {e \in moved : edges[e].to = remove}
    BY DEF merge_nodes
  <1>3. Incidence(nodes, edges, loose)
    BY IncidenceIs DEF IInv
  <1>4. \A e : e \in moved <=> /\ Lists(nodes, remove, e) /\ e \in DOMAIN edges
                               /\ edges[e].from = remove
    BY <1>1 DEF Outgoing, Lists, Has
  <1>. HIDE DEF moved
  <1>5. \A e \in DOMAIN edges : /\ edges[e] \in Edge
                                /\ [edges[e] EXCEPT !.from = keep] \in Edge
                                /\ [edges[e] EXCEPT !.from = keep].from = keep
                                /\ [edges[e] EXCEPT !.from = keep].to = edges[e].to
    BY <1>1 DEF IInv, TypeOK, Edge
  <1>6. /\ DOMAIN edges' = DOMAIN edges
        /\ \A e \in DOMAIN edges : edges'[e] = IF e \in moved THEN [edges[e] EXCEPT !.from = keep] ELSE edges[e]
    BY <1>2
  <1>7. /\ DOMAIN nodes' = DOMAIN nodes
        /\ nodes'[keep] = (nodes[keep] \ {direct}) \cup moved
        /\ nodes'[remove] = nodes[remove] \ (moved \cup {direct})
        /\ \A n \in DOMAIN nodes : n # keep /\ n # remove => nodes'[n] = nodes[n]
    BY <1>1, <1>2
  <1>8. \A n : Lists(nodes, n, direct) => n = keep \/ n = remove
    BY <1>1, <1>3 DEF Incidence
  <1>9. \A n, e : Lists(nodes', n, e) <=>
                    \/ Lists(nodes, n, e) /\ e # direct /\ ~(n = remove /\ e \in moved)
                    \/ n = keep /\ e \in moved
    BY <1>1, <1>7, <1>8 DEF Lists
  <1>10. \A e \in DOMAIN edges : /\ edges'[e].to = edges[e].to
                                 /\ edges'[e].from = IF e \in moved THEN keep ELSE edges[e].from
                                 /\ edges'[e] \in Edge
    BY <1>5, <1>6
  <1>. QED
    BY <1>1, <1>2, <1>4, <1>6, <1>7, <1>9, <1>10, Zenon DEF moved

\* A moved edge that is not loose does not end in remove, so its target still
\* lists it; an edge that stays with remove without being listed was loose.
LEMMA MergeKeeps ==
    ASSUME IInv, NEW keep, NEW remove, NEW direct, merge_nodes(keep, remove, direct)
    PROVE  IInv'
  <1>. DEFINE moved == Outgoing(remove) \ {direct}
  <1>1. /\ keep # remove /\ keep \in DOMAIN nodes /\ remove \in DOMAIN nodes
        /\ direct \in DOMAIN edges /\ edges[direct].from = keep /\ edges[direct].to = remove
        /\ DOMAIN edges' = DOMAIN edges /\ DOMAIN nodes' = DOMAIN nodes
        /\ loose' = loose \cup {direct} \cup {e \in moved : edges[e].to = remove}
        /\ UNCHANGED <<node_data, edge_data, next_node_id, next_edge_id>>
    BY MergeFacts
  <1>2. \A e : e \in moved <=> Lists(nodes, remove, e) /\ e \in DOMAIN edges /\ edges[e].from = remove /\ e # direct
    BY <1>1, MergeFacts
  <1>3. \A e \in DOMAIN edges : /\ edges'[e].to = edges[e].to
                                /\ edges'[e].from = IF e \in moved THEN keep ELSE edges[e].from
                                /\ edges'[e] \in Edge
    BY MergeFacts
  <1>4. \A n, e : Lists(nodes', n, e) <=>
                    \/ Lists(nodes, n, e) /\ e # direct /\ ~(n = remove /\ e \in moved)
                    \/ n = keep /\ e \in moved
    BY MergeFacts
  <1>5. Incidence(nodes, edges, loose)
    BY IncidenceIs DEF IInv
  <1>. HIDE DEF moved
  <1>6. TypeOK'
    <2>1. NodesTyped(nodes')
      BY <1>1, <1>2, <1>4, NodesTypedIs DEF IInv, TypeOK, NodesTyped
    <2>. QED
      BY <1>1, <1>3, <2>1, NodesTypedIs DEF IInv, TypeOK
  <1>7. Fresh'
    <2>1. DOMAIN edges' \cup loose' \subseteq DOMAIN edges \cup loose
      BY <1>1, <1>2
    <2>. QED
      BY <1>1, <2>1 DEF IInv, Fresh
  <1>8. Incidence(nodes', edges', loose')
    <2>1. \A n, e : Lists(nodes', n, e) =>
              IF e \in DOMAIN edges' THEN n = edges'[e].from \/ n = edges'[e].to ELSE e \in loose'
      BY <1>1, <1>2, <1>3, <1>4, <1>5 DEF Incidence
    <2>2. ASSUME NEW e \in DOMAIN edges'
          PROVE  /\ e \notin loose' => Lists(nodes', edges'[e].from, e) /\ Lists(nodes', edges'[e].to, e)
                 /\ Lists(nodes', edges'[e].to, e) => Lists(nodes', edges'[e].from, e)
      <3>1. CASE e \in moved
        <4>1. edges'[e].from = keep /\ edges'[e].to = edges[e].to /\ Lists(nodes', keep, e)
          BY <1>1, <1>3, <1>4, <2>2, <3>1
        <4>2. e \notin loose' => e \notin loose /\ edges[e].to # remove
          BY <1>1, <3>1
        <4>3. e \notin loose' => Lists(nodes, edges[e].to, e)
          BY <1>1, <1>5, <4>2 DEF Incidence
        <4>. QED
          BY <1>2, <1>4, <3>1, <4>1, <4>2, <4>3
      <3>2. CASE e = direct
        BY <1>1, <1>2, <1>4, <3>2
      <3>3. CASE e \notin moved /\ e # direct
        BY <1>1, <1>3, <1>4, <1>5, <3>3 DEF Incidence
      <3>. QED
        BY <3>1, <3>2, <3>3
    <2>. QED
      BY <2>1, <2>2 DEF Incidence
  <1>. QED
    BY <1>6, <1>7, <1>8, IncidenceIsNext DEF IInv

\* A merge that panics has taken the direct edge from the sets of its ends, the
\* only ones that listed it.
LEMMA MergeStoppedKeeps ==
    ASSUME IInv, NEW keep, NEW remove, NEW direct, MergeStopped(keep, remove, direct)
    PROVE  IInv'
  <1>1. /\ direct \in DOMAIN edges /\ edges[direct].from = keep /\ edges[direct].to = remove
        /\ nodes' = Detach(nodes, {keep, remove}, {direct}) /\ loose' = loose \cup {direct}
        /\ UNCHANGED <<edges, node_data, edge_data, next_node_id, next_edge_id>>
    BY DEF MergeStopped, get_edge, Has, IInv, TypeOK
  <1>2. Incidence(nodes, edges, loose)
    BY IncidenceIs DEF IInv
  <1>3. \A n : Lists(nodes, n, direct) => n \in {keep, remove}
    BY <1>1, <1>2 DEF Incidence
  <1>4. /\ DOMAIN nodes' = DOMAIN nodes
        /\ \A n, e : Lists(nodes', n, e) <=> Lists(nodes, n, e) /\ e # direct
    BY <1>1, <1>3, DetachFacts
  <1>5. TypeOK'
    <2>1. NodesTyped(nodes')
      BY <1>4, NodesTypedIs DEF IInv, TypeOK, NodesTyped
    <2>. QED
      BY <1>1, <1>4, <2>1, NodesTypedIs DEF IInv, TypeOK
  <1>6. Fresh'
    BY <1>1, <1>4 DEF IInv, Fresh
  <1>7. Incidence(nodes', edges', loose')
    BY <1>1, <1>2, <1>4 DEF Incidence
  <1>. QED
    BY <1>5, <1>6, <1>7, IncidenceIsNext DEF IInv

\* reinterpret replaces payloads only.
LEMMA ReinterpretKeeps ==
    ASSUME IInv, NEW np, NEW ep, reinterpret(np, ep)
    PROVE  IInv'
  BY DEF IInv, TypeOK, Fresh, IncidenceSound, IncidenceExact, reinterpret, Has, Ends

-----------------------------------------------------------------------------
(* The invariants. *)

\* The empty graph satisfies the invariant.
LEMMA InitEstablishes == Init => IInv
  BY BoundsAssumption
  DEF Init, IInv, TypeOK, Fresh, IncidenceSound, IncidenceExact, NodeIds, EdgeIds

\* Every call of the owner keeps the invariant, whether it returns or panics.
LEMMA NextPreserves == IInv /\ [Next]_graph => IInv'
  <1>. SUFFICES ASSUME IInv, [Next]_graph
                PROVE  IInv'
    OBVIOUS
  <1>1. CASE make_node(Payload)
    BY <1>1, MakeNodeKeeps
  <1>2. ASSUME NEW from \in NodeIds, NEW to \in NodeIds, make_edge(from, to, Payload)
        PROVE  IInv'
    BY <1>2, MakeEdgeKeeps
  <1>3. ASSUME NEW e \in EdgeIds, remove_edge(e)
        PROVE  IInv'
    BY <1>3, RemoveEdgeKeeps
  <1>9. ASSUME NEW e \in EdgeIds, RemoveEdgeDropPanics(e)
        PROVE  IInv'
    BY <1>9, RemoveEdgeDropPanicsKeeps
  <1>4. ASSUME NEW e \in EdgeIds, NEW from \in NodeIds, NEW to \in NodeIds,
               edit_edge(e, from, to)
        PROVE  IInv'
    BY <1>4, EditEdgeKeeps
  <1>5. ASSUME NEW n \in NodeIds, remove_node(n)
        PROVE  IInv'
    BY <1>5, RemoveNodeKeeps
  <1>6. ASSUME NEW n \in NodeIds, RemoveNodeStopped(n)
        PROVE  IInv'
    BY <1>6, RemoveNodeStoppedKeeps
  <1>7. ASSUME NEW keep \in NodeIds, NEW remove \in NodeIds, NEW e \in EdgeIds,
               merge_nodes(keep, remove, e)
        PROVE  IInv'
    BY <1>7, MergeKeeps
  <1>10. ASSUME NEW keep \in NodeIds, NEW remove \in NodeIds, NEW e \in EdgeIds,
                MergeStopped(keep, remove, e)
         PROVE  IInv'
    BY <1>10, MergeStoppedKeeps
  <1>8. CASE UNCHANGED graph
    BY <1>8 DEF graph, IInv, TypeOK, Fresh, IncidenceSound, IncidenceExact, Has, Ends
  <1>. QED
    BY <1>1, <1>2, <1>3, <1>4, <1>5, <1>6, <1>7, <1>8, <1>9, <1>10 DEF Next

\* In every reachable graph a node lists no edge it is not an end of, and an edge
\* without a record only when the destructor of its payload stopped the removal,
\* whatever other calls panicked before.
THEOREM IncidenceSoundAlways == Spec => []IncidenceSound
  <1>1. IInv => IncidenceSound
    BY DEF IInv
  <1>. QED
    BY <1>1, InitEstablishes, NextPreserves, PTL DEF Spec

\* In every reachable graph both ends of an edge that no merge and no panic
\* touched exist and list it, and the target of any edge lists it only if the
\* source does.
THEOREM IncidenceExactAlways == Spec => []IncidenceExact
  <1>1. IInv => IncidenceExact
    BY DEF IInv
  <1>. QED
    BY <1>1, InitEstablishes, NextPreserves, PTL DEF Spec

\* The payload maps have the ids of the adjacency maps, all below the cursors.
THEOREM TypeAlways == Spec => []TypeOK
  <1>1. IInv => TypeOK
    BY DEF IInv
  <1>. QED
    BY <1>1, InitEstablishes, NextPreserves, PTL DEF Spec

-----------------------------------------------------------------------------
(* What a merge keeps. *)

\* S holds n and the children of its nodes.
Closed(S, n) ==
    /\ S \subseteq NodeIds /\ n \in S
    /\ \A m \in S \cap DOMAIN nodes : children(m) \subseteq S

\* The children of a node in terms of single edges.
LEMMA ChildrenAre ==
    \A m \in DOMAIN nodes : \A c :
        c \in children(m) <=> \E e : /\ Lists(nodes, m, e) /\ e \in DOMAIN edges
                                     /\ edges[e].from = m /\ edges[e].to = c
  BY DEF children, Outgoing, Lists, Has

\* The closed sets that hold n have a least one, their intersection, and Reach
\* is it.
LeastClosed(R, n) == Closed(R, n) /\ \A S : Closed(S, n) => R \subseteq S

\* Reach, an intersection of closed sets, is closed itself, hence the least of them.
LEMMA ReachIsLeast ==
    IInv => \A n \in NodeIds : LeastClosed(Reach(n), n)
  <1>. SUFFICES ASSUME IInv, NEW n \in NodeIds
                PROVE  LeastClosed(Reach(n), n)
    OBVIOUS
  <1>. DEFINE L == {x \in NodeIds : \A S \in SUBSET NodeIds : Closed(S, n) => x \in S}
              Least(S) == Closed(S, n) /\ \A T \in SUBSET S : Closed(T, n) => T = S
  <1>1. \A m \in DOMAIN nodes : children(m) \subseteq NodeIds
    BY DEF IInv, TypeOK, Edge, Has, children, Outgoing
  <1>2. Closed(L, n)
    <2>1. L \subseteq NodeIds /\ n \in L
      BY DEF Closed
    <2>2. ASSUME NEW m \in L, m \in DOMAIN nodes, NEW c \in children(m)
          PROVE  c \in L
      BY <1>1, <2>2 DEF Closed
    <2>. QED
      BY <2>1, <2>2 DEF Closed
  <1>3. \A S : Closed(S, n) => L \subseteq S
    BY DEF Closed
  <1>. HIDE DEF L
  <1>4. Least(L)
    BY <1>2, <1>3
  <1>5. Reach(n) = CHOOSE S \in SUBSET NodeIds : Least(S)
    BY DEF Reach, Closed
  <1>6. L \in SUBSET NodeIds
    BY <1>2 DEF Closed
  <1>7. Least(Reach(n))
    BY <1>4, <1>5, <1>6
  <1>8. Reach(n) = L
    BY <1>2, <1>3, <1>7
  <1>. QED
    BY <1>2, <1>3, <1>8 DEF LeastClosed

\* The same after a step.
LEMMA ReachIsLeastNext ==
    IInv' => (\A n \in NodeIds : LeastClosed(Reach(n), n))'
  BY ReachIsLeast, PTL

\* A set that was closed and holds remove is still closed: only keep gained
\* children, and they were children of remove.
LEMMA MergeAddsNone ==
    ASSUME IInv, IInv', NEW keep \in NodeIds, NEW remove \in NodeIds, NEW direct,
           merge_nodes(keep, remove, direct),
           NEW S, Closed(S, keep), remove \in S
    PROVE  Closed(S, keep)'
  <1>. DEFINE moved == Outgoing(remove) \ {direct}
  <1>1. /\ keep # remove /\ remove \in DOMAIN nodes
        /\ DOMAIN nodes' = DOMAIN nodes /\ DOMAIN edges' = DOMAIN edges
        /\ \A e : e \in moved => Lists(nodes, remove, e) /\ e \in DOMAIN edges /\ edges[e].from = remove
        /\ \A e \in DOMAIN edges : /\ edges'[e].to = edges[e].to
                                   /\ edges'[e].from = IF e \in moved THEN keep ELSE edges[e].from
        /\ \A n, e : Lists(nodes', n, e) =>
                       \/ Lists(nodes, n, e) /\ ~(n = remove /\ e \in moved)
                       \/ n = keep /\ e \in moved
    BY MergeFacts
  <1>. HIDE DEF moved
  <1>3. \A m \in DOMAIN nodes : \A c :
          c \in children(m)' <=> \E e : /\ Lists(nodes', m, e) /\ e \in DOMAIN edges
                                        /\ edges'[e].from = m /\ edges'[e].to = c
    BY <1>1 DEF children, Outgoing, Lists, Has
  <1>4. ASSUME NEW m \in S \cap DOMAIN nodes, NEW c \in children(m)'
        PROVE  c \in S
    <2>1. PICK e : Lists(nodes', m, e) /\ e \in DOMAIN edges /\ edges'[e].from = m /\ edges'[e].to = c
      BY <1>3, <1>4
    <2>2. CASE e \in moved
      <3>1. c \in children(remove)
        BY <1>1, <2>1, <2>2, ChildrenAre
      <3>. QED
        BY <1>1, <3>1 DEF Closed
    <2>3. CASE e \notin moved
      <3>1. Lists(nodes, m, e) /\ e \in DOMAIN edges
        BY <1>1, <2>1, <2>3
      <3>2. c \in children(m)
        BY <1>1, <2>1, <2>3, <3>1, ChildrenAre
      <3>. QED
        BY <3>2 DEF Closed
    <2>. QED
      BY <2>2, <2>3
  <1>. QED
    BY <1>1, <1>4 DEF Closed

\* A set that is closed after the merge was closed before it, with remove
\* added: what remove led to, keep leads to now.
LEMMA MergeLosesNone ==
    ASSUME IInv, IInv', NEW keep \in NodeIds, NEW remove \in NodeIds, NEW direct,
           merge_nodes(keep, remove, direct),
           NEW S, Closed(S, keep)'
    PROVE  Closed(S \cup {remove}, keep)
  <1>. DEFINE moved == Outgoing(remove) \ {direct}
  <1>1. /\ keep # remove /\ keep \in DOMAIN nodes
        /\ DOMAIN nodes' = DOMAIN nodes /\ DOMAIN edges' = DOMAIN edges
        /\ edges[direct].from = keep /\ edges[direct].to = remove
        /\ \A e \in DOMAIN edges : /\ edges'[e].to = edges[e].to
                                   /\ edges'[e].from = IF e \in moved THEN keep ELSE edges[e].from
        /\ \A n, e : Lists(nodes', n, e) <=>
                       \/ Lists(nodes, n, e) /\ e # direct /\ ~(n = remove /\ e \in moved)
                       \/ n = keep /\ e \in moved
    BY MergeFacts
  <1>2. \A e : e \in moved <=> Lists(nodes, remove, e) /\ e \in DOMAIN edges /\ edges[e].from = remove
    BY <1>1, MergeFacts
  <1>. HIDE DEF moved
  <1>4. \A m \in DOMAIN nodes : \A c :
          c \in children(m)' <=> \E e : /\ Lists(nodes', m, e) /\ e \in DOMAIN edges
                                        /\ edges'[e].from = m /\ edges'[e].to = c
    BY <1>1 DEF children, Outgoing, Lists, Has
  <1>5. keep \in S /\ \A m \in S \cap DOMAIN nodes : \A c \in children(m)' : c \in S
    BY <1>1 DEF Closed
  <1>6. ASSUME NEW m \in (S \cup {remove}) \cap DOMAIN nodes, NEW c \in children(m)
        PROVE  c \in S \cup {remove}
    <2>1. PICK e : Lists(nodes, m, e) /\ e \in DOMAIN edges /\ edges[e].from = m /\ edges[e].to = c
      BY <1>6, ChildrenAre
    <2>3. CASE e = direct
      BY <1>1, <2>1, <2>3
    <2>4. CASE e # direct /\ m = remove
      <3>1. e \in moved
        BY <1>2, <2>1, <2>4
      <3>2. c \in children(keep)'
        BY <1>1, <1>4, <2>1, <3>1
      <3>. QED
        BY <1>1, <1>5, <3>2
    <2>5. CASE e # direct /\ m # remove
      <3>1. e \notin moved
        BY <1>2, <2>1, <2>5
      <3>2. c \in children(m)'
        BY <1>1, <1>4, <2>1, <2>5, <3>1
      <3>. QED
        BY <1>5, <1>6, <2>5, <3>2
    <2>. QED
      BY <2>3, <2>4, <2>5
  <1>. QED
    BY <1>6 DEF Closed

\* A merge along an edge the graph still lists leaves remove without outgoing
\* edges and keep with what it reached, remove aside.
LEMMA MergeKeepsStep ==
    ASSUME IInv, IInv', NEW keep \in NodeIds, NEW remove \in NodeIds, NEW direct,
           direct \notin loose, merge_nodes(keep, remove, direct)
    PROVE  /\ Reach(keep)' \cup {remove} = Reach(keep)
           /\ Outgoing(remove)' = {}
  <1>. DEFINE moved == Outgoing(remove) \ {direct}
  <1>1. /\ keep # remove /\ remove \in DOMAIN nodes /\ keep \in DOMAIN nodes
        /\ direct \in DOMAIN edges /\ edges[direct].from = keep /\ edges[direct].to = remove
        /\ DOMAIN nodes' = DOMAIN nodes /\ DOMAIN edges' = DOMAIN edges
        /\ \A e \in DOMAIN edges : edges'[e].from = IF e \in moved THEN keep ELSE edges[e].from
        /\ \A n, e : Lists(nodes', n, e) <=>
                       \/ Lists(nodes, n, e) /\ e # direct /\ ~(n = remove /\ e \in moved)
                       \/ n = keep /\ e \in moved
    BY MergeFacts
  <1>2. \A e : e \in moved <=> Lists(nodes, remove, e) /\ e \in DOMAIN edges /\ edges[e].from = remove
    BY <1>1, MergeFacts
  <1>3. Incidence(nodes, edges, loose) /\ Incidence(nodes', edges', loose')
    BY IncidenceIs, IncidenceIsNext DEF IInv
  <1>4. /\ Closed(Reach(keep), keep)
        /\ \A S : Closed(S, keep) => Reach(keep) \subseteq S
    BY ReachIsLeast DEF LeastClosed
  <1>5. /\ Closed(Reach(keep), keep)'
        /\ \A S : Closed(S, keep)' => Reach(keep)' \subseteq S
    BY ReachIsLeastNext DEF LeastClosed
  <1>6. remove \in Reach(keep)
    <2>1. remove \in children(keep)
      BY <1>1, <1>3, ChildrenAre DEF Incidence
    <2>2. keep \in Reach(keep) /\ children(keep) \subseteq Reach(keep)
      BY <1>1, <1>4 DEF Closed
    <2>. QED
      BY <2>1, <2>2
  <1>7. Reach(keep)' \subseteq Reach(keep)
    BY <1>4, <1>5, <1>6, MergeAddsNone
  <1>8. Reach(keep) \subseteq Reach(keep)' \cup {remove}
    BY <1>4, <1>5, MergeLosesNone
  <1>9. ASSUME NEW e \in Outgoing(remove)'
        PROVE  FALSE
    <2>1. Lists(nodes', remove, e) /\ e \in DOMAIN edges /\ edges'[e].from = remove
      BY <1>1, <1>9 DEF Outgoing, Lists, Has
    <2>2. Lists(nodes, remove, e) /\ e \notin moved
      BY <1>1, <2>1
    <2>. QED
      BY <1>1, <1>2, <2>1, <2>2
  <1>. QED
    BY <1>6, <1>7, <1>8, <1>9

\* After every merge along an edge the graph still lists, the kept node reaches
\* what it reached before, the removed node aside, and the removed node has no
\* outgoing edge: no successor is lost on the way from one set to the other.
THEOREM MergeKeepsReachAlways == Spec => MergeKeepsReach
  <1>1. IInv /\ IInv' /\ [Next]_graph =>
          [\A keep, remove \in NodeIds, e \in EdgeIds \ loose :
             merge_nodes(keep, remove, e) =>
                /\ Reach(keep)' \cup {remove} = Reach(keep)
                /\ Outgoing(remove)' = {}]_graph
    BY MergeKeepsStep
  <1>. QED
    BY <1>1, InitEstablishes, NextPreserves, PTL DEF Spec, MergeKeepsReach

-----------------------------------------------------------------------------
(* The same along a whole life of a graph: parsed from any text, mapped,   *)
(* and edited by its owner.  The parser adds an edge between nodes it has  *)
(* named before, so no call of make_edge in parse can stop half-way.       *)

\* Every name the parser knows is the name of a node, and it knows the ends of
\* the edge it is about to add; the owner has no names.
NamesResolve ==
    /\ \A name \in DOMAIN node_ids : node_ids[name] \in DOMAIN nodes
    /\ phase = "owned" => DOMAIN node_ids = {}
    /\ phase \in {"target", "edge"} => From.name \in DOMAIN node_ids
    /\ phase = "edge" => To.name \in DOMAIN node_ids

\* Until the owner has the graph nothing was taken from an incident set.
NothingLoose == phase # "owned" => loose = {}

ParserInv == IInv /\ NamesResolve /\ NothingLoose

\* ensure_node keeps the invariant, names its node and forgets no name.
LEMMA EnsureNode ==
    ASSUME IInv, NEW name, NEW explicit, ensure_node(name, explicit),
           \A x \in DOMAIN node_ids : node_ids[x] \in DOMAIN nodes
    PROVE  /\ IInv'
           /\ name \in DOMAIN node_ids' /\ DOMAIN node_ids \subseteq DOMAIN node_ids'
           /\ \A x \in DOMAIN node_ids' : node_ids'[x] \in DOMAIN nodes'
           /\ loose' = loose
  <1>1. CASE Has(node_ids, name)
    <2>1. /\ UNCHANGED <<nodes, edges, edge_data, next_node_id, next_edge_id, loose, node_ids>>
          /\ DOMAIN node_data' = DOMAIN node_data
      BY <1>1 DEF ensure_node
    <2>2. IInv'
      BY <2>1 DEF IInv, TypeOK, Fresh, IncidenceSound, IncidenceExact, Has, Ends
    <2>. QED
      BY <1>1, <2>1, <2>2 DEF Has
  <1>2. CASE ~Has(node_ids, name)
    <2>. DEFINE data == IF explicit = None THEN name ELSE explicit
    <2>1. make_node(data) /\ node_ids' = With(node_ids, name, next_node_id)
      BY <1>2 DEF ensure_node
    <2>. HIDE DEF data
    <2>2. IInv'
      BY <2>1, MakeNodeKeeps
    <2>3. DOMAIN nodes' = DOMAIN nodes \cup {next_node_id} /\ loose' = loose
      BY <2>1, WithFacts DEF make_node
    <2>. QED
      BY <2>1, <2>2, <2>3 DEF With
  <1>. QED
    BY <1>1, <1>2

\* The ends of the line are read from the text and the line number alone.
LEMMA EndsOfLine ==
    ASSUME UNCHANGED <<source, at>>
    PROVE  From' = From /\ To' = To
  BY DEF From, To, Line, Arrow

\* Before the first line nothing has a name.
LEMMA InitParserEstablishes == InitParser => ParserInv
  <1>. SUFFICES ASSUME InitParser
                PROVE  ParserInv
    OBVIOUS
  <1>1. IInv
    BY InitEstablishes DEF InitParser
  <1>2. phase = "line" /\ node_ids = <<>> /\ loose = {}
    BY DEF InitParser, Init
  <1>. QED
    BY <1>1, <1>2 DEF ParserInv, NamesResolve, NothingLoose

\* Every step of the parser, and every call on the graph it returns, keeps the
\* invariant.
LEMMA NextParserPreserves == ParserInv /\ [NextParser]_vars => ParserInv'
  <1>. SUFFICES ASSUME ParserInv, [NextParser]_vars
                PROVE  ParserInv'
    OBVIOUS
  <1>1. /\ IInv
        /\ \A x \in DOMAIN node_ids : node_ids[x] \in DOMAIN nodes
        /\ phase # "owned" => loose = {}
    BY DEF ParserInv, NamesResolve, NothingLoose
  <1>2. ASSUME UNCHANGED <<graph, node_ids>>, phase # "owned",
               phase' \notin {"target", "edge", "owned"}
        PROVE  ParserInv'
    <2>1. IInv'
      BY <1>1, <1>2 DEF graph, IInv, TypeOK, Fresh, IncidenceSound, IncidenceExact, Has, Ends
    <2>. QED
      BY <1>1, <1>2, <2>1 DEF graph, ParserInv, NamesResolve, NothingLoose
  <1>3. CASE SkipBlank
    BY <1>2, <1>3 DEF SkipBlank, AtLine, NextLine
  <1>4. CASE Reject
    BY <1>2, <1>4 DEF Reject, AtLine
  <1>5. CASE NodeLine
    <2>1. phase = "line" /\ phase' = "line"
      BY <1>5 DEF NodeLine, AtLine, NextLine
    <2>2. PICK name, explicit : ensure_node(name, explicit)
      BY <1>5 DEF NodeLine
    <2>3. /\ IInv' /\ loose' = loose
          /\ \A x \in DOMAIN node_ids' : node_ids'[x] \in DOMAIN nodes'
      BY <1>1, <2>2, EnsureNode
    <2>. QED
      BY <1>1, <2>1, <2>3 DEF ParserInv, NamesResolve, NothingLoose
  <1>6. CASE EdgeLine
    <2>1. /\ ensure_node(From.name, None) /\ phase = "line" /\ phase' = "target"
          /\ UNCHANGED <<source, at>>
      BY <1>6 DEF EdgeLine, AtLine
    <2>2. /\ IInv' /\ loose' = loose /\ From.name \in DOMAIN node_ids'
          /\ \A x \in DOMAIN node_ids' : node_ids'[x] \in DOMAIN nodes'
      BY <1>1, <2>1, EnsureNode
    <2>3. From' = From
      BY <2>1, EndsOfLine
    <2>. QED
      BY <1>1, <2>1, <2>2, <2>3 DEF ParserInv, NamesResolve, NothingLoose
  <1>7. CASE EdgeTarget
    <2>1. /\ ensure_node(To.name, None) /\ phase = "target" /\ phase' = "edge"
          /\ UNCHANGED <<source, at>>
      BY <1>7 DEF EdgeTarget
    <2>2. /\ IInv' /\ loose' = loose /\ To.name \in DOMAIN node_ids'
          /\ DOMAIN node_ids \subseteq DOMAIN node_ids'
          /\ \A x \in DOMAIN node_ids' : node_ids'[x] \in DOMAIN nodes'
      BY <1>1, <2>1, EnsureNode
    <2>3. From' = From /\ To' = To /\ From.name \in DOMAIN node_ids
      BY <2>1, EndsOfLine DEF ParserInv, NamesResolve
    <2>. QED
      BY <1>1, <2>1, <2>2, <2>3 DEF ParserInv, NamesResolve, NothingLoose
  <1>8. CASE AddEdge
    <2>. DEFINE from == node_ids[From.name]
                to == node_ids[To.name]
                data == IF To.payload = None THEN Line ELSE To.payload
    <2>1. make_edge(from, to, data) /\ phase = "edge" /\ phase' = "line" /\ UNCHANGED node_ids
      BY <1>8 DEF AddEdge, NextLine
    <2>2. from \in DOMAIN nodes /\ to \in DOMAIN nodes /\ DOMAIN nodes \subseteq NodeIds
      BY <1>1, <2>1 DEF ParserInv, NamesResolve, IInv, TypeOK
    <2>. HIDE DEF from, to, data
    <2>3. IInv'
      BY <1>1, <2>1, <2>2, MakeEdgeKeeps
    <2>4. loose' = loose
      BY <2>1, <2>2 DEF make_edge, Complete, EndsOf
    <2>5. DOMAIN nodes' = DOMAIN nodes
      BY <2>1, ListedFacts DEF make_edge
    <2>. QED
      BY <1>1, <2>1, <2>3, <2>4, <2>5 DEF ParserInv, NamesResolve, NothingLoose
  <1>9. CASE Finish
    BY <1>2, <1>9 DEF Finish
  <1>10. CASE Take
    <2>1. reinterpret(Payload, Payload) /\ phase' = "owned" /\ node_ids' = <<>>
      BY <1>10 DEF Take
    <2>2. IInv'
      BY <1>1, <2>1, ReinterpretKeeps
    <2>. QED
      BY <2>1, <2>2 DEF ParserInv, NamesResolve, NothingLoose
  <1>11. CASE Edit
    <2>1. Next /\ phase = "owned" /\ phase' = "owned" /\ UNCHANGED node_ids
      BY <1>11 DEF Edit, parser
    <2>2. IInv'
      BY <1>1, <2>1, NextPreserves
    <2>3. DOMAIN node_ids' = {}
      BY <2>1 DEF ParserInv, NamesResolve
    <2>. QED
      BY <2>1, <2>2, <2>3 DEF ParserInv, NamesResolve, NothingLoose
  <1>12. CASE UNCHANGED vars
    <2>1. From' = From /\ To' = To
      BY <1>12, EndsOfLine DEF vars, parser
    <2>2. IInv'
      BY <1>1, <1>12, NextPreserves DEF vars
    <2>. QED
      BY <1>12, <2>1, <2>2 DEF vars, graph, parser, ParserInv, NamesResolve, NothingLoose
  <1>. QED
    BY <1>3, <1>4, <1>5, <1>6, <1>7, <1>8, <1>9, <1>10, <1>11, <1>12 DEF NextParser

\* Whatever the text and whatever the owner does: a node lists no edge it is not an
\* end of, and one that is gone only where its destructor stopped the removal.
THEOREM ParserIncidenceSound == SpecParser => []IncidenceSound
  <1>1. ParserInv => IncidenceSound
    BY DEF ParserInv, IInv
  <1>. QED
    BY <1>1, InitParserEstablishes, NextParserPreserves, PTL DEF SpecParser

\* Whatever the text and whatever the owner does: both ends of an edge no merge
\* and no panic touched list it, and no target lists an edge its source does not.
THEOREM ParserIncidenceExact == SpecParser => []IncidenceExact
  <1>1. ParserInv => IncidenceExact
    BY DEF ParserInv, IInv
  <1>. QED
    BY <1>1, InitParserEstablishes, NextParserPreserves, PTL DEF SpecParser

\* The payload maps keep the ids of the adjacency maps while the parser writes
\* payloads and the owner maps them.
THEOREM ParserTypeOK == SpecParser => []TypeOK
  <1>1. ParserInv => TypeOK
    BY DEF ParserInv, IInv
  <1>. QED
    BY <1>1, InitParserEstablishes, NextParserPreserves, PTL DEF SpecParser

\* No edge the parser adds has a missing end, so the graph it returns is listed
\* twice in full.
THEOREM ParserNothingLoose == SpecParser => []NothingLoose
  <1>1. ParserInv => NothingLoose
    BY DEF ParserInv
  <1>. QED
    BY <1>1, InitParserEstablishes, NextParserPreserves, PTL DEF SpecParser

\* Every merge in the life of a parsed graph keeps what its node reaches.
THEOREM ParserMergeKeepsReach == SpecParser => MergeKeepsReach
  <1>1. ParserInv /\ ParserInv' /\ [NextParser]_vars =>
          [\A keep, remove \in NodeIds, e \in EdgeIds \ loose :
             merge_nodes(keep, remove, e) =>
                /\ Reach(keep)' \cup {remove} = Reach(keep)
                /\ Outgoing(remove)' = {}]_graph
    BY MergeKeepsStep DEF ParserInv
  <1>. QED
    BY <1>1, InitParserEstablishes, NextParserPreserves, PTL DEF SpecParser, MergeKeepsReach

-----------------------------------------------------------------------------
(* Pieces of a line, by their positions. *)

\* Min and Max of a set of positions are what their names say.
LEMMA MinMax ==
    ASSUME NEW n \in Nat, NEW K \in SUBSET (1 .. n), K # {}
    PROVE  /\ Min(K) \in K /\ \A k \in K : Min(K) <= k
           /\ Max(K) \in K /\ \A k \in K : k <= Max(K)
  <1>1. \E x \in K : \A k \in K : x <= k
    BY LeastNat
  <1>2. \E x \in K : \A k \in K : x >= k
    <2>. DEFINE D == {n - k : k \in K}
    <2>1. D \in SUBSET Nat /\ D # {}
      <3>1. \A k \in K : n - k \in Nat
        OBVIOUS
      <3>2. PICK k \in K : TRUE
        OBVIOUS
      <3>3. n - k \in D
        BY <3>2
      <3>. QED
        BY <3>1, <3>3
    <2>2. PICK d \in D : \A e \in D : d <= e
      <3>. HIDE DEF D
      <3>. QED
        BY <2>1, LeastNat
    <2>3. PICK x \in K : d = n - x
      BY <2>2
    <2>4. \A k \in K : n - x <= n - k
      BY <2>2, <2>3
    <2>. QED
      BY <2>4
  <1>3. Min(K) \in K /\ \A k \in K : Min(K) <= k
    BY <1>1 DEF Min
  <1>4. Max(K) \in K /\ \A k \in K : Max(K) >= k
    BY <1>2 DEF Max
  <1>. QED
    BY <1>3, <1>4

\* A position no later than all others is Min, one no earlier is Max.
LEMMA MinMaxIs ==
    ASSUME NEW n \in Nat, NEW K \in SUBSET (1 .. n), NEW x \in K
    PROVE  /\ (\A k \in K : x <= k) => Min(K) = x
           /\ (\A k \in K : k <= x) => Max(K) = x
  <1>1. /\ Min(K) \in K /\ \A k \in K : Min(K) <= k
        /\ Max(K) \in K /\ \A k \in K : k <= Max(K)
    BY MinMax
  <1>2. \A k \in K : k \in Nat
    OBVIOUS
  <1>3. x \in Nat /\ Min(K) \in Nat /\ Max(K) \in Nat
    BY <1>1, <1>2
  <1>4. Min(K) <= x /\ x <= Max(K)
    BY <1>1
  <1>5. ASSUME \A k \in K : x <= k
        PROVE  Min(K) = x
    <2>1. x <= Min(K)
      BY <1>1, <1>5
    <2>. QED
      BY <1>3, <1>4, <2>1
  <1>6. ASSUME \A k \in K : k <= x
        PROVE  Max(K) = x
    <2>1. Max(K) <= x
      BY <1>1, <1>6
    <2>. QED
      BY <1>3, <1>4, <2>1
  <1>. QED
    BY <1>5, <1>6

\* i to j are positions of l, or none of them.
Within(l, i, j) == i \in Nat /\ i > 0 /\ j \in Nat /\ j <= Len(l) /\ i <= j + 1

\* SubSeq under a name of its own, for the provers not to expand it.
Piece(l, i, j) == SubSeq(l, i, j)

\* What the piece from i to j is.
LEMMA PieceFacts ==
    ASSUME NEW S, NEW l \in Seq(S), NEW i \in Nat, NEW j \in Nat, Within(l, i, j)
    PROVE  /\ Piece(l, i, j) \in Seq(S) /\ Len(Piece(l, i, j)) = j - i + 1
           /\ DOMAIN Piece(l, i, j) = 1 .. j - i + 1
           /\ \A k \in 1 .. j - i + 1 : Piece(l, i, j)[k] = l[i + k - 1]
  BY DEF Within, Piece

\* A piece of a piece.
LEMMA PieceOfPiece ==
    ASSUME NEW S, NEW l \in Seq(S), NEW i \in Nat, NEW j \in Nat, Within(l, i, j),
           NEW a \in Nat, NEW b \in Nat, a > 0 /\ b <= j - i + 1 /\ a <= b + 1
    PROVE  Piece(Piece(l, i, j), a, b) = Piece(l, i + a - 1, i + b - 1)
  <1>. DEFINE s == Piece(l, i, j)
              x == i + a - 1
              y == i + b - 1
              u == Piece(s, a, b)
              v == Piece(l, x, y)
  <1>1. /\ i \in Nat /\ i > 0 /\ j \in Nat /\ j <= Len(l) /\ i <= j + 1
        /\ x \in Nat /\ x > 0 /\ y \in Nat /\ y <= Len(l) /\ x <= y + 1
    BY DEF Within
  <1>2. /\ s \in Seq(S) /\ Len(s) = j - i + 1
        /\ \A k \in 1 .. j - i + 1 : s[k] = l[i + k - 1]
    BY PieceFacts
  <1>3. /\ v \in Seq(S) /\ Len(v) = y - x + 1
        /\ \A k \in 1 .. y - x + 1 : v[k] = l[x + k - 1]
    <2>1. Within(l, x, y)
      BY <1>1 DEF Within
    <2>2. x \in Nat /\ y \in Nat
      BY <1>1
    <2>. HIDE DEF x, y
    <2>3. /\ Piece(l, x, y) \in Seq(S) /\ Len(Piece(l, x, y)) = y - x + 1
          /\ \A k \in 1 .. y - x + 1 : Piece(l, x, y)[k] = l[x + k - 1]
      BY ONLY l \in Seq(S), <2>1, <2>2, PieceFacts
    <2>. QED
      BY <2>3
  <1>4. Within(s, a, b)
    BY <1>1, <1>2 DEF Within
  <1>. HIDE DEF s
  <1>5. /\ u \in Seq(S) /\ Len(u) = b - a + 1
        /\ \A k \in 1 .. b - a + 1 : u[k] = s[a + k - 1]
    <2>1. s \in Seq(S)
      BY <1>2
    <2>2. /\ Piece(s, a, b) \in Seq(S) /\ Len(Piece(s, a, b)) = b - a + 1
          /\ \A k \in 1 .. b - a + 1 : Piece(s, a, b)[k] = s[a + k - 1]
      BY ONLY <1>4, <2>1, PieceFacts
    <2>. QED
      BY <2>2
  <1>. HIDE DEF u, v
  <1>6. Len(u) = Len(v)
    BY <1>1, <1>3, <1>5
  <1>7. ASSUME NEW k \in 0 .. Len(u) - 1
        PROVE  At(u, k) = At(v, k)
    <2>1. k + 1 \in 1 .. b - a + 1 /\ k + 1 \in 1 .. y - x + 1
      <3>1. Len(u) = b - a + 1
        BY <1>5
      <3>. QED
        BY <1>1, <3>1
    <2>2. a + (k + 1) - 1 \in 1 .. j - i + 1 /\ i + (a + (k + 1) - 1) - 1 = x + (k + 1) - 1
      BY <1>1, <2>1
    <2>3. u[k + 1] = s[a + (k + 1) - 1]
      BY <1>5, <2>1
    <2>4. s[a + (k + 1) - 1] = l[i + (a + (k + 1) - 1) - 1]
      BY <1>2, <2>2
    <2>5. v[k + 1] = l[x + (k + 1) - 1]
      BY <1>3, <2>1
    <2>. QED
      BY <2>2, <2>3, <2>4, <2>5 DEF At
  <1>8. u = v
    BY <1>3, <1>5, <1>6, <1>7, SameSeq
  <1>. QED
    BY <1>8 DEF u, v, s

\* x and y are the first and the last position in i .. j without a blank.
Bounds(l, i, j, x, y) ==
    /\ x \in i .. j /\ y \in x .. j /\ l[x] # " " /\ l[y] # " "
    /\ Blank(l, i, x - 1) /\ Blank(l, y + 1, j)

\* A piece that is not blank has a first and a last position without a blank.
LEMMA EndsExist ==
    ASSUME NEW S, NEW l \in Seq(S), NEW i \in Nat, NEW j \in Nat, Within(l, i, j), ~Blank(l, i, j)
    PROVE  \E x, y \in Nat : Bounds(l, i, j, x, y)
  <1>. DEFINE K == {k \in i .. j : l[k] # " "}
              x == Min(K)
              y == Max(K)
  <1>1. i \in Nat /\ i > 0 /\ j \in Nat
    BY DEF Within
  <1>2. K \in SUBSET (1 .. j) /\ K # {}
    <2>1. \A k \in i .. j : k \in 1 .. j
      BY <1>1
    <2>2. K # {}
      BY DEF Blank
    <2>. QED
      BY <2>1, <2>2
  <1>3. x \in K /\ y \in K /\ \A k \in K : x <= k /\ k <= y
    <2>. HIDE DEF K
    <2>. QED
      BY <1>1, <1>2, MinMax
  <1>. HIDE DEF x, y
  <1>4. x \in i .. j /\ y \in i .. j /\ x <= y
    BY <1>3
  <1>8. l[x] # " " /\ l[y] # " "
    BY <1>3
  <1>5. Blank(l, i, x - 1)
    <2>. SUFFICES ASSUME NEW k \in i .. x - 1, l[k] # " "
                  PROVE  FALSE
      BY DEF Blank
    <2>1. k \in i .. j /\ ~(x <= k)
      BY ONLY <1>1, <1>4, k \in i .. x - 1
    <2>. QED
      BY <1>3, <2>1
  <1>6. Blank(l, y + 1, j)
    <2>. SUFFICES ASSUME NEW k \in y + 1 .. j, l[k] # " "
                  PROVE  FALSE
      BY DEF Blank
    <2>1. k \in i .. j /\ ~(k <= y)
      BY ONLY <1>1, <1>4, k \in y + 1 .. j
    <2>. QED
      BY <1>3, <2>1
  <1>7. y \in x .. j
    BY ONLY <1>1, <1>4
  <1>. QED
    <2>1. Bounds(l, i, j, x, y)
      BY <1>4, <1>5, <1>6, <1>7, <1>8 DEF Bounds
    <2>2. x \in Nat /\ y \in Nat
      BY ONLY <1>1, <1>4
    <2>. QED
      BY <2>1, <2>2

\* trim of a piece of a line is the piece between the ends.
LEMMA TrimIs ==
    ASSUME NEW S, NEW l \in Seq(S), NEW i \in Nat, NEW j \in Nat, Within(l, i, j),
           NEW x \in Nat, NEW y \in Nat, Bounds(l, i, j, x, y)
    PROVE  trim(Piece(l, i, j)) = Piece(l, x, y)
  <1>. DEFINE s == Piece(l, i, j)
              K == {k \in DOMAIN s : s[k] # " "}
              a == x - i + 1
              b == y - i + 1
              n == j - i + 1
  <1>1. /\ i \in Nat /\ i > 0 /\ j \in Nat /\ j <= Len(l) /\ i <= j + 1
        /\ x \in Nat /\ y \in Nat /\ i <= x /\ x <= y /\ y <= j
    <2>1. i \in Nat /\ i > 0 /\ j \in Nat /\ j <= Len(l) /\ i <= j + 1
      BY DEF Within
    <2>2. x \in i .. j /\ y \in x .. j
      BY DEF Bounds
    <2>. QED
      BY ONLY <2>1, <2>2
  <1>0. /\ l[x] # " " /\ l[y] # " "
        /\ \A k \in i .. x - 1 : l[k] = " "
        /\ \A k \in y + 1 .. j : l[k] = " "
    BY DEF Bounds, Blank
  <1>2. n \in Nat /\ a \in 1 .. n /\ b \in 1 .. n /\ a <= b /\ i + a - 1 = x /\ i + b - 1 = y
    BY <1>1
  <1>3. s \in Seq(S) /\ DOMAIN s = 1 .. n /\ \A k \in 1 .. n : s[k] = l[i + k - 1]
    BY PieceFacts
  <1>4. trim(s) = IF K = {} THEN <<>> ELSE Piece(s, Min(K), Max(K))
    BY DEF trim, Piece
  <1>5. a \in K /\ b \in K
    BY <1>0, <1>2, <1>3
  <1>6. ASSUME NEW k \in K
        PROVE  a <= k /\ k <= b
    <2>0. k \in 1 .. n
      BY <1>3
    <2>1. k \in 1 .. n /\ l[i + k - 1] # " "
      BY <1>3
    <2>2. i + k - 1 \notin i .. x - 1 /\ i + k - 1 \notin y + 1 .. j
      BY <1>0, <2>1
    <2>. HIDE DEF K
    <2>3. k \in Nat /\ k <= j - i + 1 /\ k >= 1
      BY ONLY <1>1, <2>0
    <2>. QED
      BY ONLY <1>1, <2>2, <2>3
  <1>7. K \in SUBSET (1 .. n)
    BY <1>3
  <1>. HIDE DEF s
  <1>8. Min(K) = a /\ Max(K) = b
    <2>. HIDE DEF K, a, b, n
    <2>. QED
      BY <1>2, <1>5, <1>6, <1>7, MinMaxIs
  <1>9. trim(s) = Piece(s, a, b)
    BY <1>4, <1>5, <1>8
  <1>10. Piece(s, a, b) = Piece(l, i + a - 1, i + b - 1)
    <2>1. a \in Nat /\ a > 0 /\ b \in Nat /\ b <= j - i + 1 /\ a <= b + 1
      BY ONLY <1>1
    <2>2. Within(l, i, j)
      OBVIOUS
    <2>. HIDE DEF a, b, K, n
    <2>. QED
      BY <2>1, <2>2, PieceOfPiece DEF s
  <1>. QED
    BY <1>2, <1>9, <1>10 DEF s

\* trim of a blank piece is empty.
LEMMA TrimBlank ==
    ASSUME NEW S, NEW l \in Seq(S), NEW i \in Nat, NEW j \in Nat, Within(l, i, j), Blank(l, i, j)
    PROVE  trim(Piece(l, i, j)) = <<>>
  <1>1. i \in Nat /\ i > 0 /\ j \in Nat /\ \A k \in i .. j : l[k] = " "
    BY DEF Within, Blank
  <1>2. /\ DOMAIN Piece(l, i, j) = 1 .. j - i + 1
        /\ \A k \in 1 .. j - i + 1 : Piece(l, i, j)[k] = l[i + k - 1]
    BY PieceFacts
  <1>3. ASSUME NEW k \in 1 .. j - i + 1
        PROVE  Piece(l, i, j)[k] = " "
    <2>1. i \in Nat /\ j \in Nat
      BY <1>1
    <2>2. i + k - 1 \in i .. j
      BY <2>1
    <2>. QED
      BY <1>1, <1>2, <2>2
  <1>. QED
    BY <1>2, <1>3 DEF trim, Piece

\* A line is the piece from its first to its last position.
LEMMA WholeLine ==
    ASSUME NEW S, NEW l \in Seq(S)
    PROVE  Within(l, 1, Len(l)) /\ Piece(l, 1, Len(l)) = l
  BY DEF Within, Piece

\* s is the first blank or opening bracket in x .. y, or the position after.
StopAt(l, x, y, s) ==
    /\ s \in x .. y + 1 /\ \A k \in x .. s - 1 : l[k] \notin {" ", "["}
    /\ s = y + 1 \/ l[s] \in {" ", "["}

\* There is a first stop.
LEMMA StopExists ==
    ASSUME NEW S, NEW l \in Seq(S), NEW x \in Nat, NEW y \in Nat, 0 < x, x <= y
    PROVE  \E s \in Nat : StopAt(l, x, y, s)
  <1>. DEFINE K == {k \in x .. y : l[k] \in {" ", "["}}
              J == K \cup {y + 1}
              s == Min(J)
  <1>1. J \in SUBSET (1 .. y + 1) /\ J # {} /\ y + 1 \in Nat
    <2>1. \A k \in K : k \in x .. y
      OBVIOUS
    <2>. HIDE DEF K
    <2>2. \A k \in K : k \in 1 .. y + 1
      BY ONLY x \in Nat, y \in Nat, 0 < x, <2>1
    <2>. QED
      BY <2>2
  <1>2. s \in J /\ \A k \in J : s <= k
    <2>. HIDE DEF J
    <2>. QED
      BY <1>1, MinMax
  <1>. HIDE DEF s
  <1>3. s = y + 1 \/ (s \in x .. y /\ l[s] \in {" ", "["})
    BY <1>2
  <1>4. s \in x .. y + 1
    <2>1. s = y + 1 \/ s \in x .. y
      BY <1>3
    <2>. QED
      BY ONLY <2>1, x \in Nat, y \in Nat, x <= y
  <1>5. ASSUME NEW k \in x .. s - 1
        PROVE  l[k] \notin {" ", "["}
    <2>1. k \in x .. y /\ ~(s <= k)
      BY ONLY <1>4, x \in Nat, y \in Nat, k \in x .. s - 1
    <2>2. k \notin K
      BY <1>2, <2>1
    <2>. QED
      BY <2>1, <2>2
  <1>6. s \in Nat
    BY ONLY <1>4, x \in Nat, y \in Nat
  <1>. QED
    BY <1>3, <1>4, <1>5, <1>6 DEF StopAt

\* The split of parse_declaration.
Split(t) == Min({k \in DOMAIN t : t[k] \in {" ", "["}} \cup {Len(t) + 1})

\* The split of parse_declaration, in a piece of a line.
LEMMA SplitIs ==
    ASSUME NEW S, NEW l \in Seq(S), NEW x \in Nat, NEW y \in Nat, Within(l, x, y),
           NEW s \in Nat, StopAt(l, x, y, s)
    PROVE  Split(Piece(l, x, y)) = s - x + 1
  <1>. DEFINE t == Piece(l, x, y)
              n == y - x + 1
              K == {k \in DOMAIN t : t[k] \in {" ", "["}}
              J == K \cup {Len(t) + 1}
              a == s - x + 1
  <1>1. x > 0 /\ x <= y + 1 /\ y <= Len(l)
    BY DEF Within
  <1>2. n \in Nat /\ Len(t) = n /\ DOMAIN t = 1 .. n /\ \A k \in 1 .. n : t[k] = l[x + k - 1]
    <2>1. n \in Nat
      BY <1>1
    <2>. QED
      BY <2>1, PieceFacts
  <1>3. s \in x .. y + 1
    BY DEF StopAt
  <1>4. a \in 1 .. n + 1 /\ x + a - 1 = s
    BY ONLY <1>1, <1>3, x \in Nat, y \in Nat, s \in Nat
  <1>. HIDE DEF t
  <1>5. J \in SUBSET (1 .. n + 1) /\ n + 1 \in Nat
    <2>1. \A k \in K : k \in 1 .. n
      BY <1>2
    <2>2. Len(t) + 1 = n + 1 /\ n \in Nat
      BY <1>2
    <2>. HIDE DEF K
    <2>. QED
      BY <2>1, <2>2
  <1>6. a \in J
    <2>1. CASE s = y + 1
      <3>1. a = n + 1
        BY ONLY <2>1, x \in Nat, y \in Nat
      <3>. QED
        BY <1>2, <3>1
    <2>2. CASE s # y + 1
      <3>1. l[s] \in {" ", "["}
        BY <2>2 DEF StopAt
      <3>2. a \in 1 .. n
        BY ONLY <1>3, <2>2, x \in Nat, y \in Nat
      <3>3. t[a] = l[s]
        BY <1>2, <1>4, <3>2
      <3>. QED
        BY <1>2, <3>1, <3>2, <3>3
    <2>. QED
      BY <2>1, <2>2
  <1>7. ASSUME NEW k \in J
        PROVE  a <= k
    <2>. HIDE DEF J, K
    <2>1. CASE k = n + 1
      BY ONLY <1>4, <2>1, x \in Nat, y \in Nat
    <2>2. CASE k # n + 1
      <3>1. k \in 1 .. n /\ t[k] \in {" ", "["}
        BY <1>2, <2>2 DEF J, K
      <3>2. l[x + k - 1] \in {" ", "["}
        BY <1>2, <3>1
      <3>3. x + k - 1 \notin x .. s - 1
        BY <3>2 DEF StopAt
      <3>4. k \in 1 .. n
        BY <3>1
      <3>. QED
        BY ONLY <3>3, <3>4, x \in Nat, y \in Nat, s \in Nat
    <2>. QED
      BY <2>1, <2>2
  <1>8. Min(J) = a
    <2>. HIDE DEF J, a, n
    <2>. QED
      BY <1>5, <1>6, <1>7, MinMaxIs
  <1>. QED
    BY <1>8 DEF t, Split

-----------------------------------------------------------------------------
(* parse_declaration, by the positions it finds. *)

\* A line that is empty but for blanks has no name.
LEMMA ParseBlank ==
    ASSUME NEW l, trim(l) = <<>>
    PROVE  parse_declaration(l) = Invalid
  <1>. DEFINE K == {k \in DOMAIN <<>> : <<>>[k] \in {" ", "["}}
  <1>1. K \cup {Len(<<>>) + 1} = {1}
    OBVIOUS
  <1>2. Min({1}) = 1
    BY DEF Min
  <1>. QED
    BY <1>1, <1>2 DEF parse_declaration

\* The steps of parse_declaration, one by one.
LEMMA ParseSteps ==
    ASSUME NEW l, NEW t, NEW split, NEW trailing, NEW payload,
           trim(l) = t,
           Split(t) = split,
           trim(Piece(t, split, Len(t))) = trailing,
           trim(Piece(trailing, 2, Len(trailing) - 1)) = payload
    PROVE  parse_declaration(l) =
             IF split = 1 THEN Invalid
             ELSE IF trailing = <<>> THEN Declared(Piece(t, 1, split - 1), None)
             ELSE IF trailing[1] # "[" \/ Last(trailing) # "]" \/ payload = <<>> THEN Invalid
             ELSE Declared(Piece(t, 1, split - 1), payload)
  BY DEF parse_declaration, Piece, Split

\* What the name and the rest are, from the ends of a line and its first stop.
LEMMA ParseName ==
    ASSUME NEW S, NEW l \in Seq(S), NEW x \in Nat, NEW y \in Nat, Bounds(l, 1, Len(l), x, y),
           NEW s \in Nat, StopAt(l, x, y, s), NEW trailing, trim(Piece(l, s, y)) = trailing
    PROVE  parse_declaration(l) =
             IF s = x THEN Invalid
             ELSE IF trailing = <<>> THEN Declared(Piece(l, x, s - 1), None)
             ELSE IF trailing[1] # "[" \/ Last(trailing) # "]"
                       \/ trim(Piece(trailing, 2, Len(trailing) - 1)) = <<>> THEN Invalid
             ELSE Declared(Piece(l, x, s - 1), trim(Piece(trailing, 2, Len(trailing) - 1)))
  <1>. DEFINE t == Piece(l, x, y)
              split == s - x + 1
              n == y - x + 1
              payload == trim(Piece(trailing, 2, Len(trailing) - 1))
  <1>1. Within(l, 1, Len(l)) /\ Piece(l, 1, Len(l)) = l
    BY WholeLine
  <1>2. x > 0 /\ x <= y /\ y <= Len(l)
    <2>1. x \in 1 .. Len(l) /\ y \in x .. Len(l)
      BY DEF Bounds
    <2>. QED
      BY <2>1
  <1>3. trim(l) = t
    <2>1. 1 \in Nat /\ Len(l) \in Nat
      OBVIOUS
    <2>2. trim(Piece(l, 1, Len(l))) = t
      BY <1>1, <2>1, TrimIs
    <2>. QED
      BY <1>1, <2>2
  <1>4. Within(l, x, y)
    BY <1>2 DEF Within
  <1>5. t \in Seq(S) /\ Len(t) = n
    BY <1>4, PieceFacts
  <1>6. Split(t) = split
    BY <1>4, SplitIs
  <1>7. s \in x .. y + 1
    BY DEF StopAt
  <1>8. /\ split \in Nat /\ split > 0 /\ split <= n + 1 /\ n \in Nat /\ n <= y - x + 1
        /\ x + split - 1 = s /\ x + n - 1 = y
    BY ONLY <1>2, <1>7, x \in Nat, y \in Nat, s \in Nat
  <1>9. Piece(t, split, Len(t)) = Piece(l, s, y)
    <2>. HIDE DEF split, n
    <2>1. Piece(t, split, n) = Piece(l, x + split - 1, x + n - 1)
      BY <1>4, <1>8, PieceOfPiece
    <2>. QED
      BY <1>5, <1>8, <2>1
  <1>10. ASSUME s # x
         PROVE  Piece(t, 1, split - 1) = Piece(l, x, s - 1)
    <2>. DEFINE m == split - 1
    <2>1. m \in Nat /\ m <= y - x + 1 /\ 1 <= m + 1 /\ x + m - 1 = s - 1 /\ x + 1 - 1 = x
      BY ONLY <1>2, <1>7, x \in Nat, y \in Nat, s \in Nat
    <2>. HIDE DEF split, n, m
    <2>2. Piece(t, 1, m) = Piece(l, x + 1 - 1, x + m - 1)
      BY <1>4, <2>1, PieceOfPiece
    <2>. QED
      BY <2>1, <2>2 DEF m
  <1>11. split = 1 <=> s = x
    BY ONLY x \in Nat, s \in Nat
  <1>12. parse_declaration(l) =
             IF split = 1 THEN Invalid
             ELSE IF trailing = <<>> THEN Declared(Piece(t, 1, split - 1), None)
             ELSE IF trailing[1] # "[" \/ Last(trailing) # "]" \/ payload = <<>> THEN Invalid
             ELSE Declared(Piece(t, 1, split - 1), payload)
    <2>1. trim(Piece(t, split, Len(t))) = trailing
      BY <1>9
    <2>2. trim(Piece(trailing, 2, Len(trailing) - 1)) = payload
      OBVIOUS
    <2>. HIDE DEF t, split, payload
    <2>. QED
      BY <1>3, <1>6, <2>1, <2>2, ParseSteps
  <1>. HIDE DEF t, split, n, payload
  <1>13. CASE s = x
    BY <1>11, <1>12, <1>13
  <1>14. CASE s # x
    <2>1. Piece(t, 1, split - 1) = Piece(l, x, s - 1)
      BY <1>10, <1>14
    <2>. QED
      BY <1>11, <1>12, <1>14, <2>1 DEF payload
  <1>. QED
    BY <1>13, <1>14

\* What follows a name, when it is not blank.
LEMMA ParseRest ==
    ASSUME NEW S, NEW l \in Seq(S), NEW x \in Nat, NEW y \in Nat, Bounds(l, 1, Len(l), x, y),
           NEW s \in Nat, StopAt(l, x, y, s), s # x, NEW o \in Nat, Bounds(l, s, y, o, y)
    PROVE  /\ l[o] = "[" /\ l[y] = "]" =>
                /\ o < y
                /\ parse_declaration(l) = IF trim(Piece(l, o + 1, y - 1)) = <<>> THEN Invalid
                                          ELSE Declared(Piece(l, x, s - 1), trim(Piece(l, o + 1, y - 1)))
           /\ ~(l[o] = "[" /\ l[y] = "]") => parse_declaration(l) = Invalid
  <1>. DEFINE trailing == Piece(l, o, y)
              n == y - o + 1
              payload == trim(Piece(trailing, 2, Len(trailing) - 1))
  <1>1. x > 0 /\ x <= s /\ s <= o /\ o <= y /\ y <= Len(l) /\ s <= y + 1
    <2>1. x \in 1 .. Len(l) /\ y \in x .. Len(l)
      BY DEF Bounds
    <2>2. s \in x .. y + 1
      BY DEF StopAt
    <2>3. o \in s .. y
      BY DEF Bounds
    <2>. QED
      BY ONLY <2>1, <2>2, <2>3, x \in Nat, y \in Nat, s \in Nat, o \in Nat, Len(l) \in Nat
  <1>2. Within(l, s, y) /\ Within(l, o, y)
    BY <1>1 DEF Within
  <1>3. trim(Piece(l, s, y)) = trailing
    BY <1>2, TrimIs
  <1>4. /\ n \in Nat /\ n > 0 /\ Len(trailing) = n
        /\ \A k \in 1 .. n : trailing[k] = l[o + k - 1]
    <2>1. n \in Nat /\ n > 0
      BY <1>1
    <2>. QED
      BY <1>2, <2>1, PieceFacts
  <1>5. trailing # <<>> /\ trailing[1] = l[o] /\ Last(trailing) = l[y]
    <2>1. 1 \in 1 .. n /\ n \in 1 .. n /\ o + 1 - 1 = o /\ o + n - 1 = y
      BY ONLY <1>1, x \in Nat, y \in Nat, s \in Nat, o \in Nat
    <2>2. Last(trailing) = trailing[n]
      BY <1>4 DEF Last
    <2>3. trailing[1] = l[o] /\ trailing[n] = l[y]
      BY <1>4, <2>1
    <2>4. trailing # <<>>
      BY <1>4
    <2>. QED
      BY <2>2, <2>3, <2>4
  <1>. HIDE DEF trailing
  <1>6. parse_declaration(l) =
             IF l[o] # "[" \/ l[y] # "]" \/ payload = <<>> THEN Invalid
             ELSE Declared(Piece(l, x, s - 1), payload)
    <2>1. parse_declaration(l) =
             IF s = x THEN Invalid
             ELSE IF trailing = <<>> THEN Declared(Piece(l, x, s - 1), None)
             ELSE IF trailing[1] # "[" \/ Last(trailing) # "]"
                       \/ trim(Piece(trailing, 2, Len(trailing) - 1)) = <<>> THEN Invalid
             ELSE Declared(Piece(l, x, s - 1), trim(Piece(trailing, 2, Len(trailing) - 1)))
      BY <1>3, ParseName
    <2>. QED
      BY <1>5, <2>1
  <1>7. ASSUME l[o] = "[", l[y] = "]"
        PROVE  o < y /\ payload = trim(Piece(l, o + 1, y - 1))
    <2>1. o # y
      BY <1>7
    <2>2. o < y
      BY ONLY <1>1, <2>1, y \in Nat, o \in Nat
    <2>. DEFINE m == n - 1
    <2>3. m \in Nat /\ m <= y - o + 1 /\ 2 <= m + 1 /\ o + m - 1 = y - 1 /\ o + 2 - 1 = o + 1
      BY ONLY <2>2, y \in Nat, o \in Nat
    <2>4. Len(trailing) - 1 = m
      BY <1>4
    <2>5. Piece(trailing, 2, m) = Piece(l, o + 1, y - 1)
      <3>. HIDE DEF m, n
      <3>1. Piece(Piece(l, o, y), 2, m) = Piece(l, o + 2 - 1, o + m - 1)
        BY <1>2, <2>3, PieceOfPiece
      <3>. QED
        BY <2>3, <3>1 DEF trailing
    <2>. QED
      BY <2>2, <2>4, <2>5
  <1>. HIDE DEF payload
  <1>. QED
    BY <1>6, <1>7

-----------------------------------------------------------------------------
(* The grammar's meaning of a declaration and the parser's. *)

\* A name alone.
LEMMA ParseBare ==
    ASSUME NEW S, NEW l \in Seq(S), NEW a \in DOMAIN l, NEW b \in DOMAIN l,
           Named(l, a, b), Blank(l, b + 1, Len(l))
    PROVE  parse_declaration(l) = Declared(Piece(l, a, b), None)
  <1>1. a \in Nat /\ b \in Nat /\ 0 < a /\ a <= b /\ b <= Len(l)
    <2>1. a <= b
      BY DEF Named
    <2>. QED
      BY <2>1
  <1>2. /\ Blank(l, 1, a - 1) /\ \A k \in a .. b : l[k] \notin {" ", "["}
    BY DEF Named
  <1>. DEFINE s == b + 1
  <1>3. /\ a \in 1 .. Len(l) /\ b \in a .. Len(l) /\ a \in a .. b /\ b \in a .. b
        /\ s \in a .. b + 1 /\ s \in Nat /\ s - 1 = b /\ s # a
    BY ONLY <1>1, Len(l) \in Nat
  <1>4. Bounds(l, 1, Len(l), a, b)
    BY <1>2, <1>3 DEF Bounds
  <1>5. Blank(l, s, b)
    <2>1. s .. b = {}
      BY ONLY <1>1
    <2>. QED
      BY <2>1 DEF Blank
  <1>6. Within(l, s, b)
    BY ONLY <1>1 DEF Within
  <1>7. s = b + 1
    OBVIOUS
  <1>. HIDE DEF s
  <1>8. StopAt(l, a, b, s)
    BY <1>2, <1>3, <1>7 DEF StopAt
  <1>9. trim(Piece(l, s, b)) = <<>>
    BY <1>1, <1>3, <1>5, <1>6, TrimBlank
  <1>10. parse_declaration(l) = IF s = a THEN Invalid
             ELSE IF <<>> = <<>> THEN Declared(Piece(l, a, s - 1), None)
             ELSE IF <<>>[1] # "[" \/ Last(<<>>) # "]"
                       \/ trim(Piece(<<>>, 2, Len(<<>>) - 1)) = <<>> THEN Invalid
             ELSE Declared(Piece(l, a, s - 1), trim(Piece(<<>>, 2, Len(<<>>) - 1)))
    BY <1>1, <1>3, <1>4, <1>8, <1>9, ParseName
  <1>. QED
    BY <1>3, <1>10

\* A name with a payload.
LEMMA ParseEnclosed ==
    ASSUME NEW S, NEW l \in Seq(S), NEW a \in DOMAIN l, NEW b \in DOMAIN l, Named(l, a, b),
           NEW p \in DOMAIN l, NEW q \in DOMAIN l, Enclosed(l, b, p, q)
    PROVE  parse_declaration(l) = Declared(Piece(l, a, b), Piece(l, p, q))
  <1>1. a \in Nat /\ b \in Nat /\ 0 < a /\ a <= b /\ b <= Len(l)
    <2>1. a <= b
      BY DEF Named
    <2>. QED
      BY <2>1
  <1>2. /\ Blank(l, 1, a - 1) /\ \A k \in a .. b : l[k] \notin {" ", "["}
    BY DEF Named
  <1>3. PICK o \in b + 1 .. p - 1, c \in q + 1 .. Len(l) :
          /\ l[o] = "[" /\ l[c] = "]"
          /\ Blank(l, b + 1, o - 1) /\ Blank(l, o + 1, p - 1)
          /\ Blank(l, q + 1, c - 1) /\ Blank(l, c + 1, Len(l))
    BY DEF Enclosed
  <1>4. p \in Nat /\ q \in Nat /\ p <= q /\ l[p] # " " /\ l[q] # " "
    <2>1. p \in Nat /\ q \in Nat
      OBVIOUS
    <2>2. p <= q /\ l[p] # " " /\ l[q] # " "
      BY DEF Enclosed
    <2>. QED
      BY <2>1, <2>2
  <1>. DEFINE s == b + 1
              i == o + 1
              j == c - 1
  <1>5. /\ o \in Nat /\ c \in Nat /\ s \in Nat /\ i \in Nat /\ j \in Nat
        /\ b < o /\ o < p /\ p <= q /\ q < c /\ c <= Len(l)
    <2>1. p <= q
      BY <1>4
    <2>. QED
      BY ONLY <1>1, <2>1, p \in DOMAIN l, q \in DOMAIN l, l \in Seq(S),
         o \in b + 1 .. p - 1, c \in q + 1 .. Len(l)
  <1>6. /\ a \in 1 .. Len(l) /\ c \in a .. Len(l) /\ s \in a .. c + 1 /\ s # a /\ s - 1 = b /\ a \in a .. b
        /\ o \in s .. c /\ c \in o .. c
        /\ p \in i .. j /\ q \in p .. j /\ i > 0 /\ i <= j + 1 /\ j <= Len(l)
        /\ s = o \/ s \in s .. o - 1
    BY ONLY <1>1, <1>5, Len(l) \in Nat
  <1>7. /\ Blank(l, s, o - 1) /\ Blank(l, i, p - 1)
        /\ Blank(l, q + 1, j) /\ Blank(l, c + 1, Len(l))
    BY <1>3
  <1>8. Blank(l, c + 1, c)
    <2>1. c + 1 .. c = {}
      BY ONLY <1>5
    <2>. QED
      BY <2>1 DEF Blank
  <1>. HIDE DEF s
  <1>9. l[o] = "[" /\ l[c] = "]"
    BY <1>3
  <1>10. Bounds(l, 1, Len(l), a, c)
    BY <1>2, <1>6, <1>7, <1>9 DEF Bounds
  <1>11. Bounds(l, s, c, o, c)
    BY <1>6, <1>7, <1>8, <1>9 DEF Bounds
  <1>12. StopAt(l, a, c, s)
    <2>1. l[s] \in {" ", "["}
      BY <1>6, <1>7, <1>9 DEF Blank
    <2>. QED
      BY <1>2, <1>6, <2>1 DEF StopAt
  <1>13. /\ o < c
         /\ parse_declaration(l) = IF trim(Piece(l, i, j)) = <<>> THEN Invalid
                                   ELSE Declared(Piece(l, a, s - 1), trim(Piece(l, i, j)))
    <2>1. a \in Nat /\ c \in Nat /\ s \in Nat /\ o \in Nat /\ s # a
      BY <1>1, <1>5, <1>6
    <2>2. o < c /\ parse_declaration(l) = IF trim(Piece(l, o + 1, c - 1)) = <<>> THEN Invalid
                       ELSE Declared(Piece(l, a, s - 1), trim(Piece(l, o + 1, c - 1)))
      BY <2>1, <1>9, <1>10, <1>11, <1>12, ParseRest
    <2>. QED
      BY <2>2
  <1>. HIDE DEF i, j
  <1>14. Bounds(l, i, j, p, q)
    BY <1>4, <1>6, <1>7 DEF Bounds
  <1>15. trim(Piece(l, i, j)) = Piece(l, p, q)
    <2>1. Within(l, i, j)
      BY <1>5, <1>6 DEF Within
    <2>2. p \in Nat /\ q \in Nat /\ i \in Nat /\ j \in Nat
      BY <1>4, <1>5
    <2>. QED
      BY ONLY l \in Seq(S), <1>14, <2>1, <2>2, TrimIs
  <1>16. Piece(l, p, q) # <<>>
    <2>1. Within(l, p, q) /\ q - p + 1 > 0
      BY ONLY <1>5, p \in Nat, q \in Nat, Len(l) \in Nat DEF Within
    <2>2. Len(Piece(l, p, q)) = q - p + 1
      BY <1>4, <2>1, PieceFacts
    <2>. QED
      BY <2>1, <2>2
  <1>. QED
    BY <1>6, <1>13, <1>15, <1>16

\* Nothing else is a declaration.
LEMMA ParseOk ==
    ASSUME NEW S, NEW l \in Seq(S), parse_declaration(l).ok
    PROVE  \E a, b \in DOMAIN l :
             /\ Named(l, a, b)
             /\ Blank(l, b + 1, Len(l)) \/ \E p, q \in DOMAIN l : Enclosed(l, b, p, q)
  <1>1. parse_declaration(l) # Invalid
    BY DEF Invalid
  <1>2. Within(l, 1, Len(l)) /\ Piece(l, 1, Len(l)) = l /\ 1 \in Nat /\ Len(l) \in Nat
    BY WholeLine
  <1>3. ~Blank(l, 1, Len(l))
    <2>. SUFFICES ASSUME Blank(l, 1, Len(l))
                  PROVE  FALSE
      OBVIOUS
    <2>1. trim(Piece(l, 1, Len(l))) = <<>>
      BY <1>2, TrimBlank
    <2>. QED
      BY <1>1, <1>2, <2>1, ParseBlank
  <1>4. PICK x \in Nat, y \in Nat : Bounds(l, 1, Len(l), x, y)
    BY <1>2, <1>3, EndsExist
  <1>5. 0 < x /\ x <= y /\ y <= Len(l)
    <2>1. x \in 1 .. Len(l) /\ y \in x .. Len(l)
      BY <1>4 DEF Bounds
    <2>. QED
      BY <2>1
  <1>6. Blank(l, 1, x - 1) /\ Blank(l, y + 1, Len(l)) /\ l[y] # " "
    BY <1>4 DEF Bounds
  <1>7. PICK s \in Nat : StopAt(l, x, y, s)
    BY <1>5, StopExists
  <1>8. x <= s /\ s <= y + 1
    <2>1. s \in x .. y + 1
      BY <1>7 DEF StopAt
    <2>. QED
      BY <2>1
  <1>9. \A k \in x .. s - 1 : l[k] \notin {" ", "["}
    BY <1>7 DEF StopAt
  <1>10. Within(l, s, y)
    BY ONLY <1>5, <1>8, Len(l) \in Nat DEF Within
  <1>11. s # x
    BY <1>1, <1>4, <1>7, ParseName
  <1>12. x \in DOMAIN l /\ s - 1 \in DOMAIN l /\ x <= s - 1 /\ s - 1 + 1 = s
    BY <1>5, <1>8, <1>11
  <1>13. Named(l, x, s - 1)
    BY <1>6, <1>9, <1>12 DEF Named
  <1>14. CASE Blank(l, s, y)
    <2>1. Blank(l, s, Len(l))
      <3>. SUFFICES ASSUME NEW k \in s .. Len(l)
                    PROVE  l[k] = " "
        BY DEF Blank
      <3>1. k \in s .. y \/ k \in y + 1 .. Len(l)
        BY ONLY <1>8, <1>2, k \in s .. Len(l)
      <3>. QED
        BY <1>6, <1>14, <3>1 DEF Blank
    <2>. QED
      BY <1>12, <1>13, <2>1
  <1>15. CASE ~Blank(l, s, y)
    <2>1. PICK o \in Nat, c \in Nat : Bounds(l, s, y, o, c)
      BY <1>10, <1>15, EndsExist
    <2>2. o \in s .. y /\ c \in o .. y /\ Blank(l, s, o - 1) /\ Blank(l, c + 1, y)
      BY <2>1 DEF Bounds
    <2>3. c = y
      <3>. SUFFICES ASSUME c # y
                    PROVE  FALSE
        OBVIOUS
      <3>1. y \in c + 1 .. y
        BY ONLY <2>2, <1>5, c # y, y \in Nat, o \in Nat, c \in Nat
      <3>. QED
        BY <1>6, <2>2, <3>1 DEF Blank
    <2>4. Bounds(l, s, y, o, y)
      BY <2>1, <2>3
    <2>5. /\ l[o] = "[" /\ l[y] = "]" /\ o < y
          /\ trim(Piece(l, o + 1, y - 1)) # <<>>
      BY <1>1, <1>4, <1>7, <1>11, <2>4, ParseRest
    <2>. DEFINE i == o + 1
                j == y - 1
    <2>6. o < y
      BY <2>5
    <2>7. i \in Nat /\ j \in Nat /\ i <= j + 1 /\ j <= Len(l)
      BY ONLY <2>6, <1>5, o \in Nat, y \in Nat, Len(l) \in Nat
    <2>8. Within(l, i, j)
      BY ONLY <2>7 DEF Within
    <2>9. trim(Piece(l, i, j)) # <<>>
      BY <2>5
    <2>10. i = o + 1 /\ j = y - 1
      OBVIOUS
    <2>. HIDE DEF i, j
    <2>11. ~Blank(l, i, j)
      BY <2>7, <2>8, <2>9, TrimBlank
    <2>12. PICK p \in Nat, q \in Nat : Bounds(l, i, j, p, q)
      BY <2>7, <2>8, <2>11, EndsExist
    <2>13. p \in i .. j /\ q \in p .. j
      BY <2>12 DEF Bounds
    <2>14. l[p] # " " /\ l[q] # " " /\ Blank(l, i, p - 1) /\ Blank(l, q + 1, j)
      BY <2>12 DEF Bounds
    <2>15. o \in s .. y
      BY <2>2
    <2>16. /\ p \in DOMAIN l /\ q \in DOMAIN l /\ s - 1 < p /\ p <= q
           /\ o \in s .. p - 1 /\ y \in q + 1 .. Len(l)
      BY <1>5, <2>7, <2>10, <2>13, <2>15
    <2>17. Enclosed(l, s - 1, p, q)
      BY <1>6, <1>12, <2>2, <2>5, <2>10, <2>14, <2>16 DEF Enclosed
    <2>. QED
      BY <1>12, <1>13, <2>16, <2>17
  <1>. QED
    BY <1>14, <1>15

\* A line declares exactly what parse_declaration returns.
LEMMA DeclarationsAre ==
    ASSUME NEW S, NEW l \in Seq(S)
    PROVE  LET d == parse_declaration(l)
           IN Declarations(l) = IF d.ok THEN {[name |-> d.name, payload |-> d.payload]} ELSE {}
  <1>. DEFINE d == parse_declaration(l)
              D == DOMAIN l
              names == {x \in D \X D : Named(l, x[1], x[2])}
              bare == {x \in names : Blank(l, x[2] + 1, Len(l))}
              encl(x) == {z \in D \X D : Enclosed(l, x[2], z[1], z[2])}
              R1 == {[name |-> Piece(l, x[1], x[2]), payload |-> None] : x \in bare}
              R2 == UNION {{[name |-> Piece(l, x[1], x[2]), payload |-> Piece(l, z[1], z[2])] :
                              z \in encl(x)} : x \in names}
              it == [name |-> d.name, payload |-> d.payload]
  <1>1. Declarations(l) = R1 \cup R2
    BY DEF Declarations, Piece
  <1>2. ASSUME NEW x \in names, Blank(l, x[2] + 1, Len(l))
        PROVE  d = Declared(Piece(l, x[1], x[2]), None)
    BY <1>2, ParseBare
  <1>3. ASSUME NEW x \in names, NEW z \in encl(x)
        PROVE  d = Declared(Piece(l, x[1], x[2]), Piece(l, z[1], z[2]))
    BY <1>3, ParseEnclosed
  <1>4. ASSUME d.ok
        PROVE  (\E x \in names : x \in bare) \/ \E x \in names : \E z \in encl(x) : TRUE
    <2>1. PICK a \in D, b \in D :
             /\ Named(l, a, b)
             /\ Blank(l, b + 1, Len(l)) \/ \E p, q \in D : Enclosed(l, b, p, q)
      BY <1>4, ParseOk
    <2>2. <<a, b>> \in names
      BY <2>1
    <2>3. CASE Blank(l, b + 1, Len(l))
      BY <2>2, <2>3
    <2>4. CASE \E p, q \in D : Enclosed(l, b, p, q)
      <3>1. PICK p \in D, q \in D : Enclosed(l, b, p, q)
        BY <2>4
      <3>2. <<p, q>> \in encl(<<a, b>>)
        BY <3>1
      <3>. QED
        BY <2>2, <3>2
    <2>. QED
      BY <2>1, <2>3, <2>4
  <1>. HIDE DEF d, names, encl
  <1>5. ASSUME NEW r \in R1 \cup R2
        PROVE  d.ok /\ r = it
    <2>1. CASE r \in R1
      <3>1. PICK x \in names : /\ Blank(l, x[2] + 1, Len(l))
                               /\ r = [name |-> Piece(l, x[1], x[2]), payload |-> None]
        BY <2>1
      <3>. QED
        BY <1>2, <3>1 DEF Declared
    <2>2. CASE r \in R2
      <3>1. PICK x \in names : \E z \in encl(x) :
                r = [name |-> Piece(l, x[1], x[2]), payload |-> Piece(l, z[1], z[2])]
        BY <2>2
      <3>2. PICK z \in encl(x) :
                r = [name |-> Piece(l, x[1], x[2]), payload |-> Piece(l, z[1], z[2])]
        BY <3>1
      <3>. QED
        BY <1>3, <3>2 DEF Declared
    <2>. QED
      BY <2>1, <2>2
  <1>6. ASSUME d.ok
        PROVE  \E r : r \in R1 \cup R2
    <2>1. CASE \E x \in names : x \in bare
      BY <2>1
    <2>2. CASE \E x \in names : \E z \in encl(x) : TRUE
      <3>1. PICK x \in names : \E z \in encl(x) : TRUE
        BY <2>2
      <3>2. PICK z \in encl(x) : TRUE
        BY <3>1
      <3>. DEFINE r == [name |-> Piece(l, x[1], x[2]), payload |-> Piece(l, z[1], z[2])]
      <3>3. r \in R2
        BY <3>1, <3>2
      <3>. QED
        BY <3>3
    <2>. QED
      BY <1>4, <1>6, <2>1, <2>2
  <1>. HIDE DEF R1, R2, it
  <1>7. R1 \cup R2 = IF d.ok THEN {it} ELSE {}
    BY <1>5, <1>6
  <1>. QED
    BY <1>1, <1>7 DEF d, it

-----------------------------------------------------------------------------
(* The line as the parser reads it, trimmed first, and as the grammar does. *)

\* Blanks around a piece do not change what trim returns.
LEMMA TrimPad ==
    ASSUME NEW S, NEW l \in Seq(S), NEW i \in Nat, NEW j \in Nat, Within(l, i, j),
           NEW x \in Nat, NEW y \in Nat, i <= x, x <= y + 1, y <= j,
           Blank(l, i, x - 1), Blank(l, y + 1, j)
    PROVE  trim(Piece(l, i, j)) = trim(Piece(l, x, y))
  <1>1. i > 0 /\ j <= Len(l)
    BY DEF Within
  <1>2. Within(l, x, y)
    BY ONLY <1>1, i <= x, x <= y + 1, y <= j, i \in Nat, j \in Nat, x \in Nat, y \in Nat, Len(l) \in Nat
       DEF Within
  <1>3. \A k \in i .. j : k \in i .. x - 1 \/ k \in x .. y \/ k \in y + 1 .. j
    OBVIOUS
  <1>4. CASE Blank(l, x, y)
    <2>1. Blank(l, i, j)
      BY <1>3, <1>4 DEF Blank
    <2>2. trim(Piece(l, i, j)) = <<>>
      BY <2>1, TrimBlank
    <2>3. trim(Piece(l, x, y)) = <<>>
      BY <1>2, <1>4, TrimBlank
    <2>. QED
      BY <2>2, <2>3
  <1>5. CASE ~Blank(l, x, y)
    <2>1. PICK a \in Nat, b \in Nat : Bounds(l, x, y, a, b)
      BY <1>2, <1>5, EndsExist
    <2>2. a \in x .. y /\ b \in a .. y
      BY <2>1 DEF Bounds
    <2>3. Blank(l, x, a - 1) /\ Blank(l, b + 1, y) /\ l[a] # " " /\ l[b] # " "
      BY <2>1 DEF Bounds
    <2>4. a \in i .. j /\ b \in a .. j
      BY ONLY <2>2, i <= x, y <= j, i \in Nat, j \in Nat, x \in Nat, y \in Nat
    <2>5. Blank(l, i, a - 1)
      <3>1. \A k \in i .. a - 1 : k \in i .. x - 1 \/ k \in x .. a - 1
        BY ONLY <2>2, i \in Nat, j \in Nat, x \in Nat, y \in Nat
      <3>. QED
        BY <2>3, <3>1 DEF Blank
    <2>6. Blank(l, b + 1, j)
      <3>1. \A k \in b + 1 .. j : k \in b + 1 .. y \/ k \in y + 1 .. j
        BY ONLY <2>2, i \in Nat, j \in Nat, x \in Nat, y \in Nat
      <3>. QED
        BY <2>3, <3>1 DEF Blank
    <2>7. Bounds(l, i, j, a, b)
      BY <2>3, <2>4, <2>5, <2>6 DEF Bounds
    <2>8. trim(Piece(l, i, j)) = Piece(l, a, b)
      BY <2>7, TrimIs
    <2>9. trim(Piece(l, x, y)) = Piece(l, a, b)
      BY <1>2, <2>1, TrimIs
    <2>. QED
      BY <2>8, <2>9
  <1>. QED
    BY <1>4, <1>5

\* parse_declaration trims what it is given, so trimming it first changes nothing.
LEMMA ParseTrim ==
    ASSUME NEW u, NEW v, trim(u) = trim(v)
    PROVE  parse_declaration(u) = parse_declaration(v)
  BY DEF parse_declaration

\* A blank line is one that trim empties; trimming twice is trimming once.
LEMMA TrimLine ==
    ASSUME NEW S, NEW l \in Seq(S)
    PROVE  /\ Blank(l, 1, Len(l)) => trim(l) = <<>>
           /\ \A x, y \in Nat : Bounds(l, 1, Len(l), x, y) =>
                 /\ 0 < x /\ x <= y /\ y <= Len(l) /\ Within(l, x, y)
                 /\ trim(l) = Piece(l, x, y) /\ trim(l) # <<>>
                 /\ trim(trim(l)) = trim(l)
  <1>1. Within(l, 1, Len(l)) /\ Piece(l, 1, Len(l)) = l /\ 1 \in Nat /\ Len(l) \in Nat
    BY WholeLine
  <1>2. ASSUME Blank(l, 1, Len(l))
        PROVE  trim(l) = <<>>
    <2>1. trim(Piece(l, 1, Len(l))) = <<>>
      BY <1>1, <1>2, TrimBlank
    <2>. QED
      BY <1>1, <2>1
  <1>3. ASSUME NEW x \in Nat, NEW y \in Nat, Bounds(l, 1, Len(l), x, y)
        PROVE  /\ 0 < x /\ x <= y /\ y <= Len(l) /\ Within(l, x, y)
               /\ trim(l) = Piece(l, x, y) /\ trim(l) # <<>>
               /\ trim(trim(l)) = trim(l)
    <2>1. x \in 1 .. Len(l) /\ y \in x .. Len(l)
      BY <1>3 DEF Bounds
    <2>2. 0 < x /\ x <= y /\ y <= Len(l)
      BY ONLY <2>1, <1>1, x \in Nat, y \in Nat
    <2>3. Within(l, x, y)
      BY ONLY <2>2, <1>1, x \in Nat, y \in Nat DEF Within
    <2>4. trim(l) = Piece(l, x, y)
      <3>1. trim(Piece(l, 1, Len(l))) = Piece(l, x, y)
        BY <1>1, <1>3, TrimIs
      <3>. QED
        BY <1>1, <3>1
    <2>5. Piece(l, x, y) # <<>>
      <3>1. Len(Piece(l, x, y)) = y - x + 1
        BY <2>3, PieceFacts
      <3>2. y - x + 1 > 0
        BY ONLY <2>2, x \in Nat, y \in Nat
      <3>. QED
        BY <3>1, <3>2
    <2>6. trim(Piece(l, x, y)) = Piece(l, x, y)
      <3>1. x .. x - 1 = {} /\ y + 1 .. y = {} /\ x \in x .. y /\ y \in x .. y
        BY ONLY <2>2, x \in Nat, y \in Nat
      <3>2. l[x] # " " /\ l[y] # " "
        BY <1>3 DEF Bounds
      <3>3. Bounds(l, x, y, x, y)
        BY <3>1, <3>2 DEF Bounds, Blank
      <3>. QED
        BY <2>3, <3>3, TrimIs
    <2>. QED
      BY <2>2, <2>3, <2>4, <2>5, <2>6
  <1>. QED
    BY <1>2, <1>3

\* The sides of an arrow, as the parser cuts them out of a trimmed line.
LeftOf(line) == SubSeq(line, 1, FirstArrow(line) - 1)
RightOf(line) == SubSeq(line, FirstArrow(line) + 1, Len(line))

\* FirstArrow is the least position of an arrow, or zero.
LEMMA FirstArrowIs ==
    ASSUME NEW l
    PROVE  LET A == {i \in 1 .. Len(l) : l[i] = "->"}
           IN FirstArrow(l) = IF A = {} THEN 0 ELSE Min(A)
  BY DEF FirstArrow, SelectInSeq

\* A trimmed line has the arrows of the line, and its sides trim to the same pieces.
LEMMA ArrowOfLine ==
    ASSUME NEW S, NEW l \in Seq(S), NEW x \in Nat, NEW y \in Nat, Bounds(l, 1, Len(l), x, y)
    PROVE  LET A == {i \in DOMAIN l : l[i] = "->"}
               t == trim(l)
           IN /\ A = {} => FirstArrow(t) = 0
              /\ A # {} => /\ FirstArrow(t) \in Nat /\ FirstArrow(t) > 0
                           /\ trim(LeftOf(t)) = trim(Piece(l, 1, Min(A) - 1))
                           /\ trim(RightOf(t)) = trim(Piece(l, Min(A) + 1, Len(l)))
  <1>. DEFINE A == {i \in DOMAIN l : l[i] = "->"}
              t == trim(l)
              n == y - x + 1
              B == {i \in 1 .. Len(t) : t[i] = "->"}
  <1>1. 0 < x /\ x <= y /\ y <= Len(l) /\ Within(l, x, y) /\ t = Piece(l, x, y)
    BY TrimLine
  <1>2. n \in Nat /\ Len(t) = n /\ \A k \in 1 .. n : t[k] = l[x + k - 1]
    <2>1. n \in Nat
      BY <1>1
    <2>2. /\ Len(Piece(l, x, y)) = y - x + 1
          /\ \A k \in 1 .. y - x + 1 : Piece(l, x, y)[k] = l[x + k - 1]
      BY <1>1, PieceFacts
    <2>. HIDE DEF t
    <2>. QED
      BY <1>1, <2>1, <2>2
  <1>3. Blank(l, 1, x - 1) /\ Blank(l, y + 1, Len(l))
    BY DEF Bounds
  <1>. HIDE DEF t
  <1>4. FirstArrow(t) = IF B = {} THEN 0 ELSE Min(B)
    BY FirstArrowIs
  <1>5. ASSUME NEW i \in A
        PROVE  i \in x .. y /\ i - x + 1 \in B
    <2>1. i \in 1 .. Len(l) /\ l[i] = "->"
      OBVIOUS
    <2>2. i \notin 1 .. x - 1 /\ i \notin y + 1 .. Len(l)
      BY <1>3, <2>1 DEF Blank
    <2>3. i \in 1 .. Len(l)
      BY <2>1
    <2>. DEFINE k == i - x + 1
    <2>. HIDE DEF A, B
    <2>4. i \in x .. y
      BY ONLY <2>2, <2>3, x \in Nat, y \in Nat, Len(l) \in Nat
    <2>5. k \in 1 .. n /\ x + k - 1 = i
      BY ONLY <2>4, x \in Nat, y \in Nat
    <2>6. t[k] = "->"
      BY <1>2, <2>1, <2>5
    <2>7. k \in 1 .. Len(t)
      BY <1>2, <2>5
    <2>. QED
      BY <2>4, <2>6, <2>7 DEF B
  <1>6. ASSUME NEW k \in B
        PROVE  k \in 1 .. n /\ x + k - 1 \in A
    <2>1. k \in 1 .. n /\ t[k] = "->"
      BY <1>2
    <2>2. k \in 1 .. n
      BY <2>1
    <2>. DEFINE i == x + k - 1
    <2>. HIDE DEF A, B
    <2>3. i \in 1 .. Len(l)
      BY ONLY <1>1, <2>2, x \in Nat, y \in Nat, Len(l) \in Nat
    <2>4. l[i] = "->"
      BY <1>2, <2>1
    <2>. QED
      BY <2>2, <2>3, <2>4 DEF A
  <1>7. ASSUME A = {}
        PROVE  FirstArrow(t) = 0
    <2>1. B = {}
      <3>. HIDE DEF B
      <3>. QED
        BY <1>6, <1>7
    <2>. QED
      BY <1>4, <2>1
  <1>8. ASSUME A # {}
        PROVE  /\ FirstArrow(t) \in Nat /\ FirstArrow(t) > 0
               /\ trim(LeftOf(t)) = trim(Piece(l, 1, Min(A) - 1))
               /\ trim(RightOf(t)) = trim(Piece(l, Min(A) + 1, Len(l)))
    <2>. DEFINE m == Min(A)
                f == m - x + 1
    <2>1. A \in SUBSET (1 .. Len(l)) /\ Len(l) \in Nat
      OBVIOUS
    <2>. HIDE DEF A
    <2>2. m \in A /\ \A k \in A : m <= k
      BY <1>8, <2>1, MinMax
    <2>. HIDE DEF m
    <2>3. m \in x .. y /\ f \in B
      BY <1>5, <2>2
    <2>4. f \in 1 .. n
      BY <1>6, <2>3
    <2>. HIDE DEF B
    <2>5. B \in SUBSET (1 .. n)
      BY <1>6
    <2>6. ASSUME NEW k \in B
          PROVE  f <= k
      <3>1. k \in 1 .. n /\ x + k - 1 \in A
        BY <1>6
      <3>2. m <= x + k - 1
        BY <2>2, <3>1
      <3>. QED
        BY ONLY <2>3, <3>1, <3>2, x \in Nat, y \in Nat
    <2>7. Min(B) = f
      <3>. HIDE DEF f, n
      <3>. QED
        BY <1>2, <2>3, <2>5, <2>6, MinMaxIs
    <2>8. FirstArrow(t) = f
      BY <1>4, <2>3, <2>7
    <2>9. f \in Nat /\ f > 0 /\ m \in Nat
      BY ONLY <2>3, <2>4, x \in Nat, y \in Nat
    <2>10. trim(LeftOf(t)) = trim(Piece(l, 1, m - 1))
      <3>. DEFINE b == f - 1
                  c == m - 1
      <3>1. b \in Nat /\ b <= n /\ 1 <= b + 1 /\ x + 1 - 1 = x /\ x + b - 1 = c /\ c \in Nat
        BY ONLY <1>1, <2>3, <2>4, x \in Nat, y \in Nat
      <3>2. /\ 1 <= x /\ x <= c + 1 /\ c <= c
            /\ c <= Len(l) /\ 1 <= c + 1
        BY ONLY <1>1, <2>3, x \in Nat, y \in Nat, Len(l) \in Nat
      <3>3. LeftOf(t) = Piece(t, 1, b)
        BY <2>8 DEF LeftOf, Piece
      <3>. HIDE DEF b, c
      <3>4. Piece(Piece(l, x, y), 1, b) = Piece(l, x + 1 - 1, x + b - 1)
        BY <1>1, <3>1, PieceOfPiece
      <3>5. Within(l, 1, c)
        BY ONLY <3>1, <3>2 DEF Within
      <3>6. Blank(l, c + 1, c)
        <4>1. c + 1 .. c = {}
          BY ONLY <3>1
        <4>. QED
          BY <4>1 DEF Blank
      <3>7. trim(Piece(l, 1, c)) = trim(Piece(l, x, c))
        BY <1>3, <3>1, <3>2, <3>5, <3>6, TrimPad
      <3>. QED
        BY <1>1, <3>1, <3>3, <3>4, <3>7 DEF c
    <2>11. trim(RightOf(t)) = trim(Piece(l, m + 1, Len(l)))
      <3>. DEFINE b == f + 1
                  c == m + 1
      <3>1. b \in Nat /\ b > 0 /\ n <= n /\ b <= n + 1 /\ x + b - 1 = c /\ x + n - 1 = y /\ c \in Nat
        BY ONLY <1>1, <2>3, <2>4, x \in Nat, y \in Nat
      <3>2. /\ c > 0 /\ c <= y + 1 /\ c <= c /\ y <= Len(l) /\ c <= Len(l) + 1
        BY ONLY <1>1, <2>3, x \in Nat, y \in Nat, Len(l) \in Nat
      <3>3. RightOf(t) = Piece(t, b, n)
        BY <1>2, <2>8 DEF RightOf, Piece
      <3>. HIDE DEF b, c
      <3>4. Piece(Piece(l, x, y), b, n) = Piece(l, x + b - 1, x + n - 1)
        <4>1. n <= y - x + 1
          BY <3>1
        <4>. HIDE DEF n
        <4>. QED
          BY <1>1, <1>2, <3>1, <4>1, PieceOfPiece
      <3>5. Within(l, c, Len(l))
        BY ONLY <3>1, <3>2, Len(l) \in Nat DEF Within
      <3>6. Blank(l, c, c - 1)
        <4>1. c .. c - 1 = {}
          BY ONLY <3>1
        <4>. QED
          BY <4>1 DEF Blank
      <3>7. trim(Piece(l, c, Len(l))) = trim(Piece(l, c, y))
        BY <1>3, <2>1, <3>1, <3>2, <3>5, <3>6, TrimPad
      <3>. QED
        BY <1>1, <3>1, <3>3, <3>4, <3>7 DEF c
    <2>. QED
      BY <2>8, <2>9, <2>10, <2>11 DEF m
  <1>. QED
    BY <1>7, <1>8 DEF t

\* What the parser asks of a line it does not skip.
Accepted(t) == IF FirstArrow(t) > 0
               THEN parse_identifier(LeftOf(t)).ok /\ parse_declaration(RightOf(t)).ok
               ELSE parse_declaration(t).ok

\* What an accepted line says, as the parser reads it.
Meaning(t) ==
    IF FirstArrow(t) > 0
    THEN [ends |-> <<parse_identifier(LeftOf(t)).name, parse_declaration(RightOf(t)).name>>,
          payload |-> parse_declaration(RightOf(t)).payload]
    ELSE [ends |-> <<parse_declaration(t).name>>, payload |-> parse_declaration(t).payload]

\* A line that is not blank has one statement, the one the parser reads, when
\* the parser accepts it, and none otherwise.
LEMMA StatementsAre ==
    ASSUME NEW S, NEW l \in Seq(S), ~Blank(l, 1, Len(l))
    PROVE  /\ trim(l) # <<>>
           /\ FirstArrow(trim(l)) \in Nat
           /\ FirstArrow(trim(l)) > 0 <=> Contains(l, "->")
           /\ Accepted(trim(l)) => Statements(l) = {Meaning(trim(l))}
           /\ ~Accepted(trim(l)) => Statements(l) = {}
  <1>. DEFINE A == {i \in DOMAIN l : l[i] = "->"}
              t == trim(l)
              left == Piece(l, 1, Min(A) - 1)
              right == Piece(l, Min(A) + 1, Len(l))
              d == parse_declaration(l)
              u == parse_declaration(left)
              v == parse_declaration(right)
  <1>1. Within(l, 1, Len(l)) /\ 1 \in Nat /\ Len(l) \in Nat
    BY WholeLine
  <1>2. PICK x \in Nat, y \in Nat : Bounds(l, 1, Len(l), x, y)
    BY <1>1, EndsExist
  <1>3. t # <<>> /\ trim(t) = t
    BY <1>2, TrimLine
  <1>4. /\ A = {} => FirstArrow(t) = 0
        /\ A # {} => /\ FirstArrow(t) \in Nat /\ FirstArrow(t) > 0
                     /\ trim(LeftOf(t)) = trim(left) /\ trim(RightOf(t)) = trim(right)
    BY <1>2, ArrowOfLine
  <1>5. A # {} <=> Contains(l, "->")
    BY DEF Contains
  <1>6. Statements(l) = IF A = {}
                        THEN {[ends |-> <<e.name>>, payload |-> e.payload] : e \in Declarations(l)}
                        ELSE {[ends |-> <<c.name, e.name>>, payload |-> e.payload] :
                                c \in {e \in Declarations(left) : e.payload = None},
                                e \in Declarations(right)}
    BY DEF Statements, Piece
  <1>. HIDE DEF A, t
  <1>7. CASE A = {}
    <2>1. parse_declaration(t) = d
      BY <1>3, ParseTrim DEF t
    <2>2. Declarations(l) = IF d.ok THEN {[name |-> d.name, payload |-> d.payload]} ELSE {}
      BY DeclarationsAre
    <2>. HIDE DEF d
    <2>3. FirstArrow(t) = 0 /\ (Accepted(t) <=> d.ok)
      BY <1>4, <1>7, <2>1 DEF Accepted
    <2>4. CASE d.ok
      <3>1. Statements(l) = {[ends |-> <<d.name>>, payload |-> d.payload]}
        BY <1>6, <1>7, <2>2, <2>4
      <3>2. Meaning(t) = [ends |-> <<d.name>>, payload |-> d.payload]
        BY <2>1, <2>3 DEF Meaning
      <3>. QED
        BY <1>3, <1>5, <1>7, <2>3, <2>4, <3>1, <3>2 DEF t
    <2>5. CASE ~d.ok
      <3>1. Statements(l) = {}
        BY <1>6, <1>7, <2>2, <2>5
      <3>. QED
        BY <1>3, <1>5, <1>7, <2>3, <2>5, <3>1 DEF t
    <2>. QED
      BY <2>4, <2>5
  <1>8. CASE A # {}
    <2>1. A \in SUBSET (1 .. Len(l))
      BY DEF A
    <2>2. Min(A) \in 1 .. Len(l)
      BY <1>1, <1>8, <2>1, MinMax
    <2>3. left \in Seq(S) /\ right \in Seq(S)
      <3>. DEFINE b == Min(A) - 1
                  c == Min(A) + 1
      <3>1. b \in Nat /\ c \in Nat /\ Within(l, 1, b) /\ Within(l, c, Len(l))
        BY <2>2 DEF Within
      <3>. HIDE DEF b, c
      <3>2. Piece(l, 1, b) \in Seq(S) /\ Piece(l, c, Len(l)) \in Seq(S)
        BY <3>1, PieceFacts
      <3>. QED
        BY <3>2 DEF b, c
    <2>. HIDE DEF left, right
    <2>4. parse_declaration(LeftOf(t)) = u /\ parse_declaration(RightOf(t)) = v
      BY <1>4, <1>8, ParseTrim
    <2>5. /\ Declarations(left) = IF u.ok THEN {[name |-> u.name, payload |-> u.payload]} ELSE {}
          /\ Declarations(right) = IF v.ok THEN {[name |-> v.name, payload |-> v.payload]} ELSE {}
      BY <2>3, DeclarationsAre
    <2>. DEFINE C == {e \in Declarations(left) : e.payload = None}
    <2>. HIDE DEF u, v
    <2>6. Accepted(t) <=> u.ok /\ u.payload = None /\ v.ok
      BY <1>4, <1>8, <2>4 DEF Accepted, parse_identifier, Invalid
    <2>7. C = IF u.ok /\ u.payload = None THEN {[name |-> u.name, payload |-> u.payload]} ELSE {}
      BY <2>5
    <2>8. Statements(l) = {[ends |-> <<c.name, e.name>>, payload |-> e.payload] :
                              c \in C, e \in Declarations(right)}
      BY <1>6, <1>8
    <2>. HIDE DEF C
    <2>9. CASE Accepted(t)
      <3>1. Statements(l) = {[ends |-> <<u.name, v.name>>, payload |-> v.payload]}
        <4>. DEFINE c0 == [name |-> u.name, payload |-> u.payload]
                    e0 == [name |-> v.name, payload |-> v.payload]
        <4>1. C = {c0} /\ Declarations(right) = {e0}
          BY <2>5, <2>6, <2>7, <2>9
        <4>2. c0.name = u.name /\ e0.name = v.name /\ e0.payload = v.payload
          OBVIOUS
        <4>. HIDE DEF c0, e0
        <4>3. Statements(l) = {[ends |-> <<c0.name, e0.name>>, payload |-> e0.payload]}
          BY <2>8, <4>1
        <4>. QED
          BY <4>2, <4>3
      <3>2. Meaning(t) = [ends |-> <<u.name, v.name>>, payload |-> v.payload]
        BY <1>4, <1>8, <2>4, <2>6, <2>9 DEF Meaning, parse_identifier
      <3>. QED
        BY <1>3, <1>4, <1>5, <1>8, <2>9, <3>1, <3>2 DEF t
    <2>10. CASE ~Accepted(t)
      <3>1. Statements(l) = {}
        BY <2>5, <2>6, <2>7, <2>8, <2>10
      <3>. QED
        BY <1>3, <1>4, <1>5, <1>8, <2>10, <3>1 DEF t
    <2>. QED
      BY <2>9, <2>10
  <1>. QED
    BY <1>7, <1>8

-----------------------------------------------------------------------------
(* The parser accepts exactly the texts of the grammar. *)

FineLine(l) == Blank(l, 1, Len(l)) \/ Cardinality(Statements(l)) = 1

\* The lines read so far are fine, an edge line in progress has both its sides,
\* and a line reported has no meaning.
GrammarInv ==
    /\ at \in Nat /\ at > 0 /\ source \in Seq(Seq(STRING))
    /\ phase # "owned" => \A i \in DOMAIN source : i < at => FineLine(source[i])
    /\ phase \in {"target", "edge"} => at \in DOMAIN source /\ Line # <<>> /\ Accepted(Line)
    /\ phase = "parsed" => at > Len(source)
    /\ phase \in {"InvalidEdgeDeclaration", "InvalidNodeDeclaration"} =>
         /\ at \in DOMAIN source
         /\ Statements(source[at]) = {} /\ ~Blank(source[at], 1, Len(source[at]))
         /\ phase = "InvalidEdgeDeclaration" <=> Contains(source[at], "->")

\* Before the first line nothing is read.
LEMMA InitGrammar == InitParser => GrammarInv
  <1>. SUFFICES ASSUME InitParser
                PROVE  GrammarInv
    OBVIOUS
  <1>1. source \in Seq(Seq(STRING)) /\ phase = "line" /\ at = 1
    BY SourcesAssumption DEF InitParser
  <1>2. \A i \in DOMAIN source : ~(i < at)
    BY <1>1
  <1>. QED
    BY <1>1, <1>2 DEF GrammarInv

\* The line the parser is at.
LEMMA LineFacts ==
    ASSUME GrammarInv, at \in DOMAIN source
    PROVE  /\ Line = <<>> => Blank(source[at], 1, Len(source[at]))
           /\ Line # <<>> =>
                /\ ~Blank(source[at], 1, Len(source[at]))
                /\ Arrow \in Nat
                /\ Arrow > 0 <=> Contains(source[at], "->")
                /\ Accepted(Line) => /\ Statements(source[at]) = {Meaning(Line)}
                                     /\ Cardinality(Statements(source[at])) = 1
                /\ ~Accepted(Line) => Statements(source[at]) = {}
           /\ Accepted(Line) <=> IF Arrow > 0 THEN From.ok /\ To.ok ELSE parse_declaration(Line).ok
  <1>1. source[at] \in Seq(STRING)
    BY DEF GrammarInv
  <1>2. Line = trim(source[at]) /\ Arrow = FirstArrow(Line)
    BY DEF Line, Arrow
  <1>3. Blank(source[at], 1, Len(source[at])) => Line = <<>>
    BY <1>1, <1>2, TrimLine
  <1>4. ~Blank(source[at], 1, Len(source[at])) =>
           /\ Line # <<>> /\ Arrow \in Nat
           /\ Arrow > 0 <=> Contains(source[at], "->")
           /\ Accepted(Line) => Statements(source[at]) = {Meaning(Line)}
           /\ ~Accepted(Line) => Statements(source[at]) = {}
    BY <1>1, <1>2, StatementsAre
  <1>5. Accepted(Line) <=> IF Arrow > 0 THEN From.ok /\ To.ok ELSE parse_declaration(Line).ok
    BY <1>2 DEF Accepted, From, To, LeftOf, RightOf
  <1>6. Statements(source[at]) = {Meaning(Line)} => Cardinality(Statements(source[at])) = 1
    BY FS_Singleton
  <1>. QED
    BY <1>3, <1>4, <1>5, <1>6

\* Every step of the parser keeps the invariant; the owner's steps do not concern it.
LEMMA NextGrammar == GrammarInv /\ [NextParser]_vars => GrammarInv'
  <1>. SUFFICES ASSUME GrammarInv, [NextParser]_vars
                PROVE  GrammarInv'
    OBVIOUS
  <1>1. /\ at \in Nat /\ at > 0 /\ source \in Seq(Seq(STRING))
        /\ phase # "owned" => \A i \in DOMAIN source : i < at => FineLine(source[i])
        /\ phase \in {"target", "edge"} => at \in DOMAIN source /\ Line # <<>> /\ Accepted(Line)
    BY DEF GrammarInv
  <1>2. AtLine => at \in DOMAIN source /\ phase = "line"
    <2>. SUFFICES ASSUME AtLine
                  PROVE  at \in DOMAIN source /\ phase = "line"
      OBVIOUS
    <2>1. phase = "line" /\ at <= Len(source)
      BY DEF AtLine
    <2>. QED
      BY <1>1, <2>1
  <1>3. ASSUME phase # "owned", FineLine(source[at]), NextLine
        PROVE  GrammarInv'
    <2>1. phase' = "line" /\ at' = at + 1 /\ source' = source
      BY <1>3 DEF NextLine
    <2>2. \A i \in DOMAIN source : i < at + 1 => FineLine(source[i])
      <3>. SUFFICES ASSUME NEW i \in DOMAIN source, i < at + 1
                    PROVE  FineLine(source[i])
        OBVIOUS
      <3>1. i < at \/ i = at
        BY <1>1
      <3>. QED
        BY <1>1, <1>3, <3>1
    <2>3. at + 1 \in Nat /\ at + 1 > 0
      BY <1>1
    <2>. QED
      BY <1>1, <2>1, <2>2, <2>3 DEF GrammarInv
  <1>4. CASE SkipBlank
    <2>1. phase # "owned" /\ FineLine(source[at])
      BY <1>2, <1>4, LineFacts DEF SkipBlank, FineLine, AtLine
    <2>. QED
      BY <1>3, <1>4, <2>1 DEF SkipBlank
  <1>5. CASE Reject
    <2>1. at \in DOMAIN source /\ phase = "line" /\ Line # <<>> /\ ~Accepted(Line)
          /\ source' = source /\ at' = at
          /\ phase' = IF Arrow > 0 THEN "InvalidEdgeDeclaration" ELSE "InvalidNodeDeclaration"
      BY <1>2, <1>5, LineFacts DEF Reject
    <2>2. /\ ~Blank(source[at], 1, Len(source[at])) /\ Statements(source[at]) = {}
          /\ phase' = "InvalidEdgeDeclaration" <=> Contains(source[at], "->")
          /\ phase' \notin {"owned", "target", "edge", "parsed"}
      BY <2>1, LineFacts
    <2>. QED
      BY <1>1, <2>1, <2>2 DEF GrammarInv
  <1>6. CASE NodeLine
    <2>1. at \in DOMAIN source /\ phase = "line" /\ Line # <<>> /\ Accepted(Line)
      BY <1>2, <1>6, LineFacts DEF NodeLine
    <2>2. FineLine(source[at])
      BY <2>1, LineFacts DEF FineLine
    <2>. QED
      BY <1>3, <1>6, <2>1, <2>2 DEF NodeLine
  <1>7. CASE EdgeLine
    <2>1. /\ at \in DOMAIN source /\ phase = "line" /\ Arrow > 0 /\ From.ok /\ To.ok
          /\ phase' = "target" /\ source' = source /\ at' = at
      BY <1>2, <1>7 DEF EdgeLine
    <2>2. Accepted(Line)
      BY <2>1, LineFacts
    <2>3. Line # <<>>
      <3>. SUFFICES ASSUME Line = <<>>
                    PROVE  FALSE
        OBVIOUS
      <3>1. FirstArrow(<<>>) = 0
        <4>1. {i \in 1 .. Len(<<>>) : <<>>[i] = "->"} = {}
          OBVIOUS
        <4>. QED
          BY <4>1, FirstArrowIs
      <3>. QED
        BY <2>1, <3>1 DEF Arrow
    <2>4. Line' = Line
      BY <2>1 DEF Line
    <2>. QED
      BY <1>1, <2>1, <2>2, <2>3, <2>4 DEF GrammarInv
  <1>8. CASE EdgeTarget
    <2>1. phase = "target" /\ phase' = "edge" /\ source' = source /\ at' = at
      BY <1>8 DEF EdgeTarget
    <2>2. Line' = Line
      BY <2>1 DEF Line
    <2>. QED
      BY <1>1, <2>1, <2>2 DEF GrammarInv
  <1>9. CASE AddEdge
    <2>1. phase = "edge" /\ NextLine
      BY <1>9 DEF AddEdge
    <2>2. FineLine(source[at])
      BY <1>1, <2>1, LineFacts DEF FineLine
    <2>. QED
      BY <1>3, <2>1, <2>2
  <1>10. CASE Finish
    <2>1. phase = "line" /\ at > Len(source) /\ phase' = "parsed" /\ source' = source /\ at' = at
      BY <1>10 DEF Finish
    <2>. QED
      BY <1>1, <2>1 DEF GrammarInv
  <1>11. CASE Take
    <2>1. phase' = "owned" /\ source' = <<>> /\ at' = 1
      BY <1>11 DEF Take
    <2>. QED
      BY <2>1 DEF GrammarInv
  <1>12. CASE Edit
    <2>1. phase = "owned" /\ phase' = "owned" /\ source' = source /\ at' = at
      BY <1>12 DEF Edit, parser
    <2>. QED
      BY <1>1, <2>1 DEF GrammarInv
  <1>13. CASE UNCHANGED vars
    <2>1. phase' = phase /\ source' = source /\ at' = at
      BY <1>13 DEF vars, parser
    <2>2. Line' = Line
      BY <2>1 DEF Line
    <2>. QED
      BY <2>1, <2>2 DEF GrammarInv
  <1>. QED
    BY <1>4, <1>5, <1>6, <1>7, <1>8, <1>9, <1>10, <1>11, <1>12, <1>13 DEF NextParser

\* Whatever the text: the parser accepts it exactly when each line is blank or
\* has one meaning in the grammar, and otherwise it stops at the first line that
\* has none and reports the right kind of error.
THEOREM GrammarExactAlways == SpecParser => []GrammarExact
  <1>1. ASSUME GrammarInv
        PROVE  GrammarExact
    <2>1. /\ at \in Nat /\ at > 0 /\ source \in Seq(Seq(STRING))
          /\ phase # "owned" => \A i \in DOMAIN source : i < at => FineLine(source[i])
      BY <1>1 DEF GrammarInv
    <2>2. ASSUME phase = "parsed"
          PROVE  \A i \in DOMAIN source : FineLine(source[i])
      <3>1. \A i \in DOMAIN source : i < at
        BY <1>1, <2>1, <2>2 DEF GrammarInv
      <3>. QED
        BY <2>1, <2>2, <3>1
    <2>3. ASSUME phase \in {"InvalidEdgeDeclaration", "InvalidNodeDeclaration"}
          PROVE  /\ \A i \in 1 .. at - 1 : FineLine(source[i])
                 /\ Statements(source[at]) = {} /\ ~Blank(source[at], 1, Len(source[at]))
                 /\ phase = "InvalidEdgeDeclaration" <=> Contains(source[at], "->")
      <3>1. at \in DOMAIN source /\ phase # "owned"
        BY <1>1, <2>3 DEF GrammarInv
      <3>2. \A i \in 1 .. at - 1 : i \in DOMAIN source /\ i < at
        BY <2>1, <3>1
      <3>3. \A i \in 1 .. at - 1 : FineLine(source[i])
        BY <2>1, <3>1, <3>2
      <3>. QED
        BY <1>1, <2>3, <3>3 DEF GrammarInv
    <2>. QED
      BY <2>2, <2>3 DEF GrammarExact, FineLine
  <1>. QED
    BY <1>1, InitGrammar, NextGrammar, PTL DEF SpecParser

-----------------------------------------------------------------------------
(* What a text says, in the words of SourceMeaning but line by line: the   *)
(* names mentioned before a position, the payloads given before a line,    *)
(* the edges stated before a line.  The mention of the end c of line i is  *)
(* at position 2 * i + c.                                                  *)

StatedOf(src) == {i \in DOMAIN src : Statements(src[i]) # {}}
SaidOf(src) == [i \in StatedOf(src) |-> CHOOSE s \in Statements(src[i]) : TRUE]
EndsAt(src, i) == SaidOf(src)[i].ends

\* The end c of line i is stated and is n.
Mentions(src, i, c, n) ==
    i \in StatedOf(src) /\ c \in {1, 2} /\ c \in DOMAIN EndsAt(src, i) /\ EndsAt(src, i)[c] = n

NamesOf(src) == UNION {ToSet(EndsAt(src, i)) : i \in StatedOf(src)}
PlacesOf(src, n) == {2 * x[1] + x[2] : x \in {y \in StatedOf(src) \X {1, 2} : Mentions(src, y[1], y[2], n)}}
FirstOf(src, n) == Min(PlacesOf(src, n))
Known(src, w) == {n \in NamesOf(src) : FirstOf(src, n) < w}
IdOf(src, n) == Cardinality(Known(src, FirstOf(src, n)))

GivenOf(src, n, a) == {i \in StatedOf(src) : i < a /\ EndsAt(src, i) = <<n>> /\ SaidOf(src)[i].payload # None}
DataOf(src, n, a) == IF GivenOf(src, n, a) = {} THEN n ELSE SaidOf(src)[Max(GivenOf(src, n, a))].payload

JoinsOf(src, a) == {i \in StatedOf(src) : i < a /\ Len(EndsAt(src, i)) = 2}
EdgeOf(src, j) == Cardinality(JoinsOf(src, j))
TextOf(src, j) == IF SaidOf(src)[j].payload = None THEN trim(src[j]) ELSE SaidOf(src)[j].payload

\* A blank line says nothing.
LEMMA BlankSays ==
    ASSUME NEW S, NEW l \in Seq(S), Blank(l, 1, Len(l))
    PROVE  Statements(l) = {}
  <1>1. {i \in DOMAIN l : l[i] = "->"} = {}
    <2>1. \A i \in DOMAIN l : i \in 1 .. Len(l)
      OBVIOUS
    <2>2. \A i \in DOMAIN l : l[i] = " "
      BY <2>1 DEF Blank
    <2>. QED
      BY <2>2
  <1>2. Declarations(l) = {}
    <2>1. trim(l) = <<>>
      BY TrimLine
    <2>2. ~parse_declaration(l).ok
      BY <2>1, ParseBlank DEF Invalid
    <2>. QED
      BY <2>2, DeclarationsAre
  <1>. QED
    BY <1>1, <1>2 DEF Statements

\* A statement is about one node or about two.
LEMMA EndsAre ==
    ASSUME NEW src, NEW i \in StatedOf(src)
    PROVE  LET e == EndsAt(src, i)
           IN /\ Len(e) \in {1, 2} /\ DOMAIN e = 1 .. Len(e)
              /\ Len(e) = 1 => e = <<e[1]>>
              /\ Len(e) = 2 => e = <<e[1], e[2]>>
              /\ \A n : e = <<n>> => Len(e) = 1 /\ e[1] = n
  <1>. DEFINE s == SaidOf(src)[i]
  <1>1. s \in Statements(src[i])
    BY DEF SaidOf, StatedOf
  <1>2. \/ \E d : s = [ends |-> <<d.name>>, payload |-> d.payload]
        \/ \E c, d : s = [ends |-> <<c.name, d.name>>, payload |-> d.payload]
    <2>. DEFINE l == src[i]
                A == {k \in DOMAIN l : l[k] = "->"}
                C == {e \in Declarations(SubSeq(l, 1, Min(A) - 1)) : e.payload = None}
                D == Declarations(SubSeq(l, Min(A) + 1, Len(l)))
    <2>1. s \in IF A = {}
               THEN {[ends |-> <<d.name>>, payload |-> d.payload] : d \in Declarations(l)}
               ELSE {[ends |-> <<c.name, d.name>>, payload |-> d.payload] : c \in C, d \in D}
      BY <1>1 DEF Statements
    <2>. HIDE DEF A, C, D, s
    <2>2. CASE A = {}
      BY <2>1, <2>2
    <2>3. CASE A # {}
      <3>1. s \in {[ends |-> <<c.name, d.name>>, payload |-> d.payload] : c \in C, d \in D}
        BY <2>1, <2>3
      <3>. QED
        BY <3>1
    <2>. QED
      BY <2>2, <2>3
  <1>. HIDE DEF s
  <1>3. \/ \E x : s.ends = <<x>>
        \/ \E x, y : s.ends = <<x, y>>
    BY <1>2
  <1>4. CASE \E x : s.ends = <<x>>
    <2>1. PICK x : s.ends = <<x>>
      BY <1>4
    <2>. QED
      BY <2>1 DEF EndsAt, s
  <1>5. CASE \E x, y : s.ends = <<x, y>>
    <2>1. PICK x, y : s.ends = <<x, y>>
      BY <1>5
    <2>2. \A n : <<x, y>> # <<n>>
      <3>1. Len(<<x, y>>) = 2 /\ \A n : Len(<<n>>) = 1
        OBVIOUS
      <3>. QED
        BY <3>1
    <2>. QED
      BY <2>1, <2>2 DEF EndsAt, s
  <1>. QED
    BY <1>3, <1>4, <1>5

\* The names are what is mentioned, and the first mention is one and the least.
LEMMA FirstFacts ==
    ASSUME NEW T, NEW src \in Seq(T)
    PROVE  /\ \A n : n \in NamesOf(src) <=> \E i, c : Mentions(src, i, c, n)
           /\ \A i, c, n : Mentions(src, i, c, n) =>
                i \in 1 .. Len(src) /\ c \in {1, 2} /\ FirstOf(src, n) <= 2 * i + c
           /\ \A n \in NamesOf(src) : \E i, c :
                Mentions(src, i, c, n) /\ FirstOf(src, n) = 2 * i + c
  <1>1. \A i \in StatedOf(src) : i \in 1 .. Len(src)
    BY DEF StatedOf
  <1>2. \A n : n \in NamesOf(src) <=> \E i, c : Mentions(src, i, c, n)
    <2>1. ASSUME NEW n \in NamesOf(src)
          PROVE  \E i, c : Mentions(src, i, c, n)
      <3>1. PICK i \in StatedOf(src) : n \in ToSet(EndsAt(src, i))
        BY DEF NamesOf
      <3>2. PICK c \in DOMAIN EndsAt(src, i) : EndsAt(src, i)[c] = n
        BY <3>1 DEF ToSet
      <3>3. c \in {1, 2}
        BY <3>2, EndsAre
      <3>. QED
        BY <3>2, <3>3 DEF Mentions
    <2>2. ASSUME NEW n, NEW i, NEW c, Mentions(src, i, c, n)
          PROVE  n \in NamesOf(src)
      BY <2>2 DEF Mentions, NamesOf, ToSet
    <2>. QED
      BY <2>1, <2>2
  <1>3. \A n, k : k \in PlacesOf(src, n) <=> \E i, c : Mentions(src, i, c, n) /\ k = 2 * i + c
    <2>. TAKE n, k
    <2>1. ASSUME k \in PlacesOf(src, n)
          PROVE  \E i, c : Mentions(src, i, c, n) /\ k = 2 * i + c
      BY <2>1 DEF PlacesOf
    <2>2. ASSUME NEW i, NEW c, Mentions(src, i, c, n), k = 2 * i + c
          PROVE  k \in PlacesOf(src, n)
      <3>. DEFINE Y == {y \in StatedOf(src) \X {1, 2} : Mentions(src, y[1], y[2], n)}
                  x == <<i, c>>
      <3>1. x \in Y /\ k = 2 * x[1] + x[2]
        BY <2>2 DEF Mentions
      <3>. HIDE DEF Y, x
      <3>2. k \in {2 * z[1] + z[2] : z \in Y}
        BY <3>1
      <3>. QED
        BY <3>2 DEF PlacesOf, Y
    <2>. QED
      BY <2>1, <2>2
  <1>4. \A n : PlacesOf(src, n) \in SUBSET (1 .. 2 * Len(src) + 2)
    <2>. SUFFICES ASSUME NEW n, NEW k \in PlacesOf(src, n)
                  PROVE  k \in 1 .. 2 * Len(src) + 2
      OBVIOUS
    <2>1. PICK i, c : Mentions(src, i, c, n) /\ k = 2 * i + c
      BY <1>3
    <2>2. i \in 1 .. Len(src) /\ c \in {1, 2} /\ Len(src) \in Nat
      BY <1>1, <2>1 DEF Mentions
    <2>. QED
      BY <2>1, <2>2
  <1>5. ASSUME NEW n, NEW i, NEW c, Mentions(src, i, c, n)
        PROVE  /\ i \in 1 .. Len(src) /\ c \in {1, 2}
               /\ FirstOf(src, n) \in PlacesOf(src, n) /\ FirstOf(src, n) <= 2 * i + c
    <2>1. 2 * i + c \in PlacesOf(src, n) /\ 2 * Len(src) + 2 \in Nat
      BY <1>3, <1>5
    <2>2. i \in 1 .. Len(src) /\ c \in {1, 2}
      BY <1>1, <1>5 DEF Mentions
    <2>3. Min(PlacesOf(src, n)) \in PlacesOf(src, n) /\ Min(PlacesOf(src, n)) <= 2 * i + c
      BY <1>4, <2>1, MinMax
    <2>. QED
      BY <2>2, <2>3 DEF FirstOf
  <1>. QED
    BY <1>2, <1>3, <1>5

\* Position w is the end c of line i.
Place(w, i, c) == c \in {1, 2} /\ w = 2 * i + c

\* Known grows by the name mentioned at a position, and a name that is new there
\* is numbered by the names before it.
LEMMA KnownStep ==
    ASSUME NEW T, NEW src \in Seq(T), NEW i \in Nat, NEW c, NEW w, Place(w, i, c)
    PROVE  /\ \A n : Mentions(src, i, c, n) =>
                /\ Known(src, w + 1) = Known(src, w) \cup {n}
                /\ n \notin Known(src, w) => IdOf(src, n) = Cardinality(Known(src, w))
           /\ (\A n : ~Mentions(src, i, c, n)) => Known(src, w + 1) = Known(src, w)
  <1>1. w \in Nat /\ c \in {1, 2} /\ w = 2 * i + c
    BY DEF Place
  <1>2. \A n \in NamesOf(src) :
          /\ FirstOf(src, n) \in Nat
          /\ FirstOf(src, n) = w => Mentions(src, i, c, n)
    <2>. TAKE n \in NamesOf(src)
    <2>1. PICK j, d : Mentions(src, j, d, n) /\ FirstOf(src, n) = 2 * j + d
      BY FirstFacts
    <2>2. j \in Nat /\ d \in {1, 2}
      BY <2>1, FirstFacts
    <2>3. w = 2 * j + d => i = j /\ c = d
      BY <1>1, <2>2
    <2>. QED
      BY <2>1, <2>2, <2>3
  <1>3. \A m, n : Mentions(src, i, c, m) /\ Mentions(src, i, c, n) => m = n
    BY DEF Mentions
  <1>4. \A n : Mentions(src, i, c, n) => n \in NamesOf(src) /\ FirstOf(src, n) <= w
    BY <1>1, FirstFacts
  <1>5. ASSUME NEW n, Mentions(src, i, c, n)
        PROVE  /\ Known(src, w + 1) = Known(src, w) \cup {n}
               /\ n \notin Known(src, w) => IdOf(src, n) = Cardinality(Known(src, w))
    <2>1. n \in NamesOf(src) /\ FirstOf(src, n) <= w /\ FirstOf(src, n) \in Nat
      BY <1>2, <1>4, <1>5
    <2>2. ASSUME NEW m \in NamesOf(src)
          PROVE  FirstOf(src, m) < w + 1 <=> FirstOf(src, m) < w \/ m = n
      <3>1. FirstOf(src, m) \in Nat /\ (FirstOf(src, m) = w => m = n)
        BY <1>2, <1>3, <1>5
      <3>. QED
        BY <1>1, <2>1, <3>1
    <2>3. Known(src, w + 1) = Known(src, w) \cup {n}
      BY <2>1, <2>2 DEF Known
    <2>4. n \notin Known(src, w) => FirstOf(src, n) = w
      BY <1>1, <2>1 DEF Known
    <2>. QED
      BY <2>3, <2>4 DEF IdOf
  <1>6. ASSUME \A n : ~Mentions(src, i, c, n)
        PROVE  Known(src, w + 1) = Known(src, w)
    <2>1. \A n \in NamesOf(src) : FirstOf(src, n) < w + 1 <=> FirstOf(src, n) < w
      BY <1>1, <1>2, <1>6
    <2>. QED
      BY <2>1 DEF Known
  <1>. QED
    BY <1>5, <1>6

\* The payload of a name after a line: what the line gives it, or what it had.
LEMMA DataStep ==
    ASSUME NEW T, NEW src \in Seq(T), NEW a \in Nat, NEW n
    PROVE  /\ a \in StatedOf(src) /\ EndsAt(src, a) = <<n>> /\ SaidOf(src)[a].payload # None =>
                DataOf(src, n, a + 1) = SaidOf(src)[a].payload
           /\ ~(a \in StatedOf(src) /\ EndsAt(src, a) = <<n>> /\ SaidOf(src)[a].payload # None) =>
                DataOf(src, n, a + 1) = DataOf(src, n, a)
           /\ \A c \in {1, 2} : n \notin Known(src, 2 * a + c) => DataOf(src, n, a) = n
  <1>1. \A i \in StatedOf(src) : i \in 1 .. Len(src) /\ i \in Nat /\ (i < a + 1 <=> i < a \/ i = a)
    BY DEF StatedOf
  <1>2. ASSUME a \in StatedOf(src), EndsAt(src, a) = <<n>>, SaidOf(src)[a].payload # None
        PROVE  DataOf(src, n, a + 1) = SaidOf(src)[a].payload
    <2>. DEFINE K == GivenOf(src, n, a + 1)
    <2>1. a \in K
      BY <1>1, <1>2 DEF GivenOf
    <2>2. \A k \in K : k \in StatedOf(src) /\ k < a + 1
      BY DEF GivenOf
    <2>3. K \in SUBSET (1 .. Len(src)) /\ \A k \in K : k <= a
      BY <1>1, <2>2
    <2>. HIDE DEF K
    <2>4. Max(K) = a
      BY <2>1, <2>3, MinMaxIs, Len(src) \in Nat
    <2>. QED
      BY <2>1, <2>4 DEF DataOf, K
  <1>3. ASSUME ~(a \in StatedOf(src) /\ EndsAt(src, a) = <<n>> /\ SaidOf(src)[a].payload # None)
        PROVE  DataOf(src, n, a + 1) = DataOf(src, n, a)
    <2>1. GivenOf(src, n, a + 1) = GivenOf(src, n, a)
      BY <1>1, <1>3 DEF GivenOf
    <2>. QED
      BY <2>1 DEF DataOf
  <1>4. ASSUME NEW c \in {1, 2}, n \notin Known(src, 2 * a + c)
        PROVE  DataOf(src, n, a) = n
    <2>1. ASSUME NEW i \in GivenOf(src, n, a)
          PROVE  FALSE
      <3>1. i \in StatedOf(src) /\ i < a /\ EndsAt(src, i) = <<n>> /\ i \in Nat
        BY <1>1 DEF GivenOf
      <3>2. Mentions(src, i, 1, n)
        BY <3>1, EndsAre DEF Mentions
      <3>3. n \in NamesOf(src) /\ FirstOf(src, n) <= 2 * i + 1
        BY <3>2, FirstFacts
      <3>4. FirstOf(src, n) \in Nat
        <4>1. PICK j, d : Mentions(src, j, d, n) /\ FirstOf(src, n) = 2 * j + d
          BY <3>3, FirstFacts
        <4>2. j \in Nat /\ d \in {1, 2}
          BY <4>1, FirstFacts
        <4>. QED
          BY <4>1, <4>2
      <3>5. FirstOf(src, n) < 2 * a + c
        BY <3>1, <3>3, <3>4
      <3>. QED
        BY <1>4, <3>3, <3>5 DEF Known
    <2>. QED
      BY <2>1 DEF DataOf
  <1>. QED
    BY <1>2, <1>3, <1>4

-----------------------------------------------------------------------------
(* The graph says what the text said so far. *)

\* The names mentioned before position w are the keys of node_ids, numbered by
\* first mention, and each node carries what the lines before a give its name.
NodesSay(src, w, a, ids, data, next) ==
    /\ IsFiniteSet(Known(src, w)) /\ next = Cardinality(Known(src, w))
    /\ DOMAIN ids = Known(src, w)
    /\ \A n \in Known(src, w) :
          ids[n] = IdOf(src, n) /\ ids[n] \in Nat /\ ids[n] < next
    /\ \A m, n \in Known(src, w) : ids[m] = ids[n] => m = n
    /\ DOMAIN data = {ids[n] : n \in Known(src, w)}
    /\ \A n \in Known(src, w) : data[ids[n]] = DataOf(src, n, a)

\* The edge lines before a are the edges, numbered in order.
EdgesSay(src, a, es, data, next) ==
    /\ IsFiniteSet(JoinsOf(src, a)) /\ next = Cardinality(JoinsOf(src, a))
    /\ DOMAIN es = {EdgeOf(src, j) : j \in JoinsOf(src, a)} /\ DOMAIN data = DOMAIN es
    /\ \A j \in JoinsOf(src, a) :
          /\ EdgeOf(src, j) \in Nat /\ EdgeOf(src, j) < next
          /\ es[EdgeOf(src, j)] = [from |-> IdOf(src, EndsAt(src, j)[1]),
                                   to |-> IdOf(src, EndsAt(src, j)[2])]
          /\ data[EdgeOf(src, j)] = TextOf(src, j)

\* What ensure_node makes of its three maps.
Ensured(name, explicit, ids, data, next, ids2, data2, next2) ==
    IF Has(ids, name)
    THEN /\ data2 = IF explicit = None THEN data ELSE [data EXCEPT ![ids[name]] = explicit]
         /\ ids2 = ids /\ next2 = next
    ELSE /\ data2 = With(data, next, IF explicit = None THEN name ELSE explicit)
         /\ ids2 = With(ids, name, next) /\ next2 = next + 1

\* The step of the parser does just that, and leaves the edges alone.
LEMMA EnsuredIs ==
    ASSUME NEW name, NEW explicit, ensure_node(name, explicit)
    PROVE  /\ Ensured(name, explicit, node_ids, node_data, next_node_id,
                      node_ids', node_data', next_node_id')
           /\ UNCHANGED <<edges, edge_data, next_edge_id>>
  BY DEF ensure_node, make_node, Ensured

\* ensure_node at the mention of its name: the nodes say one mention more.
LEMMA EnsureSays ==
    ASSUME NEW T, NEW src \in Seq(T), NEW i \in Nat, NEW c, NEW w, Place(w, i, c),
           NEW name, NEW explicit,
           NEW a, NEW b, NEW ids, NEW data, NEW next, NEW ids2, NEW data2, NEW next2,
           NodesSay(src, w, a, ids, data, next),
           Ensured(name, explicit, ids, data, next, ids2, data2, next2),
           Mentions(src, i, c, name),
           \A n : n # name => DataOf(src, n, b) = DataOf(src, n, a),
           DataOf(src, name, b) = IF explicit = None THEN DataOf(src, name, a) ELSE explicit,
           name \notin Known(src, w) => DataOf(src, name, a) = name
    PROVE  NodesSay(src, w + 1, b, ids2, data2, next2)
  <1>. DEFINE K == Known(src, w)
              L == Known(src, w + 1)
  <1>1. L = K \cup {name} /\ (name \notin K => IdOf(src, name) = Cardinality(K))
    <2>1. \A n : Mentions(src, i, c, n) =>
            L = K \cup {n} /\ (n \notin K => IdOf(src, n) = Cardinality(K))
      BY KnownStep
    <2>. QED
      BY <2>1
  <1>2. /\ IsFiniteSet(K) /\ next = Cardinality(K) /\ DOMAIN ids = K
        /\ \A n \in K : ids[n] = IdOf(src, n) /\ ids[n] \in Nat /\ ids[n] < next
        /\ \A m, n \in K : ids[m] = ids[n] => m = n
        /\ DOMAIN data = {ids[n] : n \in K}
        /\ \A n \in K : data[ids[n]] = DataOf(src, n, a)
    BY DEF NodesSay
  <1>3. name \notin K => DataOf(src, name, a) = name
    OBVIOUS
  <1>. HIDE DEF K, L
  <1>4. next \in Nat
    BY <1>2, FS_CardinalityType
  <1>5. SUFFICES
        /\ IsFiniteSet(L) /\ next2 = Cardinality(L) /\ DOMAIN ids2 = L
        /\ \A n \in L : ids2[n] = IdOf(src, n) /\ ids2[n] \in Nat /\ ids2[n] < next2
        /\ \A m, n \in L : ids2[m] = ids2[n] => m = n
        /\ DOMAIN data2 = {ids2[n] : n \in L}
        /\ \A n \in L : data2[ids2[n]] = DataOf(src, n, b)
    BY DEF NodesSay, L
  <1>6. CASE name \in K
    <2>1. /\ L = K /\ ids2 = ids /\ next2 = next
          /\ data2 = IF explicit = None THEN data ELSE [data EXCEPT ![ids[name]] = explicit]
      BY <1>1, <1>2, <1>6 DEF Ensured, Has
    <2>2. DOMAIN data2 = DOMAIN data
      BY <2>1
    <2>3. ASSUME NEW n \in K
          PROVE  data2[ids[n]] = DataOf(src, n, b)
      <3>1. ids[n] \in DOMAIN data
        BY <1>2
      <3>2. CASE n = name
        BY <1>2, <1>6, <2>1, <3>1, <3>2
      <3>3. CASE n # name
        <4>1. ids[n] # ids[name]
          BY <1>2, <1>6, <3>3
        <4>2. data2[ids[n]] = data[ids[n]]
          BY <2>1, <3>1, <4>1
        <4>. QED
          BY <1>2, <3>3, <4>2
      <3>. QED
        BY <3>2, <3>3
    <2>. QED
      BY <1>2, <2>1, <2>2, <2>3
  <1>7. CASE name \notin K
    <2>. DEFINE v == IF explicit = None THEN name ELSE explicit
    <2>1. data2 = With(data, next, v) /\ ids2 = With(ids, name, next) /\ next2 = next + 1
      BY <1>2, <1>7 DEF Ensured, Has
    <2>2. v = DataOf(src, name, b)
      BY <1>3, <1>7
    <2>. HIDE DEF v
    <2>3. IsFiniteSet(L) /\ next2 = Cardinality(L)
      BY <1>1, <1>2, <1>7, <2>1, FS_AddElement
    <2>4. DOMAIN ids2 = L /\ ids2[name] = next /\ \A n \in K : ids2[n] = ids[n] /\ n # name
      BY <1>1, <1>2, <1>7, <2>1 DEF With
    <2>5. \A n \in L : ids2[n] = IdOf(src, n) /\ ids2[n] \in Nat /\ ids2[n] < next2
      <3>1. ids2[name] = IdOf(src, name) /\ ids2[name] \in Nat /\ ids2[name] < next2
        BY <1>1, <1>2, <1>4, <1>7, <2>1, <2>4
      <3>2. ASSUME NEW n \in K
            PROVE  ids2[n] = IdOf(src, n) /\ ids2[n] \in Nat /\ ids2[n] < next2
        BY <1>2, <1>4, <2>1, <2>4
      <3>. QED
        BY <1>1, <3>1, <3>2
    <2>6. \A n \in K : ids[n] # next
      BY <1>2, <1>4
    <2>7. \A m, n \in L : ids2[m] = ids2[n] => m = n
      BY <1>1, <1>2, <2>4, <2>6
    <2>8. /\ DOMAIN data2 = DOMAIN data \cup {next} /\ data2[next] = v
          /\ \A z \in DOMAIN data : z # next => data2[z] = data[z]
      BY <2>1 DEF With
    <2>9. DOMAIN data2 = {ids2[n] : n \in L}
      BY <1>1, <1>2, <2>4, <2>8
    <2>10. \A n \in L : data2[ids2[n]] = DataOf(src, n, b)
      <3>1. ASSUME NEW n \in K
            PROVE  data2[ids2[n]] = DataOf(src, n, b)
        <4>1. ids[n] \in DOMAIN data /\ ids[n] # next /\ n # name
          BY <1>2, <2>4, <2>6
        <4>. QED
          BY <1>2, <2>4, <2>8, <4>1
      <3>. QED
        BY <1>1, <2>2, <2>4, <2>8, <3>1
    <2>. QED
      BY <2>3, <2>4, <2>5, <2>7, <2>9, <2>10
  <1>. QED
    BY <1>6, <1>7

\* A position where nothing is mentioned, or a line that gives no payload, adds nothing.
LEMMA NothingSaid ==
    ASSUME NEW src, NEW w, NEW v, NEW a, NEW b, NEW ids, NEW data, NEW next,
           NodesSay(src, w, a, ids, data, next),
           Known(src, v) = Known(src, w), \A n : DataOf(src, n, b) = DataOf(src, n, a)
    PROVE  NodesSay(src, v, b, ids, data, next)
  BY DEF NodesSay

\* The edge lines up to a line: it is one of them or it is not.
LEMMA JoinsStep ==
    ASSUME NEW T, NEW src \in Seq(T), NEW a \in Nat
    PROVE  /\ a \notin JoinsOf(src, a)
           /\ a \in StatedOf(src) /\ Len(EndsAt(src, a)) = 2 =>
                JoinsOf(src, a + 1) = JoinsOf(src, a) \cup {a}
           /\ ~(a \in StatedOf(src) /\ Len(EndsAt(src, a)) = 2) =>
                JoinsOf(src, a + 1) = JoinsOf(src, a)
  <1>1. \A i \in StatedOf(src) : i \in Nat /\ (i < a + 1 <=> i < a \/ i = a)
    BY DEF StatedOf
  <1>. QED
    BY <1>1 DEF JoinsOf

\* make_edge at an edge line: the edges say one line more.
LEMMA EdgeSays ==
    ASSUME NEW T, NEW src \in Seq(T), NEW a \in Nat, NEW es, NEW data, NEW next,
           EdgesSay(src, a, es, data, next),
           a \in StatedOf(src), Len(EndsAt(src, a)) = 2, NEW r,
           r = [from |-> IdOf(src, EndsAt(src, a)[1]), to |-> IdOf(src, EndsAt(src, a)[2])]
    PROVE  EdgesSay(src, a + 1, With(es, next, r), With(data, next, TextOf(src, a)), next + 1)
  <1>. DEFINE J == JoinsOf(src, a)
              K == JoinsOf(src, a + 1)
              es2 == With(es, next, r)
              data2 == With(data, next, TextOf(src, a))
              Right(j, f) == f[EdgeOf(src, j)] = [from |-> IdOf(src, EndsAt(src, j)[1]),
                                                  to |-> IdOf(src, EndsAt(src, j)[2])]
  <1>1. K = J \cup {a} /\ a \notin J
    BY JoinsStep
  <1>2. /\ IsFiniteSet(J) /\ next = Cardinality(J)
        /\ DOMAIN es = {EdgeOf(src, j) : j \in J} /\ DOMAIN data = DOMAIN es
        /\ \A j \in J : /\ EdgeOf(src, j) \in Nat /\ EdgeOf(src, j) < next
                        /\ Right(j, es) /\ data[EdgeOf(src, j)] = TextOf(src, j)
    BY DEF EdgesSay
  <1>3. EdgeOf(src, a) = next /\ next \in Nat
    BY <1>2, FS_CardinalityType DEF EdgeOf
  <1>4. Right(a, es2)
    BY <1>3 DEF With
  <1>5. /\ DOMAIN es2 = DOMAIN es \cup {next} /\ DOMAIN data2 = DOMAIN data \cup {next}
        /\ data2[next] = TextOf(src, a)
        /\ \A z \in DOMAIN es : z # next => es2[z] = es[z]
        /\ \A z \in DOMAIN data : z # next => data2[z] = data[z]
    BY DEF With
  <1>. HIDE DEF J, K, es2, data2
  <1>6. ASSUME NEW j \in J
        PROVE  Right(j, es2) /\ data2[EdgeOf(src, j)] = TextOf(src, j)
    <2>1. EdgeOf(src, j) \in Nat /\ EdgeOf(src, j) < next
      BY <1>2
    <2>2. EdgeOf(src, j) \in DOMAIN es /\ EdgeOf(src, j) # next
      BY <1>2, <1>3, <2>1
    <2>. QED
      BY <1>2, <1>5, <2>2
  <1>. HIDE DEF Right
  <1>7. IsFiniteSet(K) /\ Cardinality(K) = next + 1
    BY <1>1, <1>2, FS_AddElement
  <1>8. DOMAIN es2 = {EdgeOf(src, j) : j \in K} /\ DOMAIN data2 = DOMAIN es2
    BY <1>1, <1>2, <1>3, <1>5
  <1>9. \A j \in K : EdgeOf(src, j) \in Nat /\ EdgeOf(src, j) < next + 1
    BY <1>1, <1>2, <1>3
  <1>10. \A j \in K : Right(j, es2) /\ data2[EdgeOf(src, j)] = TextOf(src, j)
    BY <1>1, <1>3, <1>4, <1>5, <1>6
  <1>. QED
    BY <1>7, <1>8, <1>9, <1>10 DEF EdgesSay, K, es2, data2, Right

\* The position the parser has reached: the next mention it reads.
Reached == 2 * at + (IF phase = "target" THEN 2 ELSE IF phase = "edge" THEN 3 ELSE 1)

\* Until the graph is taken it says what the text said so far.
MeaningInv ==
    /\ phase # "owned" =>
         /\ NodesSay(source, Reached, at, node_ids, node_data, next_node_id)
         /\ EdgesSay(source, at, edges, edge_data, next_edge_id)
    /\ phase \in {"target", "edge"} => Arrow > 0

\* Before the first line nothing is said.
LEMMA InitMeaning == InitParser => MeaningInv
  <1>. SUFFICES ASSUME InitParser
                PROVE  MeaningInv
    OBVIOUS
  <1>1. /\ source \in Seq(Seq(STRING)) /\ phase = "line" /\ at = 1 /\ node_ids = <<>>
        /\ node_data = <<>> /\ edges = <<>> /\ edge_data = <<>>
        /\ next_node_id = 0 /\ next_edge_id = 0
    BY SourcesAssumption DEF InitParser, Init
  <1>2. Reached = 3
    BY <1>1 DEF Reached
  <1>3. Known(source, 3) = {}
    <2>. SUFFICES ASSUME NEW n \in Known(source, 3)
                  PROVE  FALSE
      OBVIOUS
    <2>1. n \in NamesOf(source) /\ FirstOf(source, n) < 3
      BY DEF Known
    <2>2. PICK i, c : Mentions(source, i, c, n) /\ FirstOf(source, n) = 2 * i + c
      BY <1>1, <2>1, FirstFacts
    <2>3. i \in 1 .. Len(source) /\ c \in {1, 2}
      BY <1>1, <2>2, FirstFacts
    <2>. QED
      BY <2>1, <2>2, <2>3
  <1>4. JoinsOf(source, 1) = {}
    <2>1. \A i \in DOMAIN source : ~(i < 1)
      BY <1>1
    <2>. QED
      BY <2>1 DEF JoinsOf, StatedOf
  <1>5. IsFiniteSet({}) /\ Cardinality({}) = 0
    BY FS_EmptySet
  <1>6. DOMAIN <<>> = {}
    OBVIOUS
  <1>7. NodesSay(source, 3, 1, <<>>, <<>>, 0)
    BY <1>3, <1>5, <1>6 DEF NodesSay
  <1>8. EdgesSay(source, 1, <<>>, <<>>, 0)
    BY <1>4, <1>5, <1>6 DEF EdgesSay
  <1>. QED
    BY <1>1, <1>2, <1>7, <1>8 DEF MeaningInv

\* The statement of the line the parser is at, if it has one.
LEMMA LineSays ==
    ASSUME GrammarInv, at \in DOMAIN source
    PROVE  /\ Line = <<>> => at \notin StatedOf(source)
           /\ Line # <<>> /\ Accepted(Line) =>
                /\ at \in StatedOf(source)
                /\ Arrow > 0 => /\ EndsAt(source, at) = <<From.name, To.name>>
                                /\ SaidOf(source)[at].payload = To.payload
                /\ ~(Arrow > 0) =>
                     LET d == parse_declaration(Line)
                     IN EndsAt(source, at) = <<d.name>> /\ SaidOf(source)[at].payload = d.payload
  <1>1. source[at] \in Seq(STRING)
    BY DEF GrammarInv
  <1>2. ASSUME Line = <<>>
        PROVE  at \notin StatedOf(source)
    BY <1>1, <1>2, LineFacts, BlankSays DEF StatedOf
  <1>3. ASSUME Line # <<>>, Accepted(Line)
        PROVE  at \in StatedOf(source) /\ SaidOf(source)[at] = Meaning(Line)
    <2>1. Statements(source[at]) = {Meaning(Line)}
      BY <1>3, LineFacts
    <2>2. at \in StatedOf(source)
      BY <2>1 DEF StatedOf
    <2>. QED
      BY <2>1, <2>2 DEF SaidOf
  <1>4. Arrow > 0 => Meaning(Line) = [ends |-> <<From.name, To.name>>, payload |-> To.payload]
    BY DEF Meaning, Arrow, From, To, LeftOf, RightOf
  <1>5. ~(Arrow > 0) => Meaning(Line) = [ends |-> <<parse_declaration(Line).name>>,
                                         payload |-> parse_declaration(Line).payload]
    BY DEF Meaning, Arrow
  <1>. QED
    BY <1>2, <1>3, <1>4, <1>5 DEF EndsAt

\* Who a line mentions at its two ends.
LEMMA MentionsAre ==
    ASSUME NEW src, NEW i
    PROVE  /\ i \notin StatedOf(src) => \A c, n : ~Mentions(src, i, c, n)
           /\ \A x : i \in StatedOf(src) /\ EndsAt(src, i) = <<x>> =>
                Mentions(src, i, 1, x) /\ \A n : ~Mentions(src, i, 2, n)
           /\ \A x, y : i \in StatedOf(src) /\ EndsAt(src, i) = <<x, y>> =>
                /\ Mentions(src, i, 1, x) /\ Mentions(src, i, 2, y)
                /\ Len(EndsAt(src, i)) = 2 /\ \A n : EndsAt(src, i) # <<n>>
                /\ EndsAt(src, i)[1] = x /\ EndsAt(src, i)[2] = y
  <1>1. \A x : DOMAIN <<x>> = {1} /\ <<x>>[1] = x
    OBVIOUS
  <1>2. \A x, y : DOMAIN <<x, y>> = {1, 2} /\ <<x, y>>[1] = x /\ <<x, y>>[2] = y /\ Len(<<x, y>>) = 2
    OBVIOUS
  <1>3. \A x, y, n : <<x, y>> # <<n>>
    <2>1. \A n : Len(<<n>>) = 1
      OBVIOUS
    <2>. QED
      BY <1>2, <2>1
  <1>4. ASSUME NEW x, i \in StatedOf(src), EndsAt(src, i) = <<x>>
        PROVE  Mentions(src, i, 1, x) /\ \A n : ~Mentions(src, i, 2, n)
    BY <1>1, <1>4 DEF Mentions
  <1>5. ASSUME NEW x, NEW y, i \in StatedOf(src), EndsAt(src, i) = <<x, y>>
        PROVE  /\ Mentions(src, i, 1, x) /\ Mentions(src, i, 2, y)
               /\ Len(EndsAt(src, i)) = 2 /\ \A n : EndsAt(src, i) # <<n>>
               /\ EndsAt(src, i)[1] = x /\ EndsAt(src, i)[2] = y
    BY <1>2, <1>3, <1>5 DEF Mentions
  <1>6. i \notin StatedOf(src) => \A c, n : ~Mentions(src, i, c, n)
    BY DEF Mentions
  <1>. QED
    BY <1>4, <1>5, <1>6

\* A line without a mention or a payload leaves the nodes as they are said to be.
LEMMA LineEnds ==
    ASSUME NEW T, NEW src \in Seq(T), NEW a \in Nat
    PROVE  /\ (\A n : ~Mentions(src, a, 1, n)) => Known(src, 2 * a + 2) = Known(src, 2 * a + 1)
           /\ (\A n : ~Mentions(src, a, 2, n)) => Known(src, 2 * a + 3) = Known(src, 2 * a + 2)
  <1>1. Place(2 * a + 1, a, 1) /\ (2 * a + 1) + 1 = 2 * a + 2
    BY DEF Place
  <1>2. Place(2 * a + 2, a, 2) /\ (2 * a + 2) + 1 = 2 * a + 3
    BY DEF Place
  <1>3. (\A n : ~Mentions(src, a, 1, n)) => Known(src, (2 * a + 1) + 1) = Known(src, 2 * a + 1)
    BY <1>1, KnownStep
  <1>4. (\A n : ~Mentions(src, a, 2, n)) => Known(src, (2 * a + 2) + 1) = Known(src, 2 * a + 2)
    BY <1>2, KnownStep
  <1>. QED
    BY <1>1, <1>2, <1>3, <1>4

\* A line with an arrow is not empty.
LEMMA EmptyLine == Arrow > 0 => Line # <<>>
  <1>. SUFFICES ASSUME Arrow > 0, Line = <<>>
                PROVE  FALSE
    OBVIOUS
  <1>1. {i \in 1 .. Len(<<>>) : <<>>[i] = "->"} = {}
    OBVIOUS
  <1>2. FirstArrow(<<>>) = 0
    BY <1>1, FirstArrowIs
  <1>. QED
    BY <1>2 DEF Arrow

\* A first mention is a number.
LEMMA FirstNat ==
    ASSUME NEW T, NEW src \in Seq(T), NEW n \in NamesOf(src)
    PROVE  FirstOf(src, n) \in Nat
  <1>1. PICK i, c : Mentions(src, i, c, n) /\ FirstOf(src, n) = 2 * i + c
    BY FirstFacts
  <1>2. i \in 1 .. Len(src) /\ c \in {1, 2}
    BY <1>1, FirstFacts
  <1>. QED
    BY <1>1, <1>2

\* Every step of the parser keeps what the graph says in step with the text.
LEMMA NextMeaning == GrammarInv /\ MeaningInv /\ [NextParser]_vars => MeaningInv'
  <1>. SUFFICES ASSUME GrammarInv, MeaningInv, [NextParser]_vars
                PROVE  MeaningInv'
    OBVIOUS
  <1>1. at \in Nat /\ source \in Seq(Seq(STRING))
    BY DEF GrammarInv
  <1>2. AtLine => at \in DOMAIN source /\ phase = "line"
    <2>. SUFFICES ASSUME AtLine
                  PROVE  at \in DOMAIN source /\ phase = "line"
      OBVIOUS
    <2>1. phase = "line" /\ at <= Len(source) /\ at > 0
      BY DEF AtLine, GrammarInv
    <2>. QED
      BY <1>1, <2>1
  <1>3. phase # "owned" =>
          /\ NodesSay(source, Reached, at, node_ids, node_data, next_node_id)
          /\ EdgesSay(source, at, edges, edge_data, next_edge_id)
    BY DEF MeaningInv
  <1>4. /\ phase \notin {"target", "edge"} => Reached = 2 * at + 1
        /\ phase = "target" => Reached = 2 * at + 2
        /\ phase = "edge" => Reached = 2 * at + 3
    BY DEF Reached
  <1>5. /\ phase' \notin {"target", "edge"} => Reached' = 2 * at' + 1
        /\ phase' = "target" => Reached' = 2 * at' + 2
        /\ phase' = "edge" => Reached' = 2 * at' + 3
    BY DEF Reached
  <1>6. phase \in {"target", "edge"} =>
          at \in DOMAIN source /\ Line # <<>> /\ Accepted(Line) /\ Arrow > 0
    BY DEF GrammarInv, MeaningInv
  <1>7. source' = source /\ at' = at => Arrow' = Arrow
    BY DEF Arrow, Line
  <1>8. Place(2 * at + 1, at, 1) /\ Place(2 * at + 2, at, 2)
    BY DEF Place
  <1>9. (2 * at + 1) + 1 = 2 * at + 2 /\ (2 * at + 2) + 1 = 2 * at + 3 /\ 2 * (at + 1) + 1 = 2 * at + 3
    BY <1>1
  <1>10. ASSUME NEW b, NEW w, source' = source, at' = b, Reached' = w,
                phase' \in {"target", "edge"} => Arrow' > 0,
                NodesSay(source, w, b, node_ids', node_data', next_node_id'),
                EdgesSay(source, b, edges', edge_data', next_edge_id')
         PROVE  MeaningInv'
    BY <1>10 DEF MeaningInv
  <1>11. ASSUME NextLine
         PROVE  source' = source /\ at' = at + 1 /\ Reached' = 2 * at + 3 /\ phase' = "line"
    BY <1>5, <1>9, <1>11 DEF NextLine
  <1>12. ASSUME ~(at \in StatedOf(source) /\ Len(EndsAt(source, at)) = 2),
                EdgesSay(source, at, edges, edge_data, next_edge_id)
         PROVE  EdgesSay(source, at + 1, edges, edge_data, next_edge_id)
    <2>1. JoinsOf(source, at + 1) = JoinsOf(source, at)
      BY <1>1, <1>12, JoinsStep
    <2>. QED
      BY <1>12, <2>1 DEF EdgesSay
  <1>13. CASE SkipBlank
    <2>1. /\ at \in DOMAIN source /\ phase = "line" /\ Line = <<>> /\ NextLine
          /\ UNCHANGED <<graph, node_ids>>
      BY <1>2, <1>13 DEF SkipBlank
    <2>2. at \notin StatedOf(source)
      BY <2>1, LineSays
    <2>3. Known(source, 2 * at + 3) = Known(source, 2 * at + 1)
      BY <1>1, <2>2, LineEnds, MentionsAre
    <2>4. \A n : DataOf(source, n, at + 1) = DataOf(source, n, at)
      BY <1>1, <2>2, DataStep
    <2>5. NodesSay(source, 2 * at + 3, at + 1, node_ids, node_data, next_node_id)
      BY <1>3, <1>4, <2>1, <2>3, <2>4, NothingSaid
    <2>6. EdgesSay(source, at + 1, edges, edge_data, next_edge_id)
      BY <1>3, <1>12, <2>1, <2>2
    <2>. QED
      BY <1>10, <1>11, <2>1, <2>5, <2>6 DEF graph
  <1>14. CASE Reject
    <2>1. /\ phase = "line" /\ phase' \notin {"target", "edge"} /\ source' = source /\ at' = at
          /\ UNCHANGED <<graph, node_ids>>
      BY <1>2, <1>14 DEF Reject
    <2>. QED
      BY <1>3, <1>4, <1>5, <1>10, <2>1 DEF graph
  <1>15. CASE NodeLine
    <2>. DEFINE d == parse_declaration(Line)
    <2>1. /\ at \in DOMAIN source /\ phase = "line" /\ Line # <<>> /\ Arrow = 0 /\ d.ok
          /\ ensure_node(d.name, d.payload) /\ NextLine
      BY <1>2, <1>15 DEF NodeLine
    <2>2. Accepted(Line)
      BY <2>1, LineFacts
    <2>3. /\ at \in StatedOf(source) /\ EndsAt(source, at) = <<d.name>>
          /\ SaidOf(source)[at].payload = d.payload
      BY <2>1, <2>2, LineSays
    <2>. HIDE DEF d
    <2>4. Mentions(source, at, 1, d.name) /\ \A n : ~Mentions(source, at, 2, n)
      BY <2>3, MentionsAre
    <2>5. \A n : n # d.name => EndsAt(source, at) # <<n>>
      BY <2>3
    <2>6. \A n : n # d.name => DataOf(source, n, at + 1) = DataOf(source, n, at)
      BY <1>1, <2>5, DataStep
    <2>7. DataOf(source, d.name, at + 1) =
            IF d.payload = None THEN DataOf(source, d.name, at) ELSE d.payload
      <3>1. CASE d.payload = None
        <4>1. ~(SaidOf(source)[at].payload # None)
          BY <2>3, <3>1
        <4>2. DataOf(source, d.name, at + 1) = DataOf(source, d.name, at)
          BY <1>1, <4>1, DataStep
        <4>. QED
          BY <3>1, <4>2
      <3>2. CASE d.payload # None
        <4>1. DataOf(source, d.name, at + 1) = SaidOf(source)[at].payload
          BY <1>1, <2>3, <3>2, DataStep
        <4>. QED
          BY <2>3, <3>2, <4>1
      <3>. QED
        BY <3>1, <3>2
    <2>8. d.name \notin Known(source, 2 * at + 1) => DataOf(source, d.name, at) = d.name
      BY <1>1, DataStep
    <2>9. /\ Ensured(d.name, d.payload, node_ids, node_data, next_node_id,
                     node_ids', node_data', next_node_id')
          /\ UNCHANGED <<edges, edge_data, next_edge_id>>
      BY <2>1, EnsuredIs
    <2>10. NodesSay(source, (2 * at + 1) + 1, at + 1, node_ids', node_data', next_node_id')
      BY <1>1, <1>3, <1>4, <1>8, <2>1, <2>4, <2>6, <2>7, <2>8, <2>9, EnsureSays
    <2>11. Known(source, 2 * at + 3) = Known(source, 2 * at + 2)
      BY <1>1, <2>4, LineEnds
    <2>12. NodesSay(source, 2 * at + 3, at + 1, node_ids', node_data', next_node_id')
      BY <1>9, <2>10, <2>11, NothingSaid
    <2>13. Len(EndsAt(source, at)) # 2
      BY <2>3
    <2>14. EdgesSay(source, at + 1, edges, edge_data, next_edge_id)
      BY <1>3, <1>12, <2>1, <2>13
    <2>. QED
      BY <1>10, <1>11, <2>1, <2>9, <2>12, <2>14
  <1>16. ASSUME at \in DOMAIN source, Line # <<>>, Accepted(Line), Arrow > 0
         PROVE  /\ at \in StatedOf(source) /\ SaidOf(source)[at].payload = To.payload
                /\ Mentions(source, at, 1, From.name) /\ Mentions(source, at, 2, To.name)
                /\ Len(EndsAt(source, at)) = 2 /\ \A n : EndsAt(source, at) # <<n>>
                /\ EndsAt(source, at)[1] = From.name /\ EndsAt(source, at)[2] = To.name
    <2>1. /\ at \in StatedOf(source) /\ EndsAt(source, at) = <<From.name, To.name>>
          /\ SaidOf(source)[at].payload = To.payload
      BY <1>16, LineSays
    <2>. QED
      BY <2>1, MentionsAre
  <1>17. CASE EdgeLine
    <2>1. /\ at \in DOMAIN source /\ phase = "line" /\ Arrow > 0 /\ From.ok /\ To.ok
          /\ ensure_node(From.name, None)
          /\ phase' = "target" /\ source' = source /\ at' = at
      BY <1>2, <1>17 DEF EdgeLine
    <2>2. Accepted(Line) /\ Line # <<>>
      <3>1. Line # <<>>
        BY <2>1, EmptyLine
      <3>. QED
        BY <2>1, <3>1, LineFacts
    <2>3. Mentions(source, at, 1, From.name)
      BY <1>16, <2>1, <2>2
    <2>4. From.name \notin Known(source, 2 * at + 1) => DataOf(source, From.name, at) = From.name
      BY <1>1, DataStep
    <2>5. /\ Ensured(From.name, None, node_ids, node_data, next_node_id,
                     node_ids', node_data', next_node_id')
          /\ UNCHANGED <<edges, edge_data, next_edge_id>>
      BY <2>1, EnsuredIs
    <2>6. NodesSay(source, (2 * at + 1) + 1, at, node_ids', node_data', next_node_id')
      BY <1>1, <1>3, <1>4, <1>8, <2>1, <2>3, <2>4, <2>5, EnsureSays
    <2>7. Reached' = (2 * at + 1) + 1
      BY <1>5, <1>9, <2>1
    <2>. QED
      BY <1>3, <1>7, <1>10, <2>1, <2>5, <2>6, <2>7
  <1>18. CASE EdgeTarget
    <2>1. /\ phase = "target" /\ phase' = "edge" /\ source' = source /\ at' = at
          /\ ensure_node(To.name, None)
      BY <1>18 DEF EdgeTarget
    <2>2. Mentions(source, at, 2, To.name) /\ Arrow > 0
      BY <1>6, <1>16, <2>1
    <2>3. To.name \notin Known(source, 2 * at + 2) => DataOf(source, To.name, at) = To.name
      BY <1>1, DataStep
    <2>4. /\ Ensured(To.name, None, node_ids, node_data, next_node_id,
                     node_ids', node_data', next_node_id')
          /\ UNCHANGED <<edges, edge_data, next_edge_id>>
      BY <2>1, EnsuredIs
    <2>5. NodesSay(source, (2 * at + 2) + 1, at, node_ids', node_data', next_node_id')
      BY <1>1, <1>3, <1>4, <1>8, <2>1, <2>2, <2>3, <2>4, EnsureSays
    <2>6. Reached' = (2 * at + 2) + 1
      BY <1>5, <1>9, <2>1
    <2>. QED
      BY <1>3, <1>7, <1>10, <2>1, <2>2, <2>4, <2>5, <2>6
  <1>19. CASE AddEdge
    <2>. DEFINE r == [from |-> node_ids[From.name], to |-> node_ids[To.name]]
                text == IF To.payload = None THEN Line ELSE To.payload
    <2>1. /\ phase = "edge" /\ NextLine /\ node_ids' = node_ids
          /\ make_edge(node_ids[From.name], node_ids[To.name], text)
      BY <1>19 DEF AddEdge
    <2>2. /\ at \in StatedOf(source) /\ SaidOf(source)[at].payload = To.payload
          /\ Mentions(source, at, 1, From.name) /\ Mentions(source, at, 2, To.name)
          /\ Len(EndsAt(source, at)) = 2 /\ \A n : EndsAt(source, at) # <<n>>
          /\ EndsAt(source, at)[1] = From.name /\ EndsAt(source, at)[2] = To.name
      BY <1>6, <1>16, <2>1
    <2>3. \A n : DataOf(source, n, at + 1) = DataOf(source, n, at)
      <3>. TAKE n
      <3>1. EndsAt(source, at) # <<n>>
        BY <2>2
      <3>. QED
        BY <1>1, <3>1, DataStep
    <2>4. /\ edges' = With(edges, next_edge_id, r) /\ edge_data' = With(edge_data, next_edge_id, text)
          /\ next_edge_id' = next_edge_id + 1
          /\ UNCHANGED <<node_data, next_node_id>>
      BY <2>1 DEF make_edge
    <2>5. text = TextOf(source, at)
      BY <2>2 DEF TextOf, Line
    <2>6. /\ From.name \in Known(source, 2 * at + 3) /\ To.name \in Known(source, 2 * at + 3)
      <3>1. /\ From.name \in NamesOf(source) /\ FirstOf(source, From.name) <= 2 * at + 1
            /\ To.name \in NamesOf(source) /\ FirstOf(source, To.name) <= 2 * at + 2
        BY <1>1, <2>2, FirstFacts
      <3>2. FirstOf(source, From.name) \in Nat /\ FirstOf(source, To.name) \in Nat
        BY <1>1, <3>1, FirstNat
      <3>. QED
        BY <1>1, <3>1, <3>2 DEF Known
    <2>7. NodesSay(source, 2 * at + 3, at, node_ids, node_data, next_node_id)
      BY <1>3, <1>4, <2>1
    <2>8. r = [from |-> IdOf(source, EndsAt(source, at)[1]), to |-> IdOf(source, EndsAt(source, at)[2])]
      BY <2>2, <2>6, <2>7 DEF NodesSay
    <2>. HIDE DEF r, text
    <2>9. EdgesSay(source, at, edges, edge_data, next_edge_id)
      BY <1>3, <2>1
    <2>10. EdgesSay(source, at + 1, With(edges, next_edge_id, r),
                    With(edge_data, next_edge_id, TextOf(source, at)), next_edge_id + 1)
      BY <1>1, <2>2, <2>8, <2>9, EdgeSays
    <2>11. NodesSay(source, 2 * at + 3, at + 1, node_ids, node_data, next_node_id)
      BY <2>3, <2>7, NothingSaid
    <2>. QED
      BY <1>10, <1>11, <2>1, <2>4, <2>5, <2>10, <2>11
  <1>20. CASE Finish
    <2>1. /\ phase = "line" /\ phase' = "parsed" /\ source' = source /\ at' = at
          /\ UNCHANGED <<graph, node_ids>>
      BY <1>20 DEF Finish
    <2>. QED
      BY <1>3, <1>4, <1>5, <1>10, <2>1 DEF graph
  <1>21. CASE Take
    BY <1>21 DEF Take, MeaningInv
  <1>22. CASE Edit
    BY <1>22 DEF Edit, parser, MeaningInv
  <1>23. CASE UNCHANGED vars
    BY <1>23 DEF vars, graph, parser, MeaningInv, Reached, Arrow, Line
  <1>. QED
    BY <1>13, <1>14, <1>15, <1>17, <1>18, <1>19, <1>20, <1>21, <1>22, <1>23 DEF NextParser

\* At the end of the text nothing is left to say, and MeaningInv is SourceMeaning.
LEMMA MeaningComplete == GrammarInv /\ MeaningInv => SourceMeaning
  <1>. SUFFICES ASSUME GrammarInv, MeaningInv, phase = "parsed"
                PROVE  SourceMeaning
    BY DEF SourceMeaning
  <1>. DEFINE stated == {i \in DOMAIN source : Statements(source[i]) # {}}
              said == [i \in stated |-> CHOOSE s \in Statements(source[i]) : TRUE]
              mentions(n) == {x \in stated \X {1, 2} :
                                x[2] \in DOMAIN said[x[1]].ends /\ said[x[1]].ends[x[2]] = n}
              names == UNION {ToSet(said[i].ends) : i \in stated}
              first == [n \in names |-> Min({2 * x[1] + x[2] : x \in mentions(n)})]
              id == [n \in names |-> Cardinality({m \in names : first[m] < first[n]})]
              given(n) == {i \in stated : said[i].ends = <<n>> /\ said[i].payload # None}
              data == [n \in names |-> IF given(n) = {} THEN n ELSE said[Max(given(n))].payload]
              joins == {i \in stated : Len(said[i].ends) = 2}
              edge == [j \in joins |-> Cardinality({k \in joins : k < j})]
              text == [j \in joins |-> IF said[j].payload = None THEN trim(source[j])
                                        ELSE said[j].payload]
              w == Reached
  <1>1. at \in Nat /\ source \in Seq(Seq(STRING)) /\ Len(source) \in Nat /\ at > Len(source)
    BY DEF GrammarInv
  <1>2. /\ NodesSay(source, w, at, node_ids, node_data, next_node_id)
        /\ EdgesSay(source, at, edges, edge_data, next_edge_id)
    BY DEF MeaningInv
  <1>3. w = 2 * at + 1
    BY DEF Reached
  <1>. HIDE DEF w
  <1>4. stated = StatedOf(source) /\ said = SaidOf(source)
    BY DEF StatedOf, SaidOf
  <1>. HIDE DEF stated, said
  <1>5. \A i \in stated : said[i].ends = EndsAt(source, i)
    BY <1>4 DEF EndsAt
  <1>6. names = NamesOf(source)
    BY <1>4, <1>5 DEF NamesOf
  <1>. HIDE DEF names
  <1>7. \A n \in names : first[n] = FirstOf(source, n)
    <2>. TAKE n \in names
    <2>. DEFINE Y == {y \in StatedOf(source) \X {1, 2} : Mentions(source, y[1], y[2], n)}
    <2>1. \A x \in stated \X {1, 2} :
            Mentions(source, x[1], x[2], n) <=>
              x[2] \in DOMAIN said[x[1]].ends /\ said[x[1]].ends[x[2]] = n
      BY <1>4, <1>5 DEF Mentions
    <2>2. mentions(n) = Y
      BY <1>4, <2>1
    <2>3. first[n] = Min({2 * x[1] + x[2] : x \in mentions(n)})
      OBVIOUS
    <2>4. PlacesOf(source, n) = {2 * x[1] + x[2] : x \in Y}
      BY DEF PlacesOf
    <2>. HIDE DEF mentions, first, Y
    <2>. QED
      BY <2>2, <2>3, <2>4 DEF FirstOf
  <1>8. \A n \in names : id[n] = IdOf(source, n)
    <2>. TAKE n \in names
    <2>1. id[n] = Cardinality({m \in names : first[m] < first[n]})
      OBVIOUS
    <2>. HIDE DEF first, id
    <2>2. {m \in names : first[m] < first[n]} = Known(source, FirstOf(source, n))
      BY <1>6, <1>7 DEF Known
    <2>. QED
      BY <2>1, <2>2 DEF IdOf
  <1>. HIDE DEF first
  <1>9. \A i \in stated : i \in Nat /\ i < at
    BY <1>1, <1>4 DEF StatedOf
  <1>10. Known(source, w) = names
    <2>. SUFFICES ASSUME NEW n \in NamesOf(source)
                  PROVE  FirstOf(source, n) < w
      BY <1>6 DEF Known
    <2>1. PICK i, c : Mentions(source, i, c, n) /\ FirstOf(source, n) = 2 * i + c
      BY <1>1, FirstFacts
    <2>2. i \in 1 .. Len(source) /\ c \in {1, 2}
      BY <1>1, <2>1, FirstFacts
    <2>. QED
      BY <1>1, <1>3, <2>1, <2>2
  <1>11. \A n \in names : data[n] = DataOf(source, n, at)
    <2>. TAKE n \in names
    <2>1. given(n) = GivenOf(source, n, at)
      BY <1>4, <1>5, <1>9 DEF GivenOf
    <2>2. data[n] = IF given(n) = {} THEN n ELSE said[Max(given(n))].payload
      OBVIOUS
    <2>. HIDE DEF given, data
    <2>. QED
      BY <1>4, <2>1, <2>2 DEF DataOf
  <1>. HIDE DEF id, data
  <1>12. joins = JoinsOf(source, at)
    BY <1>4, <1>5, <1>9 DEF JoinsOf
  <1>13. \A j \in joins : edge[j] = EdgeOf(source, j) /\ text[j] = TextOf(source, j)
    <2>. TAKE j \in joins
    <2>1. {k \in joins : k < j} = JoinsOf(source, j)
      BY <1>4, <1>5 DEF JoinsOf
    <2>2. edge[j] = Cardinality({k \in joins : k < j})
      OBVIOUS
    <2>3. text[j] = IF said[j].payload = None THEN trim(source[j]) ELSE said[j].payload
      OBVIOUS
    <2>. QED
      BY <1>4, <2>1, <2>2, <2>3 DEF EdgeOf, TextOf
  <1>14. \A j \in joins : j \in stated
    OBVIOUS
  <1>. HIDE DEF joins, edge, text
  <1>15. /\ DOMAIN node_data = {id[n] : n \in names}
         /\ \A n \in names : id[n] \in DOMAIN node_data /\ node_data[id[n]] = data[n]
    <2>1. \A n \in names : node_ids[n] = id[n]
      BY <1>2, <1>8, <1>10 DEF NodesSay
    <2>2. DOMAIN node_data = {node_ids[n] : n \in names}
      BY <1>2, <1>10 DEF NodesSay
    <2>3. DOMAIN node_data = {id[n] : n \in names}
      BY <2>1, <2>2
    <2>4. \A n \in names : node_data[node_ids[n]] = data[n]
      BY <1>2, <1>10, <1>11 DEF NodesSay
    <2>. QED
      BY <2>1, <2>3, <2>4
  <1>16. ASSUME NEW n \in names
         PROVE  get_node_by_name(data[n]) = {id[m] : m \in {k \in names : data[k] = data[n]}}
    <2>. DEFINE M == {k \in names : data[k] = data[n]}
    <2>1. \A z : z \in get_node_by_name(data[n]) <=> z \in DOMAIN node_data /\ node_data[z] = data[n]
      BY DEF get_node_by_name
    <2>2. \A z : z \in DOMAIN node_data <=> \E m \in names : z = id[m]
      BY <1>15
    <2>3. \A z : z \in get_node_by_name(data[n]) <=> \E m \in M : z = id[m]
      BY <1>15, <2>1, <2>2
    <2>. HIDE DEF M
    <2>4. get_node_by_name(data[n]) = {id[m] : m \in M}
      BY <2>3
    <2>. QED
      BY <2>4 DEF M
  <1>17. /\ DOMAIN edge_data = {edge[j] : j \in joins}
         /\ \A j \in joins : edge[j] \in DOMAIN edge_data /\ edge_data[edge[j]] = text[j]
    <2>1. DOMAIN edge_data = {EdgeOf(source, j) : j \in joins}
      BY <1>2, <1>12 DEF EdgesSay
    <2>2. DOMAIN edge_data = {edge[j] : j \in joins}
      BY <1>13, <2>1
    <2>3. \A j \in joins : edge_data[edge[j]] = text[j]
      BY <1>2, <1>12, <1>13 DEF EdgesSay
    <2>. QED
      BY <2>2, <2>3
  <1>18. ASSUME NEW j \in joins
         PROVE  edges[edge[j]] = [from |-> id[said[j].ends[1]], to |-> id[said[j].ends[2]]]
    <2>1. edges[edge[j]] = [from |-> IdOf(source, EndsAt(source, j)[1]),
                            to |-> IdOf(source, EndsAt(source, j)[2])]
      BY <1>2, <1>12, <1>13 DEF EdgesSay
    <2>2. j \in StatedOf(source) /\ Len(EndsAt(source, j)) = 2 /\ said[j].ends = EndsAt(source, j)
      BY <1>4, <1>5, <1>12, <1>14 DEF JoinsOf
    <2>3. 1 \in DOMAIN EndsAt(source, j) /\ 2 \in DOMAIN EndsAt(source, j)
      <3>1. DOMAIN EndsAt(source, j) = 1 .. Len(EndsAt(source, j))
        BY <2>2, EndsAre
      <3>. QED
        BY <2>2, <3>1
    <2>4. EndsAt(source, j)[1] \in names /\ EndsAt(source, j)[2] \in names
      <3>1. EndsAt(source, j)[1] \in ToSet(EndsAt(source, j)) /\ EndsAt(source, j)[2] \in ToSet(EndsAt(source, j))
        BY <2>3 DEF ToSet
      <3>. QED
        BY <1>6, <2>2, <3>1 DEF NamesOf
    <2>. QED
      BY <1>8, <2>1, <2>2, <2>4
  <1>19. ASSUME NEW j \in joins
         PROVE  get_edge_by_data(text[j]) = {edge[k] : k \in {i \in joins : text[i] = text[j]}}
    <2>. DEFINE M == {i \in joins : text[i] = text[j]}
    <2>1. \A z : z \in get_edge_by_data(text[j]) <=> z \in DOMAIN edge_data /\ edge_data[z] = text[j]
      BY DEF get_edge_by_data
    <2>2. \A z : z \in DOMAIN edge_data <=> \E k \in joins : z = edge[k]
      BY <1>17
    <2>3. \A z : z \in get_edge_by_data(text[j]) <=> \E k \in M : z = edge[k]
      BY <1>17, <2>1, <2>2
    <2>. HIDE DEF M
    <2>4. get_edge_by_data(text[j]) = {edge[k] : k \in M}
      BY <2>3
    <2>. QED
      BY <2>4 DEF M
  <1>20. /\ DOMAIN node_data = {id[n] : n \in names}
         /\ \A n \in names :
               get_node_by_name(data[n]) = {id[m] : m \in {k \in names : data[k] = data[n]}}
         /\ DOMAIN edge_data = {edge[j] : j \in joins}
         /\ \A j \in joins :
               /\ edges[edge[j]] = [from |-> id[said[j].ends[1]], to |-> id[said[j].ends[2]]]
               /\ get_edge_by_data(text[j]) = {edge[k] : k \in {i \in joins : text[i] = text[j]}}
    BY <1>15, <1>16, <1>17, <1>18, <1>19
  <1>. QED
    BY <1>20, Zenon DEF SourceMeaning, stated, said, names, first, id, data, joins, edge, text

\* Whatever the text, if the parser accepts it the graph says what the text
\* says: a node for each name, numbered by first mention and found under the
\* last payload given to it or else its name, and an edge for each edge line, in
\* the order of the lines, between the right nodes and with the right payload.
THEOREM SourceMeaningAlways == SpecParser => []SourceMeaning
  <1>1. InitParser => GrammarInv /\ MeaningInv
    BY InitGrammar, InitMeaning
  <1>2. GrammarInv /\ MeaningInv /\ [NextParser]_vars => (GrammarInv /\ MeaningInv)'
    BY NextGrammar, NextMeaning
  <1>. QED
    BY <1>1, <1>2, MeaningComplete, PTL DEF SpecParser
=============================================================================
