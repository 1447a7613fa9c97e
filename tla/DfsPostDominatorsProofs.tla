----------------------- MODULE DfsPostDominatorsProofs -----------------------
(***************************************************************************)
(* The two smaller walks over a graph.                                     *)
(*                                                                         *)
(* What DfsIter yields on every finite multigraph, in both modes: all that *)
(* is reachable, each node once, depth first.  The invariant says of the   *)
(* stack what the code leaves implicit: that it holds the whole frontier,  *)
(* and that among the entries of a node the top one has the latest parent. *)
(*                                                                         *)
(* And what compute_postdominators returns: post-dominance, on every       *)
(* graph, for every order of the nodes and every exit set.                 *)
(***************************************************************************)
EXTENDS Dfs, PostDominators, VecsProofs, FiniteSetTheorems

Entry == [edge : EdgeIds \cup {None}, node : Nodes]

DfsTypeOK ==
    /\ graph \in [EdgeIds -> [from : Nodes, to : Nodes]]
    /\ mode \in {"directed", "undirected"}
    /\ visited \in SUBSET Nodes
    /\ stack \in Seq(Entry) /\ yielded \in Seq(Entry)

\* The nodes yielded are those visited, each yielded once.
Matching == /\ \A i \in 1 .. Len(yielded) : yielded[i].node \in visited
            /\ \A n \in visited : \E i \in 1 .. Len(yielded) : yielded[i].node = n
            /\ \A i, j \in 1 .. Len(yielded) : yielded[i].node = yielded[j].node => i = j

\* Nothing is visited or waiting that the root does not reach.
Within == /\ visited \subseteq Reachable
          /\ \A p \in 1 .. Len(stack) : stack[p].node \in Reachable

Waiting(n) == \E p \in 1 .. Len(stack) : stack[p].node = n

\* Every neighbour of a visited node is visited or waits on the stack.
Frontier ==
    /\ Root \in visited \/ Waiting(Root)
    /\ \A m \in visited, k \in Nodes : Adjacent(m, k) => k \in visited \/ Waiting(k)

\* The entry at p was pushed by a node yielded before; a later neighbour of its
\* node pushed another entry above it, unless the node is visited by now.
Parented(p) ==
    \E j \in 1 .. Len(yielded) :
        /\ Leads(stack[p].edge, yielded[j].node, stack[p].node)
        /\ \A k \in j + 1 .. Len(yielded) :
              Adjacent(yielded[k].node, stack[p].node) =>
                  \/ stack[p].node \in visited
                  \/ \E q \in p + 1 .. Len(stack) : stack[q].node = stack[p].node

\* Before the first node only the root waits.
LatestOnTop == \/ yielded = <<>> /\ Len(stack) <= 1
               \/ \A p \in 1 .. Len(stack) : Parented(p)

DfsInv == DfsTypeOK /\ Matching /\ Within /\ Frontier /\ LatestOnTop /\ DepthFirst

-----------------------------------------------------------------------------
(* The operators of the model. *)

\* An order of a finite set names every element.
LEMMA OrderNamesAll ==
    ASSUME NEW S, IsFiniteSet(S), NEW order \in SetToSeqs(S)
    PROVE  /\ order \in Seq(S)
           /\ \A e \in S : \E i \in 1 .. Len(order) : order[i] = e
  <1>. DEFINE c == Cardinality(S)
  <1>1. c \in Nat
    BY FS_CardinalityType
  <1>2. /\ order \in [1 .. c -> S]
        /\ \A i, j \in 1 .. c : i # j => order[i] # order[j]
    BY DEF SetToSeqs
  <1>3. order \in Seq(S) /\ Len(order) = c
    BY <1>1, <1>2
  <1>4. ASSUME NEW e \in S, \A i \in 1 .. c : order[i] # e
        PROVE  FALSE
    <2>1. order \in [1 .. c -> S \ {e}]
      BY <1>2, <1>4
    <2>2. IsFiniteSet(S \ {e}) /\ Cardinality(S \ {e}) = c - 1
      BY FS_RemoveElement
    <2>3. IsFiniteSet(1 .. c) /\ Cardinality(1 .. c) = c
      BY <1>1, FS_Interval
    <2>. HIDE DEF c
    <2>4. \E x, y \in 1 .. c : x # y /\ order[x] = order[y]
      BY <1>1, <2>1, <2>2, <2>3, FS_PigeonHole
    <2>. QED
      BY <1>2, <2>4
  <1>. QED
    BY <1>3, <1>4

\* What pop() leaves of the stack, and what it takes.
LEMMA FrontFacts ==
    ASSUME NEW S, NEW s \in Seq(S), s # <<>>
    PROVE  /\ Front(s) \in Seq(S) /\ Len(Front(s)) = Len(s) - 1 /\ Len(s) \in Nat \ {0}
           /\ \A i \in 1 .. Len(s) - 1 : Front(s)[i] = s[i]
           /\ Last(s) = s[Len(s)] /\ Last(s) \in S
  <1>1. Len(s) \in Nat \ {0}
    OBVIOUS
  <1>2. Last(s) = s[Len(s)] /\ Last(s) \in S
    BY <1>1 DEF Last
  <1>. DEFINE n == Len(s) - 1
  <1>3. /\ SubSeq(s, 1, n) \in Seq(S) /\ Len(SubSeq(s, 1, n)) = n
        /\ \A i \in 1 .. n : SubSeq(s, 1, n)[i] = s[i]
    <2>1. n \in Nat /\ n < Len(s)
      BY <1>1
    <2>. HIDE DEF n
    <2>2. SubSeq(s, 1, n) \in Seq(S) /\ Len(SubSeq(s, 1, n)) = n
      BY <2>1
    <2>3. \A i \in 1 .. n : SubSeq(s, 1, n)[i] = s[i]
      BY <2>1
    <2>. QED
      BY <2>2, <2>3
  <1>. QED
    BY <1>1, <1>2, <1>3 DEF Front

\* The edges of a node, in the reading of the mode, lead to its neighbours.
LEMMA ItemsLead ==
    ASSUME DfsTypeOK, NEW n \in Nodes
    PROVE  /\ \A e \in Items(n) : /\ e \in EdgeIds /\ node_id(n, e) \in Nodes
                                  /\ Leads(e, n, node_id(n, e))
           /\ \A e \in EdgeIds, k \in Nodes : Leads(e, n, k) => e \in Items(n) /\ node_id(n, e) = k
  <1>1. \A e \in EdgeIds : /\ graph[e].from \in Nodes /\ graph[e].to \in Nodes
                           /\ graph[e] = [from |-> graph[e].from, to |-> graph[e].to]
    BY DEF DfsTypeOK
  <1>2. mode = "directed" \/ mode = "undirected"
    BY DEF DfsTypeOK
  <1>3. CASE mode = "directed"
    BY <1>1, <1>3 DEF Items, ChildMode, node_id, Leads
  <1>4. CASE mode = "undirected"
    BY <1>1, <1>4 DEF Items, EdgeMode, node_id, Leads
  <1>. QED
    BY <1>2, <1>3, <1>4

\* The reachable set holds the root, is closed under edges, and is the least
\* such set.
LEMMA ReachFacts ==
    /\ Reachable \subseteq Nodes /\ Root \in Reachable
    /\ \A m \in Reachable, k \in Nodes : Adjacent(m, k) => k \in Reachable
    /\ \A S \in SUBSET Nodes :
          Root \in S /\ (\A m \in S, k \in Nodes : Adjacent(m, k) => k \in S) => Reachable \subseteq S
  BY DfsAssumption DEF Reachable

\* Before the first call the stack holds the root alone and nothing is yielded.
LEMMA InitDfs == Init => DfsInv
  <1>. SUFFICES ASSUME Init
                PROVE  DfsInv
    OBVIOUS
  <1>1. /\ graph \in [EdgeIds -> [from : Nodes, to : Nodes]]
        /\ mode \in {"directed", "undirected"}
        /\ visited = {} /\ yielded = <<>>
        /\ stack = <<[edge |-> None, node |-> Root]>>
        /\ Len(stack) = 1 /\ Len(yielded) = 0 /\ stack[1].node = Root
    BY DfsAssumption DEF Init
  <1>2. DfsTypeOK
    BY <1>1, DfsAssumption, FS_EmptySet DEF DfsTypeOK, Entry
  <1>3. Matching /\ DepthFirst /\ LatestOnTop
    BY <1>1, FS_EmptySet DEF Matching, DepthFirst, LatestOnTop
  <1>4. Within /\ Frontier
    BY <1>1, ReachFacts DEF Within, Frontier, Waiting
  <1>. QED
    BY <1>2, <1>3, <1>4 DEF DfsInv

\* A node has finitely many edges, so a visit pushes finitely many entries.
LEMMA FinitelyManyEdges == \A S \in SUBSET EdgeIds : IsFiniteSet(S)
  BY DfsAssumption, FS_Subset

\* A visit of n leaves the d entries below the top, and above them c new ones,
\* at least one for each neighbour of n not visited yet.
Grown(n, d, c) ==
    /\ stack' \in Seq(Entry) /\ Len(stack') = d + c
    /\ \A p \in 1 .. d : stack'[p] = stack[p]
    /\ \A p \in d + 1 .. d + c :
          /\ Leads(stack'[p].edge, n, stack'[p].node)
          /\ stack'[p].edge \in EdgeIds /\ stack'[p].node \in Nodes
    /\ \A k \in Nodes : Adjacent(n, k) /\ k \notin visited \cup {n} =>
          \E p \in d + 1 .. d + c : stack'[p].node = k

\* Visit as the rest of the proof uses it: the entry popped, the entries pushed.
LEMMA VisitShape ==
    ASSUME DfsTypeOK, NEW n \in Nodes, Visit(n),
           NEW d, d = Len(stack) - 1
    PROVE  /\ d \in Nat /\ d + 1 = Len(stack) /\ stack[d + 1].node = n /\ stack[d + 1] \in Entry
           /\ \E c \in Nat : Grown(n, d, c)
  <1>1. stack \in Seq(Entry) /\ stack # <<>> /\ n = Last(stack).node
    BY DEF DfsTypeOK, Visit
  <1>2. /\ d \in Nat /\ d + 1 = Len(stack) /\ stack[d + 1].node = n /\ stack[d + 1] \in Entry
        /\ Front(stack) \in Seq(Entry) /\ Len(Front(stack)) = d
        /\ \A p \in 1 .. d : Front(stack)[p] = stack[p]
    BY <1>1, FrontFacts
  <1>3. PICK order \in SetToSeqs(Found(n)) : stack' = Front(stack) \o Entries(n, order)
    BY DEF Visit, Pushed
  <1>4. Found(n) \subseteq EdgeIds /\ IsFiniteSet(Found(n))
    BY ItemsLead, FinitelyManyEdges DEF Found
  <1>5. /\ order \in Seq(Found(n))
        /\ \A e \in Found(n) : \E i \in 1 .. Len(order) : order[i] = e
    BY <1>4, OrderNamesAll
  <1>. DEFINE c == Len(order)
              new == Entries(n, order)
              rest == Front(stack)
  <1>6. c \in Nat /\ \A i \in 1 .. c : order[i] \in Found(n)
    BY <1>5
  <1>7. \A i \in 1 .. c : /\ new[i] \in Entry
                          /\ new[i].node = node_id(n, order[i])
                          /\ Leads(new[i].edge, n, new[i].node)
                          /\ new[i].edge \in EdgeIds /\ new[i].node \in Nodes
    BY <1>4, <1>6, ItemsLead DEF Entries, Found, Entry
  <1>8. new \in Seq(Entry) /\ Len(new) = c
    <2>1. new \in [1 .. c -> Entry]
      BY <1>7 DEF Entries
    <2>. HIDE DEF new, c
    <2>. QED
      BY <1>6, <2>1
  <1>. HIDE DEF c, new, rest
  <1>9. /\ rest \in Seq(Entry) /\ Len(rest) = d /\ stack' = rest \o new
        /\ \A p \in 1 .. d : rest[p] = stack[p]
    BY <1>2, <1>3 DEF rest, new
  <1>10. /\ stack' \in Seq(Entry) /\ Len(stack') = d + c
         /\ \A p \in 1 .. d : stack'[p] = stack[p]
         /\ \A i \in 1 .. c : stack'[d + i] = new[i]
    <2>1. /\ rest \o new \in Seq(Entry) /\ Len(rest \o new) = d + c
          /\ \A p \in 1 .. d : (rest \o new)[p] = rest[p]
          /\ \A i \in 1 .. c : (rest \o new)[d + i] = new[i]
      <3>1. rest \in Seq(Entry) /\ new \in Seq(Entry) /\ Len(rest) = d /\ Len(new) = c
        BY <1>8, <1>9
      <3>2. rest \o new \in Seq(Entry)
        BY <3>1
      <3>3. Len(rest \o new) = Len(rest) + Len(new)
        BY <3>1
      <3>4. \A i \in 1 .. Len(rest) : (rest \o new)[i] = rest[i]
        BY <3>1
      <3>5. \A i \in 1 .. Len(new) : (rest \o new)[Len(rest) + i] = new[i]
        BY <3>1, <1>2, <1>6
      <3>. QED
        BY <3>1, <3>2, <3>3, <3>4, <3>5
    <2>. QED
      BY <1>9, <2>1
  <1>11. \A i \in 1 .. c : d + i \in d + 1 .. d + c /\ stack'[d + i] = new[i]
    BY <1>2, <1>6, <1>10
  <1>12. ASSUME NEW p \in d + 1 .. d + c
         PROVE  /\ Leads(stack'[p].edge, n, stack'[p].node)
                /\ stack'[p].edge \in EdgeIds /\ stack'[p].node \in Nodes
    <2>1. p - d \in 1 .. c /\ d + (p - d) = p
      BY <1>2, <1>6
    <2>2. stack'[p] = new[p - d]
      BY <1>11, <2>1
    <2>. QED
      BY <1>7, <2>1, <2>2
  <1>13. ASSUME NEW k \in Nodes, Adjacent(n, k), k \notin visited \cup {n}
         PROVE  \E p \in d + 1 .. d + c : stack'[p].node = k
    <2>1. PICK e \in EdgeIds : Leads(e, n, k)
      BY <1>13 DEF Adjacent
    <2>2. e \in Found(n) /\ node_id(n, e) = k
      BY <1>13, <2>1, ItemsLead DEF Found
    <2>3. PICK i \in 1 .. c : order[i] = e
      BY <1>5, <2>2 DEF c
    <2>4. d + i \in d + 1 .. d + c /\ stack'[d + i].node = k
      BY <1>7, <1>11, <2>2, <2>3
    <2>. QED
      BY <2>4
  <1>. QED
    BY <1>2, <1>6, <1>10, <1>12, <1>13 DEF Grown

\* The reading of the graph does not change under the traversal.
LEMMA SameGraph ==
    ASSUME UNCHANGED <<graph, mode>>
    PROVE  /\ \A e, m, n : Leads(e, m, n)' <=> Leads(e, m, n)
           /\ \A m, n : Adjacent(m, n)' <=> Adjacent(m, n)
           /\ Reachable' = Reachable
  BY DEF Leads, Adjacent, Reachable

\* An entry stays parented where the nodes yielded meanwhile do not neighbour
\* its node.
LEMMA ParentedNext ==
    ASSUME NEW p, UNCHANGED <<graph, mode>>,
           NEW j \in 1 .. Len(yielded'),
           Leads(stack'[p].edge, yielded'[j].node, stack'[p].node),
           \A k \in j + 1 .. Len(yielded') :
              Adjacent(yielded'[k].node, stack'[p].node) =>
                  \/ stack'[p].node \in visited'
                  \/ \E q \in p + 1 .. Len(stack') : stack'[q].node = stack'[p].node
    PROVE  Parented(p)'
  BY DEF Parented, Leads, Adjacent

\* A visit keeps the invariant: the case the order of a depth-first search rests on.
LEMMA VisitKeeps ==
    ASSUME DfsInv, NEW n \in Nodes, Visit(n)
    PROVE  DfsInv'
  <1>. DEFINE y == Len(yielded)
  <1>1. /\ n \notin visited /\ visited' = visited \cup {n} /\ stack # <<>>
        /\ yielded' = Append(yielded, Last(stack)) /\ UNCHANGED <<graph, mode>>
    BY DEF Visit
  <1>0. DfsTypeOK
    BY DEF DfsInv
  <1>. PICK d : d = Len(stack) - 1
    OBVIOUS
  <1>2. /\ d \in Nat /\ d + 1 = Len(stack) /\ stack[d + 1].node = n /\ stack[d + 1] \in Entry
    BY <1>0, VisitShape
  <1>. PICK c \in Nat : Grown(n, d, c)
    BY <1>0, VisitShape
  <1>3. /\ stack' \in Seq(Entry) /\ Len(stack') = d + c
        /\ \A p \in 1 .. d : stack'[p] = stack[p]
        /\ \A p \in d + 1 .. d + c :
              /\ Leads(stack'[p].edge, n, stack'[p].node)
              /\ stack'[p].edge \in EdgeIds /\ stack'[p].node \in Nodes
        /\ \A k \in Nodes : Adjacent(n, k) /\ k \notin visited \cup {n} =>
              \E p \in d + 1 .. d + c : stack'[p].node = k
    BY DEF Grown
  <1>4. /\ DfsTypeOK /\ Matching /\ Within /\ Frontier /\ LatestOnTop /\ DepthFirst
        /\ stack \in Seq(Entry) /\ yielded \in Seq(Entry) /\ y \in Nat
    BY DEF DfsInv, DfsTypeOK
  <1>5. /\ yielded' \in Seq(Entry) /\ Len(yielded') = y + 1
        /\ yielded'[y + 1] = stack[d + 1]
        /\ \A i \in 1 .. y : yielded'[i] = yielded[i]
    <2>1. Last(stack) = stack[d + 1]
      BY <1>1, <1>2, <1>4, FrontFacts
    <2>2. yielded' = Append(yielded, stack[d + 1])
      BY <1>1, <2>1
    <2>. QED
      BY <1>2, <1>4, <2>2
  <1>. HIDE DEF y
  <1>6. DfsTypeOK'
    BY <1>1, <1>3, <1>4, <1>5 DEF DfsTypeOK
  <1>7. Matching'
    <2>1. \A i : i \in 1 .. y + 1 <=> i = y + 1 \/ i \in 1 .. y
      BY <1>4
    <2>2. /\ \A i \in 1 .. y : yielded[i].node \in visited
          /\ \A m \in visited : \E i \in 1 .. y : yielded[i].node = m
          /\ \A i, j \in 1 .. y : yielded[i].node = yielded[j].node => i = j
      BY <1>4 DEF Matching, y
    <2>3. yielded'[y + 1].node = n /\ \A i \in 1 .. y : yielded'[i] = yielded[i]
      BY <1>2, <1>5
    <2>. QED
      BY <1>1, <1>5, <2>1, <2>2, <2>3 DEF Matching
  <1>8. n \in Reachable
    BY <1>2, <1>4 DEF Within
  <1>9. \A p \in 1 .. d + c : p \in 1 .. d \/ p \in d + 1 .. d + c
    BY <1>2, <1>3
  <1>10. \A p \in 1 .. d : p \in 1 .. Len(stack) /\ p \in 1 .. d + c
    BY <1>2, <1>3
  <1>11. Within'
    <2>1. \A p \in d + 1 .. d + c : stack'[p].node \in Reachable
      <3>1. \A p \in d + 1 .. d + c : Adjacent(n, stack'[p].node) /\ stack'[p].node \in Nodes
        BY <1>3 DEF Adjacent
      <3>. QED
        BY <1>8, <3>1, ReachFacts
    <2>2. \A p \in 1 .. d : stack'[p].node \in Reachable
      BY <1>3, <1>4, <1>10 DEF Within
    <2>. QED
      BY <1>1, <1>3, <1>4, <1>8, <1>9, <2>1, <2>2, SameGraph DEF Within
  \* what waited still waits, n excepted
  <1>12. \A k : Waiting(k) => k = n \/ Waiting(k)'
    <2>. SUFFICES ASSUME NEW p \in 1 .. Len(stack), stack[p].node # n
                  PROVE  \E q \in 1 .. Len(stack') : stack'[q].node = stack[p].node
      BY DEF Waiting
    <2>1. p \in 1 .. d
      BY <1>2
    <2>. QED
      BY <1>3, <1>10, <2>1
  <1>13. \A k \in Nodes : Adjacent(n, k) /\ k \notin visited \cup {n} => Waiting(k)'
    <2>1. \A p \in d + 1 .. d + c : p \in 1 .. Len(stack')
      BY <1>2, <1>3
    <2>. QED
      BY <1>3, <2>1 DEF Waiting
  <1>14. Frontier'
    BY <1>1, <1>4, <1>12, <1>13, SameGraph, DfsAssumption DEF Frontier
  <1>15. ASSUME NEW p \in 1 .. Len(stack), y # 0 \/ p \in 1 .. d
         PROVE  Parented(p)
    BY <1>2, <1>4, <1>15 DEF LatestOnTop, y
  <1>16. ASSUME NEW p \in d + 1 .. d + c
         PROVE  Parented(p)'
    <2>1. Leads(stack'[p].edge, n, stack'[p].node)
      BY <1>3
    <2>2. y + 1 \in 1 .. y + 1 /\ yielded'[y + 1].node = n /\ (y + 1) + 1 .. y + 1 = {}
      BY <1>2, <1>4, <1>5
    <2>. QED
      BY <1>1, <1>5, <2>1, <2>2, ParentedNext
  <1>17. ASSUME NEW p \in 1 .. d
         PROVE  Parented(p)'
    <2>. PICK x : x = stack[p].node
      OBVIOUS
    <2>0. p \in 1 .. Len(stack) /\ stack'[p] = stack[p]
      BY <1>3, <1>10
    <2>1. p \in 1 .. Len(stack) /\ stack'[p] = stack[p] /\ x \in Nodes
      <3>1. stack[p] \in Entry
        BY <1>4, <2>0
      <3>. QED
        BY <2>0, <3>1 DEF Entry
    <2>2. PICK j \in 1 .. y :
            /\ Leads(stack[p].edge, yielded[j].node, x)
            /\ \A k \in j + 1 .. y : Adjacent(yielded[k].node, x) =>
                  x \in visited \/ \E q \in p + 1 .. Len(stack) : stack[q].node = x
      BY <1>15, <2>1 DEF Parented, y
    <2>3. ASSUME NEW k \in j + 1 .. y + 1, Adjacent(yielded'[k].node, x)
          PROVE  x \in visited' \/ \E q \in p + 1 .. d + c : stack'[q].node = x
      <3>1. CASE k = y + 1
        <4>1. Adjacent(n, x)
          BY <1>2, <1>5, <2>3, <3>1
        <4>2. \A q \in d + 1 .. d + c : q \in p + 1 .. d + c
          BY <1>2, <1>3
        <4>. QED
          BY <1>1, <1>3, <2>1, <4>1, <4>2
      <3>2. CASE k # y + 1
        <4>1. k \in j + 1 .. y /\ k \in 1 .. y
          BY <1>4, <3>2
        <4>2. x \in visited \/ \E q \in p + 1 .. Len(stack) : stack[q].node = x
          BY <1>5, <2>2, <2>3, <4>1
        <4>3. ASSUME NEW q \in p + 1 .. Len(stack), stack[q].node = x
              PROVE  x = n \/ (q \in p + 1 .. d + c /\ stack'[q] = stack[q])
          <5>1. q = d + 1 \/ q \in 1 .. d
            BY <1>2
          <5>2. q \in 1 .. d => q \in p + 1 .. d + c
            BY <1>2, <1>3
          <5>. QED
            BY <1>2, <1>3, <4>3, <5>1, <5>2
        <4>. QED
          BY <1>1, <4>2, <4>3
      <3>. QED
        BY <3>1, <3>2
    <2>4. j \in 1 .. y + 1 /\ yielded'[j] = yielded[j]
      BY <1>4, <1>5
    <2>5. Leads(stack'[p].edge, yielded'[j].node, stack'[p].node)
      BY <2>1, <2>2, <2>4
    <2>. QED
      BY <1>1, <1>3, <1>5, <2>1, <2>3, <2>4, <2>5, ParentedNext
  <1>18. LatestOnTop'
    BY <1>3, <1>9, <1>16, <1>17 DEF LatestOnTop
  <1>19. DepthFirst'
    <2>. SUFFICES ASSUME NEW i \in 2 .. y + 1
                  PROVE  \E j \in 1 .. i - 1 :
                            /\ Leads(yielded'[i].edge, yielded'[j].node, yielded'[i].node)
                            /\ \A k \in j + 1 .. i - 1 : ~ Adjacent(yielded'[k].node, yielded'[i].node)
      BY <1>1, <1>5, SameGraph DEF DepthFirst
    <2>1. CASE i = y + 1
      <3>1. y # 0 /\ d + 1 \in 1 .. Len(stack)
        BY <1>2, <1>4, <2>1
      <3>2. PICK j \in 1 .. y :
              /\ Leads(stack[d + 1].edge, yielded[j].node, n)
              /\ \A k \in j + 1 .. y : Adjacent(yielded[k].node, n) =>
                    n \in visited \/ \E q \in (d + 1) + 1 .. Len(stack) : stack[q].node = n
        BY <1>2, <1>15, <3>1 DEF Parented, y
      <3>3. (d + 1) + 1 .. Len(stack) = {}
        BY <1>2
      <3>4. \A k \in j + 1 .. y : ~ Adjacent(yielded[k].node, n)
        BY <1>1, <3>2, <3>3
      <3>5. \A k \in j + 1 .. y : k \in 1 .. y
        BY <1>4
      <3>6. \A k \in j + 1 .. y : ~ Adjacent(yielded'[k].node, n)
        BY <1>5, <3>4, <3>5
      <3>7. i - 1 = y
        BY <1>4, <2>1
      <3>. QED
        BY <1>2, <1>5, <2>1, <3>2, <3>6, <3>7
    <2>2. CASE i # y + 1
      <3>1. i \in 2 .. y /\ i \in 1 .. y
        BY <1>4, <2>2
      <3>2. PICK j \in 1 .. i - 1 :
              /\ Leads(yielded[i].edge, yielded[j].node, yielded[i].node)
              /\ \A k \in j + 1 .. i - 1 : ~ Adjacent(yielded[k].node, yielded[i].node)
        BY <1>4, <3>1 DEF DepthFirst, y
      <3>3. j \in 1 .. y /\ \A k \in j + 1 .. i - 1 : k \in 1 .. y
        BY <1>4, <3>1
      <3>. QED
        BY <1>5, <3>1, <3>2, <3>3
    <2>. QED
      BY <2>1, <2>2
  <1>. QED
    BY <1>6, <1>7, <1>11, <1>14, <1>18, <1>19 DEF DfsInv

\* An entry whose node was reached in the meantime goes; nothing depended on it.
LEMMA SkipKeeps ==
    ASSUME DfsInv, Skip
    PROVE  DfsInv'
  <1>1. /\ stack # <<>> /\ Last(stack).node \in visited /\ stack' = Front(stack)
        /\ UNCHANGED <<graph, mode, visited, yielded>>
    BY DEF Skip
  <1>2. /\ DfsTypeOK /\ Matching /\ Within /\ Frontier /\ LatestOnTop /\ DepthFirst
        /\ stack \in Seq(Entry)
    BY DEF DfsInv, DfsTypeOK
  <1>. PICK d : d = Len(stack) - 1
    OBVIOUS
  <1>3. /\ d \in Nat /\ d + 1 = Len(stack) /\ stack[d + 1].node \in visited
        /\ stack' \in Seq(Entry) /\ Len(stack') = d
        /\ \A p \in 1 .. d : stack'[p] = stack[p]
    BY <1>1, <1>2, FrontFacts
  <1>4. \A p \in 1 .. Len(stack) : p = d + 1 \/ p \in 1 .. d
    <2>1. d \in Nat /\ d + 1 = Len(stack)
      BY <1>3
    <2>2. \A p \in 1 .. d + 1 : p = d + 1 \/ p \in 1 .. d
      BY <2>1
    <2>. QED
      BY <2>1, <2>2
  <1>5. \A p \in 1 .. d : p \in 1 .. Len(stack)
    BY <1>3
  <1>6. DfsTypeOK' /\ Matching'
    BY <1>1, <1>2, <1>3 DEF DfsTypeOK, Matching
  <1>7. Within'
    BY <1>1, <1>2, <1>3, <1>5, SameGraph DEF Within
  <1>8. Frontier'
    <2>1. \A k : Waiting(k) => k \in visited \/ Waiting(k)'
      BY <1>3, <1>4 DEF Waiting
    <2>. QED
      BY <1>1, <1>2, <2>1, SameGraph DEF Frontier
  <1>9. DepthFirst'
    BY <1>1, <1>2 DEF DepthFirst, Leads, Adjacent
  <1>10. ASSUME NEW p \in 1 .. d, Parented(p)
         PROVE  Parented(p)'
    <2>. PICK x : x = stack[p].node
      OBVIOUS
    <2>1. PICK j \in 1 .. Len(yielded) :
            /\ Leads(stack[p].edge, yielded[j].node, x)
            /\ \A k \in j + 1 .. Len(yielded) : Adjacent(yielded[k].node, x) =>
                  x \in visited \/ \E q \in p + 1 .. Len(stack) : stack[q].node = x
      BY <1>10 DEF Parented
    <2>2. ASSUME NEW q \in p + 1 .. Len(stack), stack[q].node = x
          PROVE  x \in visited \/ (q \in p + 1 .. d /\ stack'[q].node = x)
      <3>1. q = d + 1 \/ (q \in 1 .. d /\ q \in p + 1 .. d)
        BY <1>3
      <3>. QED
        BY <1>3, <2>2, <3>1
    <2>3. stack'[p] = stack[p]
      BY <1>3
    <2>4. \A k \in j + 1 .. Len(yielded) : Adjacent(yielded[k].node, x) =>
              x \in visited \/ \E q \in p + 1 .. d : stack'[q].node = x
      BY <2>1, <2>2
    <2>. QED
      BY <1>1, <1>3, <2>1, <2>3, <2>4, ParentedNext
  <1>11. LatestOnTop'
    BY <1>1, <1>2, <1>3, <1>5, <1>10 DEF LatestOnTop
  <1>. QED
    BY <1>6, <1>7, <1>8, <1>9, <1>11 DEF DfsInv

\* No step of next() breaks the invariant.
LEMMA NextDfs == DfsInv /\ [Next]_vars => DfsInv'
  <1>. SUFFICES ASSUME DfsInv, [Next]_vars
                PROVE  DfsInv'
    OBVIOUS
  <1>1. CASE Skip
    BY <1>1, SkipKeeps
  <1>2. ASSUME NEW n \in Nodes, Visit(n)
        PROVE  DfsInv'
    BY <1>2, VisitKeeps
  <1>3. CASE Exhausted \/ UNCHANGED vars
    <2>1. UNCHANGED <<graph, mode, visited, stack, yielded>>
      BY <1>3 DEF Exhausted, vars
    <2>2. DfsTypeOK' /\ Matching' /\ DepthFirst'
      <3>1. DfsTypeOK'
        BY <2>1 DEF DfsInv, DfsTypeOK
      <3>2. Matching'
        BY <2>1 DEF DfsInv, Matching
      <3>3. DepthFirst'
        BY <2>1 DEF DfsInv, DepthFirst, Leads, Adjacent
      <3>. QED
        BY <3>1, <3>2, <3>3
    <2>3. Within' /\ Frontier'
      BY <2>1, SameGraph DEF DfsInv, Within, Frontier, Waiting
    <2>4. LatestOnTop'
      <3>1. \A p : Parented(p)' <=> Parented(p)
        BY <2>1 DEF Parented, Leads, Adjacent
      <3>. QED
        BY <2>1, <3>1 DEF DfsInv, LatestOnTop
    <2>. QED
      BY <2>2, <2>3, <2>4 DEF DfsInv
  <1>. QED
    BY <1>1, <1>2, <1>3 DEF Next

\* The nodes yielded are those visited, which are, with nothing left waiting, a
\* closed set with the root.
LEMMA InvYields == DfsInv => YieldsReachable
  <1>. SUFFICES ASSUME DfsInv
                PROVE  YieldsReachable
    OBVIOUS
  <1>. DEFINE found == {yielded[i].node : i \in 1 .. Len(yielded)}
  <1>1. visited \in SUBSET Nodes /\ visited \subseteq Reachable /\ Frontier
    BY DEF DfsInv, DfsTypeOK, Within
  <1>2. /\ \A i, j \in 1 .. Len(yielded) : yielded[i].node = yielded[j].node => i = j
        /\ found = visited
    BY DEF DfsInv, Matching
  <1>3. ASSUME stack = <<>>
        PROVE  visited = Reachable
    <2>1. \A n : ~ Waiting(n)
      BY <1>3 DEF Waiting
    <2>2. Root \in visited /\ \A m \in visited, k \in Nodes : Adjacent(m, k) => k \in visited
      BY <1>1, <2>1 DEF Frontier
    <2>. QED
      BY <1>1, <2>2, ReachFacts
  <1>. QED
    BY <1>1, <1>2, <1>3 DEF YieldsReachable

\* DfsIter::next on any finite graph yields only what the root reaches and no
\* node twice, and when it returns None it has yielded all of it.
THEOREM YieldsReachableAlways == Spec => []YieldsReachable
  <1>1. Spec => []DfsInv
    BY InitDfs, NextDfs, PTL DEF Spec
  <1>. QED
    BY <1>1, InvYields, PTL

\* The order of DfsIter is depth first on any finite graph: each node comes with
\* an edge from the latest node yielded before that it is a neighbour of,
\* whatever order the hash sets give the edges.
THEOREM DepthFirstAlways == Spec => []DepthFirst
  <1>1. Spec => []DfsInv
    BY InitDfs, NextDfs, PTL DEF Spec
  <1>2. DfsInv => DepthFirst
    BY DEF DfsInv
  <1>. QED
    BY <1>1, <1>2, PTL

-----------------------------------------------------------------------------
(* The fixed point of compute_postdominators.                              *)

\* The set of a node that is no exit holds what an update would give it.
Descending == \A n \in node_set \ exit_set : updated(n) \subseteq pdom[n]

ExitsAlone == \A n \in node_set \cap exit_set : pdom[n] = {n}

\* In a round that changed nothing, the nodes visited so far are settled.
Settled == ~changed => \A i \in 1 .. at - 1 :
                nodes[i] \notin exit_set => pdom[nodes[i]] = updated(nodes[i])

PostInv == TypeOK /\ NeverTooSmall /\ Descending /\ ExitsAlone /\ Settled

-----------------------------------------------------------------------------
\* The members of an updated set: the node, and what all its successors, of
\* which there is one, agree on.
LEMMA UpdatedMember ==
    \A n, p : p \in updated(n) <=> \/ p = n
                                   \/ successors(n) # {} /\ \A s \in successors(n) : p \in pdom[s]
BY DEF updated, intersect_sets

\* A node p that lies on every path from n to an end and is not n lies on every
\* path from each successor of n, and there is one.
LEMMA PostDomStep ==
    ASSUME NEW n \in node_set, NEW p, n # p, n \notin Reaching(Ends, {p})
    PROVE  /\ successors(n) # {}
           /\ n \notin exit_set
           /\ \A s \in successors(n) : s \in node_set \ Reaching(Ends, {p})
<1> DEFINE closed == {S \in SUBSET node_set :
                      /\ Ends \cap node_set \subseteq S \cup {p}
                      /\ \A m \in node_set \ (Ends \cup {p} \cup S) : successors(m) \cap S = {}}
<1>1. \A x : x \in Reaching(Ends, {p}) <=> x \in node_set /\ \A S \in closed : x \in S
  BY DEF Reaching
<1>2. PICK S \in closed : n \notin S
  BY <1>1
<1>3. n \notin Ends
  <2>1. Ends \cap node_set \subseteq S \cup {p}
    BY <1>2
  <2> QED BY <2>1, <1>2
<1>4. successors(n) # {} /\ n \notin exit_set
  BY <1>3 DEF Ends
<1>5. ASSUME NEW s \in successors(n) PROVE s \in node_set \ Reaching(Ends, {p})
  <2>1. s \in node_set
    BY DEF successors
  <2>2. n \in node_set \ (Ends \cup {p} \cup S)
    BY <1>2, <1>3
  <2>3. successors(n) \cap S = {}
    BY <1>2, <2>2
  <2>4. s \notin S
    BY <2>3
  <2> QED BY <2>1, <2>4, <1>1, <1>2
<1> QED BY <1>4, <1>5

\* A set of nodes that holds the ends off p, and every node off p that has a
\* successor in it, holds all the nodes that reach an end off p.
LEMMA ReachingLeast ==
    ASSUME NEW p, NEW S \in SUBSET node_set,
           \A e \in Ends : e # p => e \in S,
           \A m \in node_set : m # p /\ m \notin Ends /\ successors(m) \cap S # {} => m \in S
    PROVE  Reaching(Ends, {p}) \subseteq S
<1> DEFINE closed == {T \in SUBSET node_set :
                      /\ Ends \cap node_set \subseteq T \cup {p}
                      /\ \A m \in node_set \ (Ends \cup {p} \cup T) : successors(m) \cap T = {}}
<1>1. S \in closed
  OBVIOUS
<1> QED BY <1>1 DEF Reaching

-----------------------------------------------------------------------------
\* The slice of nodes the call was given is a finite sequence of nodes.
LEMMA LenNodes == input \in Inputs => nodes \in Seq(Node) /\ Len(nodes) \in Nat
BY InputsAssumption DEF nodes

\* The first sets are full, or the node alone for an exit.
LEMMA PostInitInv == PostInit => PostInv
<1> SUFFICES ASSUME PostInit PROVE PostInv
  OBVIOUS
<1> USE DEF PostInit
<1>1. TypeOK
  <2>1. 1 \in 1 .. Len(nodes) + 1
    BY LenNodes
  <2>2. pdom \in [node_set -> SUBSET node_set] /\ \A n \in node_set : n \in pdom[n]
    OBVIOUS
  <2> QED BY <2>1, <2>2 DEF TypeOK
<1>2. ExitsAlone
  BY DEF ExitsAlone
<1>3. NeverTooSmall
  <2> SUFFICES ASSUME NEW p \in node_set, NEW n \in node_set \ Reaching(Ends, {p})
               PROVE  p \in pdom[n]
    BY DEF NeverTooSmall
  <2>1. CASE n = p
    BY <2>1
  <2>2. CASE n # p
    BY <2>2, PostDomStep
  <2> QED BY <2>1, <2>2
<1>4. Descending
  <2> SUFFICES ASSUME NEW n \in node_set \ exit_set, NEW p \in updated(n)
               PROVE  p \in pdom[n]
    BY DEF Descending
  <2>1. pdom[n] = node_set
    OBVIOUS
  <2>2. p = n \/ (successors(n) # {} /\ \A s \in successors(n) : p \in pdom[s])
    BY UpdatedMember
  <2>3. \A s \in successors(n) : s \in node_set /\ pdom[s] \subseteq node_set
    BY DEF successors
  <2> QED BY <2>1, <2>2, <2>3
<1>5. Settled
  BY DEF Settled
<1> QED BY <1>1, <1>2, <1>3, <1>4, <1>5 DEF PostInv

\* Within one call the arguments stay, and with them all that depends on them.
LEMMA SameInput ==
    ASSUME input' = input
    PROVE  /\ nodes' = nodes /\ node_set' = node_set /\ exit_set' = exit_set
           /\ \A n : successors(n)' = successors(n)
           /\ Ends' = Ends
           /\ \A p : Reaching(Ends, {p})' = Reaching(Ends, {p})
<1>1. nodes' = nodes /\ node_set' = node_set /\ exit_set' = exit_set
  BY DEF nodes, node_set, exit_set
<1>2. \A n : successors(n)' = successors(n)
  BY <1>1 DEF successors
<1>3. Ends' = Ends
  BY <1>1, <1>2 DEF Ends
<1>4. \A p : Reaching(Ends, {p})' = Reaching(Ends, {p})
  BY <1>1, <1>2, <1>3 DEF Reaching
<1> QED BY <1>1, <1>2, <1>3, <1>4

\* What an update changes.
LEMMA UpdateFacts ==
    ASSUME PostInv, Update
    PROVE  /\ nodes[at] \in node_set \ exit_set
           /\ pdom'[nodes[at]] = updated(nodes[at])
           /\ \A n \in node_set : n # nodes[at] => pdom'[n] = pdom[n]
           /\ \A n \in node_set : pdom'[n] \subseteq pdom[n]
           /\ DOMAIN pdom' = node_set
<1>1. at \in 1 .. Len(nodes) /\ Len(nodes) \in Nat
  BY LenNodes DEF PostInv, TypeOK, Update
<1>2. nodes[at] \in node_set \ exit_set
  BY <1>1 DEF node_set, Update
<1>3. pdom \in [node_set -> SUBSET node_set]
  BY DEF PostInv, TypeOK
<1>4. /\ pdom'[nodes[at]] = updated(nodes[at])
      /\ \A n \in node_set : n # nodes[at] => pdom'[n] = pdom[n]
      /\ DOMAIN pdom' = node_set
  BY <1>2, <1>3 DEF Update
<1>5. updated(nodes[at]) \subseteq pdom[nodes[at]]
  BY <1>2 DEF PostInv, Descending
<1> QED BY <1>2, <1>4, <1>5

\* An update shrinks one set, never below the post-dominators, and keeps the
\* order of updates.
LEMMA UpdateInv == PostInv /\ Update => PostInv'
<1> SUFFICES ASSUME PostInv, Update PROVE PostInv'
  OBVIOUS
<1> DEFINE v == nodes[at]
<1>1. input' = input
  BY DEF Update
<1>2. /\ nodes' = nodes /\ node_set' = node_set /\ exit_set' = exit_set
      /\ \A n : successors(n)' = successors(n)
      /\ \A p : Reaching(Ends, {p})' = Reaching(Ends, {p})
  BY <1>1, SameInput
<1>3. /\ v \in node_set \ exit_set
      /\ pdom'[v] = updated(v)
      /\ \A n \in node_set : n # v => pdom'[n] = pdom[n]
      /\ \A n \in node_set : pdom'[n] \subseteq pdom[n]
  BY UpdateFacts
<1>4. pdom \in [node_set -> SUBSET node_set] /\ \A n \in node_set : n \in pdom[n]
  BY DEF PostInv, TypeOK
<1>5. \A n, p : p \in updated(n) <=> \/ p = n
                                     \/ successors(n) # {} /\ \A s \in successors(n) : p \in pdom[s]
  BY UpdatedMember
<1>6. \A n, p : p \in updated(n)' <=> \/ p = n
                                      \/ successors(n) # {} /\ \A s \in successors(n) : p \in pdom'[s]
  BY <1>2 DEF updated, intersect_sets
<1>7. TypeOK'
  <2>1. pdom' \in [node_set -> SUBSET node_set]
    <3>1. pdom' = [pdom EXCEPT ![v] = updated(v)]
      BY DEF Update
    <3>2. updated(v) \subseteq node_set
      BY <1>3, <1>4
    <3> QED BY <3>1, <3>2, <1>4
  <2>2. \A n \in node_set : n \in pdom'[n]
    BY <1>3, <1>4, <1>5
  <2>3. at' \in 1 .. Len(nodes) + 1
    BY LenNodes DEF PostInv, TypeOK, Update
  <2>4. changed' \in BOOLEAN
    BY DEF Update, PostInv, TypeOK
  <2>5. input \in Inputs
    BY DEF PostInv, TypeOK
  <2> QED BY <1>1, <1>2, <2>1, <2>2, <2>3, <2>4, <2>5 DEF TypeOK
<1>8. NeverTooSmall'
  <2> SUFFICES ASSUME NEW p \in node_set, NEW n \in node_set \ Reaching(Ends, {p})
               PROVE  p \in pdom'[n]
    BY <1>2 DEF NeverTooSmall
  <2>1. CASE n # v
    BY <2>1, <1>3 DEF PostInv, NeverTooSmall
  <2>2. CASE n = v /\ n = p
    BY <2>2, <1>3, <1>5
  <2>3. CASE n = v /\ n # p
    <3>1. /\ successors(n) # {}
          /\ \A s \in successors(n) : s \in node_set \ Reaching(Ends, {p})
      BY <2>3, PostDomStep
    <3>2. \A s \in successors(n) : p \in pdom[s]
      BY <3>1 DEF PostInv, NeverTooSmall
    <3> QED BY <2>3, <3>1, <3>2, <1>3, <1>5
  <2> QED BY <2>1, <2>2, <2>3
<1>9. Descending'
  <2> SUFFICES ASSUME NEW n \in node_set \ exit_set, NEW p, p \in updated(n)'
               PROVE  p \in pdom'[n]
    BY <1>2 DEF Descending
  <2>1. \A s \in successors(n) : s \in node_set
    BY DEF successors
  <2>2. p \in updated(n)
    BY <2>1, <1>3, <1>5, <1>6
  <2>3. p \in pdom[n]
    BY <2>2 DEF PostInv, Descending
  <2> QED BY <2>2, <2>3, <1>3
<1>10. ExitsAlone'
  BY <1>2, <1>3 DEF ExitsAlone, PostInv
<1>11. Settled'
  <2> SUFFICES ASSUME ~changed', NEW i \in 1 .. at' - 1, nodes[i] \notin exit_set
               PROVE  pdom'[nodes[i]] = updated(nodes[i])'
    BY <1>2 DEF Settled
  <2>1. ~changed /\ updated(v) = pdom[v]
    BY DEF Update
  <2>2. pdom' = pdom
    BY <2>1, <1>4 DEF Update
  <2>3. updated(nodes[i])' = updated(nodes[i])
    BY <2>2, <1>2 DEF updated
  <2>4. i \in 1 .. at - 1 \/ i = at
    BY DEF PostInv, TypeOK, Update
  <2> QED BY <2>1, <2>2, <2>3, <2>4 DEF PostInv, Settled
<1> QED BY <1>7, <1>8, <1>9, <1>10, <1>11 DEF PostInv

\* The steps that leave the sets alone.
LEMMA OtherInv ==
    ASSUME PostInv, input' = input, pdom' = pdom, TypeOK', Settled'
    PROVE  PostInv'
<1>1. /\ node_set' = node_set /\ exit_set' = exit_set
      /\ \A n : successors(n)' = successors(n)
      /\ \A p : Reaching(Ends, {p})' = Reaching(Ends, {p})
  BY SameInput
<1>2. \A n : updated(n)' = updated(n)
  BY <1>1 DEF updated
<1>3. NeverTooSmall'
  BY <1>1 DEF PostInv, NeverTooSmall
<1>4. Descending' /\ ExitsAlone'
  BY <1>1, <1>2 DEF PostInv, Descending, ExitsAlone
<1> QED BY <1>3, <1>4 DEF PostInv

\* Every step of the call keeps the invariant.
LEMMA PostStepInv == PostInv /\ [PostNext]_postVars => PostInv'
<1> SUFFICES ASSUME PostInv, [PostNext]_postVars PROVE PostInv'
  OBVIOUS
<1>0. Len(nodes) \in Nat
  BY LenNodes DEF PostInv, TypeOK
<1>1. CASE SkipExit
  <2>1. input' = input /\ pdom' = pdom /\ changed' = changed
    BY <1>1 DEF SkipExit
  <2>2. /\ nodes' = nodes /\ node_set' = node_set /\ exit_set' = exit_set
        /\ \A n : successors(n)' = successors(n)
    BY <2>1, SameInput
  <2>3. TypeOK'
    BY <1>0, <1>1, <2>1, <2>2 DEF SkipExit, PostInv, TypeOK
  <2>4. \A n : updated(n)' = updated(n)
    BY <2>1, <2>2 DEF updated
  <2>5. Settled'
    <3> SUFFICES ASSUME ~changed, NEW i \in 1 .. at' - 1, nodes[i] \notin exit_set
                 PROVE  pdom[nodes[i]] = updated(nodes[i])
      BY <2>1, <2>2, <2>4 DEF Settled
    <3>1. i \in 1 .. at - 1
      BY <1>1 DEF SkipExit, PostInv, TypeOK
    <3> QED BY <3>1 DEF PostInv, Settled
  <2> QED BY <2>1, <2>3, <2>5, OtherInv
<1>2. CASE Update
  BY <1>2, UpdateInv
<1>3. CASE NextRound
  <2>1. input' = input /\ pdom' = pdom /\ at' = 1 /\ changed' = FALSE
    BY <1>3 DEF NextRound
  <2>2. nodes' = nodes /\ node_set' = node_set /\ 1 \in 1 .. Len(nodes) + 1
    BY <1>0, <2>1, SameInput
  <2>3. TypeOK'
    BY <2>1, <2>2 DEF PostInv, TypeOK
  <2>4. Settled'
    BY <2>1 DEF Settled
  <2> QED BY <2>1, <2>3, <2>4, OtherInv
<1>4. CASE UNCHANGED postVars
  <2>1. input' = input /\ pdom' = pdom /\ at' = at /\ changed' = changed
    BY <1>4 DEF postVars
  <2>2. /\ nodes' = nodes /\ node_set' = node_set /\ exit_set' = exit_set
        /\ \A n : successors(n)' = successors(n)
    BY <2>1, SameInput
  <2>3. TypeOK'
    BY <2>1, <2>2 DEF PostInv, TypeOK
  <2>4. \A n : updated(n)' = updated(n)
    BY <2>1, <2>2 DEF updated
  <2>5. Settled'
    BY <2>1, <2>2, <2>4 DEF PostInv, Settled
  <2> QED BY <2>1, <2>3, <2>5, OtherInv
<1> QED BY <1>1, <1>2, <1>3, <1>4 DEF PostNext

\* So it holds throughout a call.
THEOREM PostInvAlways == PostSpec => []PostInv
<1> QED BY PostInitInv, PostStepInv, PTL DEF PostSpec

-----------------------------------------------------------------------------
\* Every set of compute_postdominators is a set of nodes with its own node in it.
THEOREM PostTypeAlways == PostSpec => []TypeOK
<1>1. PostInv => TypeOK
  BY DEF PostInv
<1> QED BY <1>1, PostInvAlways, PTL

\* At every moment of a call, each set holds all the post-dominators of its
\* node: compute_postdominators only ever removes nodes that are none.
THEOREM NeverTooSmallAlways == PostSpec => []NeverTooSmall
<1>1. PostInv => NeverTooSmall
  BY DEF PostInv
<1> QED BY <1>1, PostInvAlways, PTL

\* No step of compute_postdominators makes a set larger.
THEOREM OnlyShrinks == PostSpec => OnlyShrink
<1>1. PostInv /\ [PostNext]_postVars => [\A n \in node_set : pdom'[n] \subseteq pdom[n]]_postVars
  <2> SUFFICES ASSUME PostInv, PostNext PROVE \A n \in node_set : pdom'[n] \subseteq pdom[n]
    OBVIOUS
  <2>1. CASE Update
    BY <2>1, UpdateFacts
  <2>2. CASE SkipExit \/ NextRound
    BY <2>2 DEF SkipExit, NextRound
  <2> QED BY <2>1, <2>2 DEF PostNext
<1> QED BY <1>1, PostInvAlways, PTL DEF PostSpec, OnlyShrink

\* When compute_postdominators returns, a node is in the set of n exactly when
\* it lies on every path from n to an end.
THEOREM PostDominanceAlways == PostSpec => []PostDominanceExact
<1>1. PostInv => PostDominanceExact
  <2> SUFFICES ASSUME PostInv, Returned, NEW p \in node_set
               PROVE  {n \in node_set : p \in pdom[n]} = node_set \ Reaching(Ends, {p})
    BY DEF PostDominanceExact
  <2> DEFINE S == {n \in node_set : p \notin pdom[n]}
  <2>1. ASSUME NEW n \in node_set \ exit_set PROVE pdom[n] = updated(n)
    <3>1. PICK i \in 1 .. Len(nodes) : n = nodes[i]
      BY DEF node_set
    <3>2. i \in 1 .. at - 1 /\ ~changed
      BY LenNodes DEF Returned, PostInv, TypeOK
    <3> QED BY <3>1, <3>2 DEF PostInv, Settled
  <2>2. ASSUME NEW n \in node_set \ exit_set
        PROVE  p \in pdom[n] <=> \/ p = n
                                 \/ successors(n) # {} /\ \A s \in successors(n) : p \in pdom[s]
    <3>1. p \in updated(n) <=> \/ p = n
                               \/ successors(n) # {} /\ \A s \in successors(n) : p \in pdom[s]
      BY UpdatedMember
    <3> QED BY <3>1, <2>1
  <2>3. \A e \in Ends : e # p => e \in S
    <3> SUFFICES ASSUME NEW e \in Ends, e # p PROVE p \notin pdom[e]
      BY DEF Ends
    <3>1. CASE e \in exit_set
      BY <3>1 DEF Ends, PostInv, ExitsAlone
    <3>2. CASE e \notin exit_set
      <4>1. successors(e) = {} /\ e \in node_set
        BY <3>2 DEF Ends
      <4> QED BY <4>1, <3>2, <2>2
    <3> QED BY <3>1, <3>2
  <2>4. \A m \in node_set : m # p /\ m \notin Ends /\ successors(m) \cap S # {} => m \in S
    <3> SUFFICES ASSUME NEW m \in node_set, m # p, m \notin Ends, successors(m) \cap S # {}
                 PROVE  p \notin pdom[m]
      OBVIOUS
    <3>1. m \notin exit_set
      BY DEF Ends
    <3> QED BY <3>1, <2>2
  <2>5. S \in SUBSET node_set
    OBVIOUS
  <2> HIDE DEF S
  <2>6. Reaching(Ends, {p}) \subseteq S
    BY <2>3, <2>4, <2>5, ReachingLeast
  <2>7. \A n \in node_set \ Reaching(Ends, {p}) : p \in pdom[n]
    BY DEF PostInv, NeverTooSmall
  <2> QED BY <2>6, <2>7 DEF S
<1> QED BY <1>1, PostInvAlways, PTL

=============================================================================
