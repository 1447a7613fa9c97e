------------------------------ MODULE SeseProofs ------------------------------
(***************************************************************************)
(* compute_sese on every finite graph: its classes are the classes of      *)
(* cycle equivalence, its candidates have one entry and one exit, the      *)
(* regions it selects form a tree over all reachable nodes, and the lists  *)
(* of the bracket pass hold what spans a subtree.                          *)
(*                                                                         *)
(* The argument is by paths.  Reached(n, E, src, dst, s) is the least set  *)
(* of nodes closed under the edges E; the worklists of the code compute    *)
(* it, Path(off, x, y) states it of the flowgraph without the edges off,   *)
(* and Net collects what compute_sese makes sure of: one exit, which leads *)
(* back to the root.                                                       *)
(***************************************************************************)
EXTENDS Sese, VecsProofs, FiniteSetTheorems

-----------------------------------------------------------------------------
(* Reachability by rounds, which the worklists of the code compute.        *)

\* The nodes reached from s along the edges of E, each from src to dst.
Reached(n, E, src, dst, s) ==
    {x \in 1 .. n : \A S \in SUBSET (1 .. n) :
        s \in S /\ (\A e \in E : src[e] \in S => dst[e] \in S) => x \in S}

\* One round of the worklist.
Round(E, src, dst, S) == S \cup {dst[e] : e \in {d \in E : src[d] \in S}}

\* The sets of all rounds.
Rounds(n, E, src, dst, s, f) ==
    /\ f \in [1 .. n -> SUBSET (1 .. n)]
    /\ f = [k \in 1 .. n |-> IF k = 1 THEN {s} ELSE Round(E, src, dst, f[k - 1])]

\* The last round has them all.
Complete(n, E, src, dst, s, f) == f[n] = Reached(n, E, src, dst, s)

\* What is reached holds the start and is closed under the edges.
LEMMA ReachedFacts ==
    ASSUME NEW n \in Nat, NEW E, NEW src \in [E -> 1 .. n], NEW dst \in [E -> 1 .. n],
           NEW s \in 1 .. n
    PROVE  /\ s \in Reached(n, E, src, dst, s)
           /\ Reached(n, E, src, dst, s) \subseteq 1 .. n
           /\ \A e \in E : src[e] \in Reached(n, E, src, dst, s)
                             => dst[e] \in Reached(n, E, src, dst, s)
  BY DEF Reached

\* Every closed set with the start holds it.
LEMMA ReachedLeast ==
    ASSUME NEW n, NEW E, NEW src, NEW dst, NEW s, NEW S \in SUBSET (1 .. n),
           s \in S, \A e \in E : src[e] \in S => dst[e] \in S
    PROVE  Reached(n, E, src, dst, s) \subseteq S
  BY DEF Reached

\* A round follows the edges of what it has, and nothing else.
LEMMA RoundFacts ==
    ASSUME NEW n \in Nat, NEW E, NEW src \in [E -> 1 .. n], NEW dst \in [E -> 1 .. n],
           NEW S \in SUBSET (1 .. n)
    PROVE  /\ Round(E, src, dst, S) \in SUBSET (1 .. n)
           /\ S \subseteq Round(E, src, dst, S)
           /\ \A e \in E : src[e] \in S => dst[e] \in Round(E, src, dst, S)
           /\ \A T : S \subseteq T /\ (\A e \in E : src[e] \in T => dst[e] \in T)
                       => Round(E, src, dst, S) \subseteq T
           /\ (\A e \in E : src[e] \in S => dst[e] \in S) => Round(E, src, dst, S) = S
  BY DEF Round

\* The worklist of n rounds reaches everything: a round that adds nothing is the
\* last, and n nodes cannot be added after the first.
LEMMA RoundsReach ==
    ASSUME NEW n \in Nat, NEW E, NEW src \in [E -> 1 .. n], NEW dst \in [E -> 1 .. n],
           NEW s \in 1 .. n, NEW f, Rounds(n, E, src, dst, s, f)
    PROVE  Complete(n, E, src, dst, s, f)
  <1>. DEFINE Stable(S) == \A e \in E : src[e] \in S => dst[e] \in S
  <1>1. f \in [1 .. n -> SUBSET (1 .. n)] /\ n >= 1 /\ 1 \in 1 .. n /\ n \in 1 .. n
    BY DEF Rounds
  <1>2. f[1] = {s}
    BY <1>1 DEF Rounds
  <1>3. \A k \in 1 .. n - 1 : k \in 1 .. n /\ k + 1 \in 1 .. n
                              /\ f[k + 1] = Round(E, src, dst, f[k])
    <2>1. \A k \in 1 .. n : f[k] = IF k = 1 THEN {s} ELSE Round(E, src, dst, f[k - 1])
      BY <1>1 DEF Rounds
    <2>2. \A k \in 1 .. n - 1 : /\ k \in 1 .. n /\ k + 1 \in 1 .. n /\ k + 1 # 1
                                /\ (k + 1) - 1 = k
      BY <1>1
    <2>. QED
      BY <2>1, <2>2
  <1>4. \A k \in 1 .. n : f[k] \in SUBSET (1 .. n) /\ IsFiniteSet(f[k]) /\ Cardinality(f[k]) \in Nat
    <2>1. IsFiniteSet(1 .. n)
      BY FS_Interval
    <2>2. \A k \in 1 .. n : f[k] \in SUBSET (1 .. n)
      BY <1>1
    <2>. QED
      BY <2>1, <2>2, FS_Subset, FS_CardinalityType
  <1>5. f[n] \subseteq Reached(n, E, src, dst, s)
    <2>. DEFINE R == Reached(n, E, src, dst, s)
                T == {k \in 1 .. n : f[k] \subseteq R}
    <2>1. s \in R /\ Stable(R)
      BY ReachedFacts
    <2>. HIDE DEF R
    <2>2. 1 \in T
      BY <1>1, <1>2, <2>1
    <2>3. ASSUME NEW k \in 1 .. n - 1, k \in T
          PROVE  k + 1 \in T
      <3>1. f[k] \in SUBSET (1 .. n) /\ f[k] \subseteq R /\ k + 1 \in 1 .. n
            /\ f[k + 1] = Round(E, src, dst, f[k])
        BY <1>3, <1>4, <2>3
      <3>2. Round(E, src, dst, f[k]) \subseteq R
        BY <2>1, <3>1, RoundFacts
      <3>. QED
        BY <3>1, <3>2
    <2>4. 1 .. n \subseteq T
      <3>. HIDE DEF T
      <3>. QED
        BY <2>2, <2>3, StepsCover
    <2>5. n \in T
      BY <1>1, <2>4
    <2>. QED
      BY ONLY <2>5 DEF R
  <1>6. s \in f[n] /\ Stable(f[n])
    <2>. DEFINE T == {k \in 1 .. n : s \in f[k] /\ (Stable(f[k]) \/ Cardinality(f[k]) >= k)}
    <2>1. 1 \in T
      <3>1. Cardinality(f[1]) = 1 /\ s \in f[1]
        BY <1>2, FS_Singleton
      <3>2. Cardinality(f[1]) >= 1
        BY <3>1
      <3>. QED
        BY ONLY <1>1, <3>1, <3>2
    <2>2. ASSUME NEW k \in 1 .. n - 1, k \in T
          PROVE  k + 1 \in T
      <3>. DEFINE S == f[k]
      <3>1. /\ S \in SUBSET (1 .. n) /\ k + 1 \in 1 .. n /\ f[k + 1] = Round(E, src, dst, S)
            /\ k \in 1 .. n /\ s \in S /\ (Stable(S) \/ Cardinality(S) >= k)
            /\ IsFiniteSet(S) /\ Cardinality(S) \in Nat
        BY <1>3, <1>4, <2>2
      <3>. HIDE DEF S
      <3>2. CASE Stable(S)
        <4>1. f[k + 1] = S
          BY <3>1, <3>2, RoundFacts
        <4>. QED
          BY <3>1, <3>2, <4>1
      <3>3. CASE ~Stable(S)
        <4>1. PICK e \in E : src[e] \in S /\ dst[e] \notin S
          BY <3>3
        <4>2. S \cup {dst[e]} \subseteq f[k + 1]
          <5>1. S \subseteq Round(E, src, dst, S) /\ dst[e] \in Round(E, src, dst, S)
            BY ONLY <3>1, <4>1, RoundFacts, n \in Nat, src \in [E -> 1 .. n], dst \in [E -> 1 .. n]
          <5>. QED
            BY <3>1, <5>1
        <4>3. IsFiniteSet(f[k + 1]) /\ Cardinality(f[k + 1]) \in Nat
          BY <1>4, <3>1
        <4>4. Cardinality(S \cup {dst[e]}) = Cardinality(S) + 1
          BY <3>1, <4>1, FS_AddElement
        <4>5. Cardinality(S \cup {dst[e]}) <= Cardinality(f[k + 1])
          BY <4>2, <4>3, FS_Subset
        <4>6. Cardinality(f[k + 1]) >= k + 1
          BY <3>1, <3>3, <4>3, <4>4, <4>5
        <4>7. s \in f[k + 1]
          BY <3>1, <4>2
        <4>. QED
          BY <3>1, <4>6, <4>7
      <3>. QED
        BY <3>2, <3>3
    <2>3. 1 .. n \subseteq T
      <3>. HIDE DEF T
      <3>. QED
        BY <2>1, <2>2, StepsCover
    <2>4. s \in f[n] /\ (Stable(f[n]) \/ Cardinality(f[n]) >= n)
      BY <1>1, <2>3
    <2>5. CASE Cardinality(f[n]) >= n
      <3>1. IsFiniteSet(1 .. n) /\ Cardinality(1 .. n) = n
        BY <1>1, FS_Interval
      <3>2. f[n] \in SUBSET (1 .. n) /\ Cardinality(f[n]) \in Nat
        BY <1>1, <1>4
      <3>3. Cardinality(f[n]) <= Cardinality(1 .. n)
        BY <3>1, <3>2, FS_Subset
      <3>4. Cardinality(1 .. n) = Cardinality(f[n])
        BY <2>5, <3>1, <3>2, <3>3
      <3>5. f[n] = 1 .. n
        BY <3>1, <3>2, <3>4, FS_Subset
      <3>. QED
        BY <2>4, <3>5
    <2>. QED
      BY <2>4, <2>5
  <1>7. Reached(n, E, src, dst, s) \subseteq f[n]
    BY <1>1, <1>4, <1>6, ReachedLeast
  <1>. QED
    BY <1>5, <1>7 DEF Complete

\* The recursion that computes the sets has a solution.
LEMMA RoundsExist ==
    ASSUME NEW n \in Nat, NEW E, NEW src \in [E -> 1 .. n], NEW dst \in [E -> 1 .. n],
           NEW s \in 1 .. n
    PROVE  \E f : Rounds(n, E, src, dst, s, f)
  <1>. DEFINE Upto(m, f) == /\ f \in [1 .. m -> SUBSET (1 .. n)]
                            /\ \A k \in 1 .. m : f[k] = IF k = 1 THEN {s}
                                                         ELSE Round(E, src, dst, f[k - 1])
              T == {m \in Nat : \E f : Upto(m, f)}
  <1>1. 0 \in T
    <2>1. Upto(0, [k \in 1 .. 0 |-> {}])
      OBVIOUS
    <2>. QED
      BY <2>1
  <1>2. ASSUME NEW m \in Nat, m \in T
        PROVE  m + 1 \in T
    <2>1. PICK f : Upto(m, f)
      BY <1>2
    <2>. DEFINE g == [k \in 1 .. m + 1 |-> IF k <= m THEN f[k]
                        ELSE IF k = 1 THEN {s} ELSE Round(E, src, dst, f[k - 1])]
    <2>2. g \in [1 .. m + 1 -> SUBSET (1 .. n)]
      <3>1. ASSUME NEW k \in 1 .. m + 1
            PROVE  g[k] \in SUBSET (1 .. n)
        <4>1. CASE k <= m
          BY <2>1, <4>1
        <4>2. CASE k > m /\ k = 1
          BY <4>2
        <4>3. CASE k > m /\ k # 1
          <5>1. k - 1 \in 1 .. m /\ g[k] = Round(E, src, dst, f[k - 1])
            BY <4>3
          <5>2. f[k - 1] \in SUBSET (1 .. n)
            BY <2>1, <5>1
          <5>. QED
            BY <5>1, <5>2, RoundFacts
        <4>. QED
          BY <4>1, <4>2, <4>3
      <3>. QED
        BY <3>1
    <2>3. ASSUME NEW k \in 1 .. m + 1
          PROVE  g[k] = IF k = 1 THEN {s} ELSE Round(E, src, dst, g[k - 1])
      <3>1. CASE k <= m
        <4>1. k \in 1 .. m /\ (k # 1 => k - 1 \in 1 .. m /\ k - 1 \in 1 .. m + 1 /\ k - 1 <= m)
          BY <3>1
        <4>. QED
          BY <2>1, <3>1, <4>1
      <3>2. CASE k > m
        <4>1. k # 1 => k - 1 \in 1 .. m + 1 /\ k - 1 <= m
          BY <3>2
        <4>. QED
          BY <3>2, <4>1
      <3>. QED
        BY <3>1, <3>2
    <2>. HIDE DEF g
    <2>4. Upto(m + 1, g)
      BY <2>2, <2>3
    <2>. HIDE DEF Upto
    <2>5. \E h : Upto(m + 1, h)
      BY <2>4
    <2>. QED
      BY <2>5
  <1>3. Nat \subseteq T
    <2>. HIDE DEF T
    <2>. QED
      BY <1>1, <1>2, NatCovered
  <1>4. PICK f : Upto(n, f)
    BY <1>3
  <1>5. f = [k \in 1 .. n |-> IF k = 1 THEN {s} ELSE Round(E, src, dst, f[k - 1])]
    BY <1>4
  <1>. QED
    BY <1>4, <1>5 DEF Rounds

\* Every solution consists of sets of nodes.
LEMMA RoundsTyped ==
    ASSUME NEW n \in Nat, NEW E, NEW src \in [E -> 1 .. n], NEW dst \in [E -> 1 .. n],
           NEW s \in 1 .. n, NEW f,
           f = [k \in 1 .. n |-> IF k = 1 THEN {s} ELSE Round(E, src, dst, f[k - 1])]
    PROVE  Rounds(n, E, src, dst, s, f)
  <1>. DEFINE T == {k \in 1 .. n : f[k] \in SUBSET (1 .. n)}
  <1>1. \A k \in 1 .. n : f[k] = IF k = 1 THEN {s} ELSE Round(E, src, dst, f[k - 1])
    OBVIOUS
  <1>2. 1 \in T
    BY <1>1
  <1>3. ASSUME NEW k \in 1 .. n - 1, k \in T
        PROVE  k + 1 \in T
    <2>1. k + 1 \in 1 .. n /\ k + 1 # 1 /\ (k + 1) - 1 = k /\ f[k] \in SUBSET (1 .. n)
      BY <1>3
    <2>2. f[k + 1] = Round(E, src, dst, f[k])
      BY <1>1, <2>1
    <2>3. Round(E, src, dst, f[k]) \in SUBSET (1 .. n)
      <3>. DEFINE S == f[k]
      <3>1. S \in SUBSET (1 .. n)
        BY <2>1
      <3>. HIDE DEF S
      <3>. QED
        BY ONLY <3>1, RoundFacts, n \in Nat, src \in [E -> 1 .. n], dst \in [E -> 1 .. n] DEF S
    <2>. QED
      BY <2>1, <2>2, <2>3
  <1>4. 1 .. n \subseteq T
    <2>. HIDE DEF T
    <2>. QED
      BY <1>2, <1>3, StepsCover
  <1>5. \A k \in 1 .. n : f[k] \in SUBSET (1 .. n)
    BY <1>4
  <1>6. DOMAIN f = 1 .. n /\ f = [k \in 1 .. n |-> f[k]]
    OBVIOUS
  <1>7. f \in [1 .. n -> SUBSET (1 .. n)]
    BY ONLY <1>5, <1>6
  <1>. QED
    BY <1>7 DEF Rounds

\* Paths can be followed from either end.
LEMMA ReachedDual ==
    ASSUME NEW n \in Nat, NEW E, NEW src \in [E -> 1 .. n], NEW dst \in [E -> 1 .. n],
           NEW s \in 1 .. n, NEW t \in 1 .. n, t \in Reached(n, E, src, dst, s)
    PROVE  s \in Reached(n, E, dst, src, t)
  <1>. DEFINE S == {x \in 1 .. n : x \notin Reached(n, E, dst, src, t)}
  <1>1. /\ t \in Reached(n, E, dst, src, t)
        /\ \A e \in E : dst[e] \in Reached(n, E, dst, src, t) => src[e] \in Reached(n, E, dst, src, t)
    BY ReachedFacts
  <1>2. SUFFICES ASSUME s \in S
                 PROVE  FALSE
    OBVIOUS
  <1>3. S \in SUBSET (1 .. n) /\ \A e \in E : src[e] \in S => dst[e] \in S
    BY <1>1
  <1>4. t \notin S
    BY <1>1
  <1>. HIDE DEF S
  <1>5. Reached(n, E, src, dst, s) \subseteq S
    BY <1>2, <1>3, ReachedLeast
  <1>. QED
    BY <1>4, <1>5

-----------------------------------------------------------------------------
(* Paths of the flowgraph that avoid some edges.                           *)

\* The ends of an edge, and the ends of all edges but some as functions.
From(e) == flow.edges[e].from
To(e) == flow.edges[e].to

Froms(off) == [e \in Input \ off |-> From(e)]
Tos(off) == [e \in Input \ off |-> To(e)]

\* The flowgraph compute_sese works on: every node is reached from the root, and
\* the synthetic exit has one edge out, to the root.  Original edges avoid it.
Net ==
    /\ flow.n \in Nat /\ flow.root \in 1 .. flow.n - 1 /\ Len(flow.edges) \in Nat
    /\ \A e \in Input : From(e) \in Nodes /\ To(e) \in Nodes
    /\ \A e \in Original : From(e) \in 1 .. flow.n - 1 /\ To(e) \in 1 .. flow.n - 1
    /\ \A x \in Nodes : x \in Reached(flow.n, Input, Froms({}), Tos({}), flow.root)
    /\ \E e \in Input \ Original : /\ From(e) = flow.n /\ To(e) = flow.root
                                   /\ \A d \in Input : From(d) = flow.n => d = e

\* A path from x to y that takes no edge of off.
Path(off, x, y) == y \in Reached(flow.n, Input \ off, Froms(off), Tos(off), x)

\* The types the lemmas on paths need.
LEMMA EndTypes ==
    ASSUME Net, NEW off
    PROVE  /\ flow.n \in Nat /\ flow.n \in Nodes /\ flow.root \in Nodes /\ flow.n # flow.root
           /\ Froms(off) \in [Input \ off -> 1 .. flow.n]
           /\ Tos(off) \in [Input \ off -> 1 .. flow.n]
           /\ \A e \in Input \ off : Froms(off)[e] = From(e) /\ Tos(off)[e] = To(e)
  BY DEF Net, Froms, Tos, Nodes

\* Paths begin, stay in the graph, and follow edges.
LEMMA PathSelf == ASSUME Net, NEW off, NEW x \in Nodes PROVE Path(off, x, x)
  BY EndTypes, ReachedFacts DEF Path, Nodes

\* A path ends in a node.
LEMMA PathNodes ==
    ASSUME Net, NEW off, NEW x \in Nodes, NEW y, Path(off, x, y) PROVE y \in Nodes
  BY EndTypes, ReachedFacts DEF Path, Nodes

\* A path goes on along an edge that is not off.
LEMMA PathEdge ==
    ASSUME Net, NEW off, NEW x \in Nodes, NEW e \in Input \ off, Path(off, x, From(e))
    PROVE  Path(off, x, To(e))
  <1>1. Froms(off)[e] = From(e) /\ Tos(off)[e] = To(e)
    BY EndTypes
  <1>. DEFINE R == Reached(flow.n, Input \ off, Froms(off), Tos(off), x)
  <1>2. \A d \in Input \ off : Froms(off)[d] \in R => Tos(off)[d] \in R
    BY EndTypes, ReachedFacts DEF Nodes
  <1>. QED
    BY <1>1, <1>2 DEF Path

\* What a set of nodes holds that no other edge leaves.
LEMMA PathInside ==
    ASSUME Net, NEW off, NEW x \in Nodes, NEW y, Path(off, x, y),
           NEW S \in SUBSET Nodes, x \in S, \A e \in Input \ off : From(e) \in S => To(e) \in S
    PROVE  y \in S
  <1>1. \A e \in Input \ off : Froms(off)[e] \in S => Tos(off)[e] \in S
    <2>1. \A e \in Input \ off : Froms(off)[e] = From(e) /\ Tos(off)[e] = To(e)
      BY EndTypes
    <2>. QED
      BY <2>1
  <1>2. Reached(flow.n, Input \ off, Froms(off), Tos(off), x) \subseteq S
    BY <1>1, ReachedLeast DEF Nodes
  <1>. QED
    BY <1>2 DEF Path

\* Paths can be joined, and take nothing that is not allowed to fewer.
LEMMA PathTrans ==
    ASSUME Net, NEW off, NEW x \in Nodes, NEW y \in Nodes, NEW z, Path(off, x, y), Path(off, y, z)
    PROVE  Path(off, x, z)
  <1>. DEFINE S == {v \in Nodes : Path(off, x, v)}
  <1>1. S \in SUBSET Nodes /\ y \in S
    OBVIOUS
  <1>2. \A e \in Input \ off : From(e) \in S => To(e) \in S
    BY PathEdge, PathNodes
  <1>3. z \in S
    <2>. HIDE DEF S
    <2>. QED
      BY <1>1, <1>2, PathInside
  <1>. QED
    BY <1>3

\* A path that avoids more edges avoids these.
LEMMA PathLess ==
    ASSUME Net, NEW off, NEW more, off \subseteq more, NEW x \in Nodes, NEW y, Path(more, x, y)
    PROVE  Path(off, x, y)
  <1>. DEFINE S == {v \in Nodes : Path(off, x, v)}
  <1>1. S \in SUBSET Nodes /\ x \in S
    BY PathSelf
  <1>2. \A e \in Input \ more : From(e) \in S => To(e) \in S
    BY PathEdge, PathNodes
  <1>3. y \in S
    <2>. HIDE DEF S
    <2>. QED
      BY <1>1, <1>2, PathInside
  <1>. QED
    BY <1>3

\* A path that cannot do without b takes it: up to the first time, and from the
\* last time on, it does without.
LEMMA PathBefore ==
    ASSUME Net, NEW off, NEW b \in Input, NEW x \in Nodes, NEW y, Path(off, x, y),
           ~Path(off \cup {b}, x, y)
    PROVE  Path(off \cup {b}, x, From(b))
  <1>1. SUFFICES ASSUME ~Path(off \cup {b}, x, From(b))
                 PROVE  FALSE
    OBVIOUS
  <1>. DEFINE S == {v \in Nodes : Path(off \cup {b}, x, v)}
  <1>2. S \in SUBSET Nodes /\ x \in S /\ y \notin S
    BY PathSelf
  <1>3. \A e \in Input \ off : From(e) \in S => To(e) \in S
    <2>1. SUFFICES ASSUME NEW e \in Input \ off, From(e) \in S
                   PROVE  To(e) \in S
      OBVIOUS
    <2>2. e # b
      BY <1>1, <2>1
    <2>3. e \in Input \ (off \cup {b})
      BY <2>2
    <2>. QED
      BY <2>1, <2>3, PathEdge, PathNodes
  <1>4. y \in S
    <2>. HIDE DEF S
    <2>. QED
      BY <1>2, <1>3, PathInside
  <1>. QED
    BY <1>2, <1>4

\* The last part of a path that cannot do without b.
LEMMA PathAfter ==
    ASSUME Net, NEW off, NEW b \in Input, NEW x \in Nodes, NEW y, Path(off, x, y),
           ~Path(off \cup {b}, x, y)
    PROVE  Path(off \cup {b}, To(b), y)
  <1>. DEFINE S == {v \in Nodes : Path(off \cup {b}, x, v) \/ Path(off \cup {b}, To(b), v)}
  <1>1. To(b) \in Nodes
    BY DEF Net
  <1>2. S \in SUBSET Nodes /\ x \in S /\ To(b) \in S
    BY <1>1, PathSelf
  <1>3. \A e \in Input \ off : From(e) \in S => To(e) \in S
    <2>1. SUFFICES ASSUME NEW e \in Input \ off, From(e) \in S
                   PROVE  To(e) \in S
      OBVIOUS
    <2>2. CASE e = b
      BY <1>2, <2>2
    <2>3. CASE e # b
      <3>1. e \in Input \ (off \cup {b})
        BY <2>3
      <3>. QED
        BY <1>1, <2>1, <3>1, PathEdge, PathNodes
    <2>. QED
      BY <2>2, <2>3
  <1>4. y \in S
    <2>. HIDE DEF S
    <2>. QED
      BY <1>2, <1>3, PathInside
  <1>. QED
    BY <1>4

-----------------------------------------------------------------------------
\* The worklist of the code reads the paths forwards and backwards.
LEMMA ReachableFrom ==
    ASSUME Net, NEW off, NEW x \in Nodes
    PROVE  reachable(x, off, FALSE) = {y \in Nodes : Path(off, x, y)}
  <1>. DEFINE E == Input \ off
              Code(f) == [k \in 1 .. flow.n |->
                            IF k = 1 THEN {x}
                            ELSE f[k - 1] \cup {flow.edges[e].to :
                                   e \in {d \in Input \ off : flow.edges[d].from \in f[k - 1]}}]
              seen == CHOOSE f : f = Code(f)
  <1>1. /\ flow.n \in Nat /\ flow.n \in 1 .. flow.n /\ x \in 1 .. flow.n
        /\ Froms(off) \in [E -> 1 .. flow.n] /\ Tos(off) \in [E -> 1 .. flow.n]
    BY EndTypes DEF Nodes
  <1>2. ASSUME NEW f
        PROVE  Code(f) = [k \in 1 .. flow.n |->
                            IF k = 1 THEN {x} ELSE Round(E, Froms(off), Tos(off), f[k - 1])]
    <2>1. ASSUME NEW S
          PROVE  Round(E, Froms(off), Tos(off), S) =
                   S \cup {flow.edges[e].to : e \in {d \in Input \ off : flow.edges[d].from \in S}}
      <3>1. \A e \in E : Froms(off)[e] = flow.edges[e].from /\ Tos(off)[e] = flow.edges[e].to
        BY DEF Froms, Tos, From, To
      <3>. QED
        BY <3>1 DEF Round
    <2>. QED
      BY <2>1
  <1>3. \E f : f = Code(f)
    <2>1. PICK f : Rounds(flow.n, E, Froms(off), Tos(off), x, f)
      <3>. HIDE DEF E
      <3>. QED
        BY <1>1, RoundsExist
    <2>2. f = [k \in 1 .. flow.n |-> IF k = 1 THEN {x} ELSE Round(E, Froms(off), Tos(off), f[k - 1])]
      BY <2>1 DEF Rounds
    <2>3. f = Code(f)
      BY <1>2, <2>2
    <2>. HIDE DEF Code
    <2>. QED
      BY <2>3
  <1>4. reachable(x, off, FALSE) = seen[flow.n]
    BY DEF reachable
  <1>5. seen = Code(seen)
    <2>. HIDE DEF Code
    <2>. QED
      BY <1>3
  <1>. HIDE DEF seen
  <1>6. seen = [k \in 1 .. flow.n |-> IF k = 1 THEN {x} ELSE Round(E, Froms(off), Tos(off), seen[k - 1])]
    <2>. HIDE DEF Code
    <2>. QED
      BY <1>2, <1>5
  <1>7. seen[flow.n] = Reached(flow.n, E, Froms(off), Tos(off), x)
    <2>. DEFINE n == flow.n
                src == Froms(off)
                dst == Tos(off)
    <2>1. /\ n \in Nat /\ x \in 1 .. n /\ src \in [E -> 1 .. n] /\ dst \in [E -> 1 .. n]
          /\ seen = [k \in 1 .. n |-> IF k = 1 THEN {x} ELSE Round(E, src, dst, seen[k - 1])]
      BY <1>1, <1>6
    <2>. HIDE DEF E, n, src, dst
    <2>2. Rounds(n, E, src, dst, x, seen)
      BY <2>1, RoundsTyped
    <2>3. Complete(n, E, src, dst, x, seen)
      BY <2>1, <2>2, RoundsReach
    <2>. QED
      BY <2>3 DEF n, src, dst, Complete
  <1>8. Reached(flow.n, E, Froms(off), Tos(off), x) = {y \in Nodes : Path(off, x, y)}
    <2>1. Reached(flow.n, E, Froms(off), Tos(off), x) \subseteq 1 .. flow.n
      BY DEF Reached
    <2>. QED
      BY <2>1 DEF Path, Nodes
  <1>. QED
    BY <1>4, <1>7, <1>8

\* With reverse, reachable finds the nodes that have a path to its start.
LEMMA ReachableTo ==
    ASSUME Net, NEW off, NEW x \in Nodes
    PROVE  reachable(x, off, TRUE) = {y \in Nodes : Path(off, y, x)}
  <1>. DEFINE E == Input \ off
              Code(f) == [k \in 1 .. flow.n |->
                            IF k = 1 THEN {x}
                            ELSE f[k - 1] \cup {flow.edges[e].from :
                                   e \in {d \in Input \ off : flow.edges[d].to \in f[k - 1]}}]
              seen == CHOOSE f : f = Code(f)
  <1>1. /\ flow.n \in Nat /\ flow.n \in 1 .. flow.n /\ x \in 1 .. flow.n
        /\ Froms(off) \in [E -> 1 .. flow.n] /\ Tos(off) \in [E -> 1 .. flow.n]
    BY EndTypes DEF Nodes
  <1>2. ASSUME NEW f
        PROVE  Code(f) = [k \in 1 .. flow.n |->
                            IF k = 1 THEN {x} ELSE Round(E, Tos(off), Froms(off), f[k - 1])]
    <2>1. ASSUME NEW S
          PROVE  Round(E, Tos(off), Froms(off), S) =
                   S \cup {flow.edges[e].from : e \in {d \in Input \ off : flow.edges[d].to \in S}}
      <3>1. \A e \in E : Froms(off)[e] = flow.edges[e].from /\ Tos(off)[e] = flow.edges[e].to
        BY DEF Froms, Tos, From, To
      <3>. QED
        BY <3>1 DEF Round
    <2>. QED
      BY <2>1
  <1>3. \E f : f = Code(f)
    <2>1. PICK f : Rounds(flow.n, E, Tos(off), Froms(off), x, f)
      <3>. HIDE DEF E
      <3>. QED
        BY <1>1, RoundsExist
    <2>2. f = [k \in 1 .. flow.n |-> IF k = 1 THEN {x} ELSE Round(E, Tos(off), Froms(off), f[k - 1])]
      BY <2>1 DEF Rounds
    <2>3. f = Code(f)
      BY <1>2, <2>2
    <2>. HIDE DEF Code
    <2>. QED
      BY <2>3
  <1>4. reachable(x, off, TRUE) = seen[flow.n]
    BY DEF reachable
  <1>5. seen = Code(seen)
    <2>. HIDE DEF Code
    <2>. QED
      BY <1>3
  <1>. HIDE DEF seen
  <1>6. seen = [k \in 1 .. flow.n |-> IF k = 1 THEN {x} ELSE Round(E, Tos(off), Froms(off), seen[k - 1])]
    <2>. HIDE DEF Code
    <2>. QED
      BY <1>2, <1>5
  <1>7. seen[flow.n] = Reached(flow.n, E, Tos(off), Froms(off), x)
    <2>. DEFINE n == flow.n
                src == Tos(off)
                dst == Froms(off)
    <2>1. /\ n \in Nat /\ x \in 1 .. n /\ src \in [E -> 1 .. n] /\ dst \in [E -> 1 .. n]
          /\ seen = [k \in 1 .. n |-> IF k = 1 THEN {x} ELSE Round(E, src, dst, seen[k - 1])]
      BY <1>1, <1>6
    <2>. HIDE DEF E, n, src, dst
    <2>2. Rounds(n, E, src, dst, x, seen)
      BY <2>1, RoundsTyped
    <2>3. Complete(n, E, src, dst, x, seen)
      BY <2>1, <2>2, RoundsReach
    <2>. QED
      BY <2>3 DEF n, src, dst, Complete
  <1>8. Reached(flow.n, E, Tos(off), Froms(off), x) = {y \in Nodes : Path(off, y, x)}
    <2>1. Reached(flow.n, E, Tos(off), Froms(off), x) \subseteq Nodes
      BY DEF Reached, Nodes
    <2>2. ASSUME NEW y \in Nodes
          PROVE  y \in Reached(flow.n, E, Tos(off), Froms(off), x) <=> Path(off, y, x)
      <3>. HIDE DEF E
      <3>1. y \in 1 .. flow.n
        BY DEF Nodes
      <3>2. y \in Reached(flow.n, E, Tos(off), Froms(off), x)
              => x \in Reached(flow.n, E, Froms(off), Tos(off), y)
        BY <1>1, <3>1, ReachedDual
      <3>3. x \in Reached(flow.n, E, Froms(off), Tos(off), y)
              => y \in Reached(flow.n, E, Tos(off), Froms(off), x)
        BY <1>1, <3>1, ReachedDual
      <3>. QED
        BY <3>2, <3>3 DEF Path, E
    <2>. QED
      BY <2>1, <2>2
  <1>. QED
    BY <1>4, <1>7, <1>8

-----------------------------------------------------------------------------
(* Cycles: the predicate of the code against the definition.               *)

\* The nodes where edges of D start, and where they end.
FromSet(D) == {From(e) : e \in D}
ToSetOf(D) == {To(e) : e \in D}

\* No two edges of D start, and no two end, in the same node.
Disjoint(D) == \A d, e \in D : d # e => From(d) # From(e) /\ To(d) # To(e)

\* Closed of CycleClasses in these terms.
LEMMA ClosedIs == \A C : Closed(C) <=> Disjoint(C) /\ FromSet(C) = ToSetOf(C)
  BY DEF Closed, Disjoint, FromSet, ToSetOf, From, To

\* There are finitely many edges.
LEMMA EdgesFinite ==
    ASSUME Net, NEW D \in SUBSET Input PROVE IsFiniteSet(D) /\ Cardinality(D) \in Nat
  <1>1. IsFiniteSet(Input)
    <2>. DEFINE m == Len(flow.edges)
    <2>1. m \in Int /\ 1 \in Int
      BY DEF Net
    <2>. HIDE DEF m
    <2>2. IsFiniteSet(1 .. m)
      BY <2>1, FS_Interval
    <2>. QED
      BY <2>2 DEF Input, m
  <1>. QED
    BY <1>1, FS_Subset, FS_CardinalityType

\* As many nodes as edges.
LEMMA EndsCounted ==
    ASSUME Net, NEW D \in SUBSET Input, Disjoint(D)
    PROVE  /\ IsFiniteSet(FromSet(D)) /\ Cardinality(FromSet(D)) = Cardinality(D)
           /\ IsFiniteSet(ToSetOf(D)) /\ Cardinality(ToSetOf(D)) = Cardinality(D)
  <1>. DEFINE f == [e \in D |-> From(e)]
              g == [e \in D |-> To(e)]
  <1>1. f \in Surjection(D, FromSet(D)) /\ f \in Injection(D, FromSet(D))
    <2>1. /\ f \in [D -> FromSet(D)] /\ \A x \in FromSet(D) : \E e \in D : f[e] = x
          /\ \A d, e \in D : f[d] = f[e] => d = e
      BY DEF FromSet, Disjoint
    <2>. HIDE DEF f
    <2>. QED
      BY <2>1 DEF Surjection, Injection, IsInjective
  <1>2. g \in Surjection(D, ToSetOf(D)) /\ g \in Injection(D, ToSetOf(D))
    <2>1. /\ g \in [D -> ToSetOf(D)] /\ \A x \in ToSetOf(D) : \E e \in D : g[e] = x
          /\ \A d, e \in D : g[d] = g[e] => d = e
      BY DEF ToSetOf, Disjoint
    <2>. HIDE DEF g
    <2>. QED
      BY <2>1 DEF Surjection, Injection, IsInjective
  <1>. HIDE DEF f, g
  <1>3. IsFiniteSet(D)
    BY EdgesFinite
  <1>. QED
    BY <1>1, <1>2, <1>3, FS_Surjection

\* Disjoint edges that end only where edges of theirs start, start nowhere else.
LEMMA EndsEqual ==
    ASSUME Net, NEW D \in SUBSET Input, Disjoint(D), ToSetOf(D) \subseteq FromSet(D)
    PROVE  ToSetOf(D) = FromSet(D)
  <1>1. /\ IsFiniteSet(FromSet(D)) /\ Cardinality(FromSet(D)) = Cardinality(ToSetOf(D))
    BY EndsCounted
  <1>. QED
    BY <1>1, FS_Subset

\* A cycle through a goes on through b if no path closes a without b.
LEMMA CyclePasses ==
    ASSUME Net, NEW a \in Input, NEW b \in Input, ~Path({b}, To(a), From(a)),
           NEW C \in Cycles, a \in C
    PROVE  b \in C
  <1>1. SUFFICES ASSUME b \notin C
                 PROVE  FALSE
    OBVIOUS
  <1>2. /\ C \in SUBSET Input /\ Disjoint(C) /\ FromSet(C) = ToSetOf(C)
        /\ \A D \in SUBSET C : D = {} \/ D = C \/ ~Closed(D)
    BY ClosedIs DEF Cycles
  <1>. DEFINE D == {e \in C : Path({b}, To(a), From(e))}
  <1>3. To(a) \in Nodes
    BY DEF Net
  <1>4. D \in SUBSET C /\ D \in SUBSET Input /\ a \notin D
    BY <1>2
  <1>5. D # {}
    <2>1. To(a) \in FromSet(C)
      BY <1>2 DEF ToSetOf
    <2>2. PICK e \in C : From(e) = To(a)
      BY <2>1 DEF FromSet
    <2>. QED
      BY <1>3, <2>2, PathSelf
  <1>6. Disjoint(D)
    BY <1>2, <1>4 DEF Disjoint
  <1>7. ToSetOf(D) \subseteq FromSet(D)
    <2>1. SUFFICES ASSUME NEW e \in D
                   PROVE  To(e) \in FromSet(D)
      BY DEF ToSetOf
    <2>2. e \in Input \ {b} /\ e \in C /\ Path({b}, To(a), From(e))
      BY <1>1, <1>2
    <2>3. Path({b}, To(a), To(e))
      BY <1>3, <2>2, PathEdge
    <2>4. To(e) \in FromSet(C)
      BY <1>2, <2>2 DEF ToSetOf
    <2>5. PICK d \in C : From(d) = To(e)
      BY <2>4 DEF FromSet
    <2>. QED
      BY <2>3, <2>5 DEF FromSet
  <1>8. Closed(D)
    <2>. HIDE DEF D
    <2>. QED
      BY <1>4, <1>6, <1>7, EndsEqual, ClosedIs
  <1>. QED
    BY <1>2, <1>4, <1>5, <1>8

-----------------------------------------------------------------------------
\* The edges of P lead from s to t, and every one of them is needed.
Joins(P, s, t) ==
    \A S \in SUBSET Nodes : s \in S /\ (\A e \in P : From(e) \in S => To(e) \in S) => t \in S

\* P joins s to t, and no longer without any one of its edges.
MinJoins(P, s, t) ==
    P \in SUBSET Input /\ Joins(P, s, t) /\ \A e \in P : ~Joins(P \ {e}, s, t)

\* What joins s to t has a part that does so minimally.
LEMMA MinJoinsExists ==
    ASSUME Net, NEW Q \in SUBSET Input, NEW s, NEW t, Joins(Q, s, t)
    PROVE  \E P \in SUBSET Q : MinJoins(P, s, t)
  <1>. DEFINE F == {P \in SUBSET Q : Joins(P, s, t)}
              T == {Cardinality(P) : P \in F}
  <1>1. \A P \in F : P \in SUBSET Input /\ IsFiniteSet(P) /\ Cardinality(P) \in Nat
    BY EdgesFinite
  <1>2. T \in SUBSET Nat /\ T # {}
    BY <1>1
  <1>3. PICK c \in T : \A k \in T : c <= k
    <2>. HIDE DEF T
    <2>. QED
      BY <1>2, LeastNat
  <1>4. PICK P \in F : Cardinality(P) = c
    OBVIOUS
  <1>5. ASSUME NEW e \in P, Joins(P \ {e}, s, t)
        PROVE  FALSE
    <2>1. P \ {e} \in F
      BY <1>4, <1>5
    <2>2. Cardinality(P \ {e}) = Cardinality(P) - 1
      BY <1>1, <1>4, FS_RemoveElement
    <2>3. c <= Cardinality(P \ {e})
      BY <1>3, <2>1
    <2>4. c \in Nat
      BY <1>2
    <2>. QED
      BY <1>4, <2>2, <2>3, <2>4
  <1>6. P \in SUBSET Q /\ P \in SUBSET Input /\ Joins(P, s, t)
    BY <1>4
  <1>. QED
    BY <1>5, <1>6 DEF MinJoins

\* The cut at an edge of such a set.
Cut(P, s, t, e, S) ==
    /\ S \in SUBSET Nodes /\ s \in S /\ t \notin S /\ From(e) \in S /\ To(e) \notin S
    /\ \A d \in P : d # e /\ From(d) \in S => To(d) \in S

\* Every edge of a minimal P is the only one out of some set that holds s and not t.
LEMMA CutExists ==
    ASSUME NEW P, NEW s, NEW t, MinJoins(P, s, t), NEW e \in P
    PROVE  \E S : Cut(P, s, t, e, S)
  <1>1. PICK S \in SUBSET Nodes : /\ s \in S /\ t \notin S
                                  /\ \A d \in P \ {e} : From(d) \in S => To(d) \in S
    BY DEF MinJoins, Joins
  <1>2. From(e) \in S /\ To(e) \notin S
    BY <1>1 DEF MinJoins, Joins
  <1>. QED
    BY <1>1, <1>2 DEF Cut

\* A set of nodes that the edges of P do not leave holds t with s.
LEMMA JoinsUse ==
    ASSUME NEW P, NEW s, NEW t, MinJoins(P, s, t), NEW S \in SUBSET Nodes, s \in S,
           \A e \in P : From(e) \in S => To(e) \in S
    PROVE  t \in S
  BY DEF MinJoins, Joins

\* So a minimal P is a path: no node of it is left, or entered, twice.
LEMMA MinJoinsShape ==
    ASSUME Net, NEW P, NEW s \in Nodes, NEW t \in Nodes, MinJoins(P, s, t)
    PROVE  /\ Disjoint(P)
           /\ \A e \in P : From(e) # t /\ To(e) # s
           /\ \A e \in P : To(e) # t => To(e) \in FromSet(P)
           /\ \A e \in P : From(e) # s => From(e) \in ToSetOf(P)
           /\ s # t => s \in FromSet(P) /\ t \in ToSetOf(P)
  <1>0. P \in SUBSET Input /\ \A e \in P : From(e) \in Nodes /\ To(e) \in Nodes
    BY DEF Net, MinJoins
  <1>1. ASSUME NEW d \in P, NEW e \in P, d # e
        PROVE  From(d) # From(e) /\ To(d) # To(e)
    <2>1. PICK S : Cut(P, s, t, d, S)
      BY CutExists
    <2>2. PICK T : Cut(P, s, t, e, T)
      BY CutExists
    <2>3. ASSUME From(d) = From(e)
          PROVE  FALSE
      <3>. DEFINE U == S \cup T
      <3>1. /\ U \in SUBSET Nodes /\ s \in U /\ t \notin U
            /\ \A c \in P : From(c) \in U => To(c) \in U
        BY <1>1, <2>1, <2>2, <2>3 DEF Cut
      <3>. HIDE DEF U
      <3>. QED
        BY <3>1, JoinsUse
    <2>4. ASSUME To(d) = To(e)
          PROVE  FALSE
      <3>. DEFINE U == S \cap T
      <3>1. /\ U \in SUBSET Nodes /\ s \in U /\ t \notin U
            /\ \A c \in P : From(c) \in U => To(c) \in U
        BY <1>1, <2>1, <2>2, <2>4 DEF Cut
      <3>. HIDE DEF U
      <3>. QED
        BY <3>1, JoinsUse
    <2>. QED
      BY <2>3, <2>4
  <1>2. ASSUME NEW e \in P
        PROVE  From(e) # t /\ To(e) # s
    BY CutExists DEF Cut
  <1>3. ASSUME NEW e \in P, To(e) # t, To(e) \notin FromSet(P)
        PROVE  FALSE
    <2>1. PICK S : Cut(P, s, t, e, S)
      BY CutExists
    <2>. DEFINE T == S \cup {To(e)}
    <2>2. \A c \in P : From(c) # To(e)
      BY <1>3 DEF FromSet
    <2>3. /\ T \in SUBSET Nodes /\ s \in T /\ t \notin T
          /\ \A c \in P : From(c) \in T => To(c) \in T
      BY <1>0, <1>3, <2>1, <2>2 DEF Cut
    <2>. HIDE DEF T
    <2>. QED
      BY <2>3, JoinsUse
  <1>4. ASSUME NEW e \in P, From(e) # s, From(e) \notin ToSetOf(P)
        PROVE  FALSE
    <2>1. PICK S : Cut(P, s, t, e, S)
      BY CutExists
    <2>. DEFINE T == S \ {From(e)}
    <2>2. \A c \in P : To(c) # From(e)
      BY <1>4 DEF ToSetOf
    <2>3. /\ T \in SUBSET Nodes /\ s \in T /\ t \notin T
          /\ \A c \in P : From(c) \in T => To(c) \in T
      BY <1>4, <2>1, <2>2 DEF Cut
    <2>. HIDE DEF T
    <2>. QED
      BY <2>3, JoinsUse
  <1>5. ASSUME s # t, s \notin FromSet(P)
        PROVE  FALSE
    <2>1. {s} \in SUBSET Nodes /\ s \in {s} /\ t \notin {s}
          /\ \A c \in P : From(c) \in {s} => To(c) \in {s}
      BY <1>5 DEF FromSet
    <2>. QED
      BY <2>1, JoinsUse
  <1>6. ASSUME s # t, t \notin ToSetOf(P)
        PROVE  FALSE
    <2>. DEFINE U == Nodes \ {t}
    <2>1. /\ U \in SUBSET Nodes /\ s \in U /\ t \notin U
          /\ \A c \in P : From(c) \in U => To(c) \in U
      BY <1>0, <1>6 DEF ToSetOf
    <2>. HIDE DEF U
    <2>. QED
      BY <2>1, JoinsUse
  <1>7. Disjoint(P)
    BY <1>1 DEF Disjoint
  <1>. QED
    BY <1>2, <1>3, <1>4, <1>5, <1>6, <1>7

\* Together with an edge back from t to s it is a cycle.
LEMMA CycleCloses ==
    ASSUME Net, NEW a \in Input, NEW P, MinJoins(P, To(a), From(a))
    PROVE  P \cup {a} \in Cycles
  <1>. DEFINE s == To(a)
              t == From(a)
              C == P \cup {a}
  <1>1. s \in Nodes /\ t \in Nodes
    BY DEF Net
  <1>2. P \in SUBSET Input /\ C \in SUBSET Input /\ C # {}
    BY DEF MinJoins
  <1>3. /\ Disjoint(P)
        /\ \A e \in P : From(e) # t /\ To(e) # s
        /\ \A e \in P : To(e) # t => To(e) \in FromSet(P)
        /\ \A e \in P : From(e) # s => From(e) \in ToSetOf(P)
        /\ s # t => s \in FromSet(P) /\ t \in ToSetOf(P)
    <2>. HIDE DEF s, t
    <2>1. MinJoins(P, s, t)
      BY DEF s, t
    <2>. QED
      BY <1>1, <2>1, MinJoinsShape
  <1>4. Disjoint(C)
    BY <1>3 DEF Disjoint
  <1>5. FromSet(C) = FromSet(P) \cup {t} /\ ToSetOf(C) = ToSetOf(P) \cup {s}
    BY DEF FromSet, ToSetOf
  <1>6. FromSet(C) = ToSetOf(C)
    <2>1. \A x \in FromSet(P) : x \in ToSetOf(P) \cup {s}
      BY <1>3 DEF FromSet
    <2>2. \A x \in ToSetOf(P) : x \in FromSet(P) \cup {t}
      BY <1>3 DEF ToSetOf
    <2>. HIDE DEF s, t, C
    <2>. QED
      BY <1>3, <1>5, <2>1, <2>2
  <1>7. ASSUME NEW D \in SUBSET C, D # {}, D # C, Closed(D)
        PROVE  FALSE
    <2>1. Disjoint(D) /\ FromSet(D) = ToSetOf(D)
      BY <1>7, ClosedIs
    <2>2. CASE a \notin D
      <3>1. PICK e \in D : e \in P
        BY <1>7, <2>2
      <3>2. PICK S : Cut(P, s, t, e, S)
        BY <3>1, CutExists
      <3>. DEFINE T == S \ FromSet(D)
      <3>3. s \notin FromSet(D)
        <4>1. \A d \in D : To(d) # s
          BY <1>3, <2>2
        <4>2. s \notin ToSetOf(D)
          BY <4>1 DEF ToSetOf
        <4>. QED
          BY <2>1, <4>2
      <3>4. From(e) \in FromSet(D)
        BY DEF FromSet
      <3>5. ASSUME NEW c \in P, From(c) \in T
            PROVE  To(c) \in T
        <4>1. c # e /\ To(c) \in S
          BY <3>2, <3>4, <3>5 DEF Cut
        <4>2. ASSUME To(c) \in FromSet(D)
              PROVE  FALSE
          <5>1. PICK d \in D : To(d) = To(c)
            BY <2>1, <4>2 DEF ToSetOf
          <5>2. d = c
            BY <1>3, <2>2, <5>1 DEF Disjoint
          <5>3. From(c) \in FromSet(D)
            BY <5>1, <5>2 DEF FromSet
          <5>. QED
            BY <3>5, <5>3
        <4>. QED
          BY <4>1, <4>2
      <3>6. T \in SUBSET Nodes /\ s \in T /\ t \notin T
        BY <3>2, <3>3 DEF Cut
      <3>. HIDE DEF T
      <3>. QED
        BY <3>5, <3>6, JoinsUse
    <2>3. CASE a \in D
      <3>1. PICK e \in P : e \notin D
        BY <1>7, <2>3
      <3>2. PICK S : Cut(P, s, t, e, S)
        BY <3>1, CutExists
      <3>. DEFINE E == {d \in D : From(d) \in S}
      <3>3. E \in SUBSET D /\ E \in SUBSET Input /\ a \notin E
        BY <1>2, <3>2 DEF Cut
      <3>4. Disjoint(E)
        BY <2>1, <3>3 DEF Disjoint
      <3>5. ToSetOf(E) \subseteq FromSet(E)
        <4>1. SUFFICES ASSUME NEW d \in E
                       PROVE  To(d) \in FromSet(E)
          BY DEF ToSetOf
        <4>2. d \in P /\ d # e /\ From(d) \in S
          BY <3>1, <3>3
        <4>3. To(d) \in S
          BY <3>2, <4>2 DEF Cut
        <4>4. To(d) \in FromSet(D)
          BY <2>1, <3>3 DEF ToSetOf
        <4>. QED
          BY <4>3, <4>4 DEF FromSet
      <3>6. ToSetOf(E) = FromSet(E)
        <4>. HIDE DEF E
        <4>. QED
          BY <3>3, <3>4, <3>5, EndsEqual
      <3>7. s \in FromSet(D)
        BY <2>1, <2>3 DEF ToSetOf
      <3>8. s \in S
        BY <3>2 DEF Cut
      <3>9. s \in FromSet(E)
        BY <3>7, <3>8 DEF FromSet
      <3>10. PICK d \in E : To(d) = s
        BY <3>6, <3>9 DEF ToSetOf
      <3>. QED
        BY <2>1, <2>3, <3>3, <3>10 DEF Disjoint
    <2>. QED
      BY <2>2, <2>3
  <1>8. Closed(C)
    <2>. HIDE DEF C
    <2>. QED
      BY <1>4, <1>6, ClosedIs
  <1>. QED
    BY <1>2, <1>7, <1>8 DEF Cycles

\* If a path closes a without b, some cycle goes through a and not through b.
LEMMA CycleAround ==
    ASSUME Net, NEW a \in Input, NEW b \in Input, a # b, Path({b}, To(a), From(a))
    PROVE  \E C \in Cycles : a \in C /\ b \notin C
  <1>1. To(a) \in Nodes
    BY DEF Net
  <1>2. Joins(Input \ {b}, To(a), From(a))
    BY <1>1, PathInside DEF Joins
  <1>3. PICK P \in SUBSET (Input \ {b}) : MinJoins(P, To(a), From(a))
    BY <1>2, MinJoinsExists
  <1>. QED
    BY <1>3, CycleCloses

\* The predicate of the code is cycle equivalence.
LEMMA EquivalentPaths ==
    ASSUME Net, NEW a \in Input, NEW b \in Input
    PROVE  cycle_equivalent(a, b) <=> ~Path({b}, To(a), From(a)) /\ ~Path({a}, To(b), From(b))
  <1>1. To(a) \in Nodes /\ To(b) \in Nodes /\ From(a) \in Nodes /\ From(b) \in Nodes
    BY DEF Net
  <1>. QED
    BY <1>1, ReachableFrom DEF cycle_equivalent, From, To

\* cycle_equivalent(a, b) says that the same cycles go through a and b.
LEMMA EquivalentIs ==
    ASSUME Net, NEW a \in Input, NEW b \in Input, a # b
    PROVE  cycle_equivalent(a, b) <=> \A C \in Cycles : a \in C <=> b \in C
  <1>1. ASSUME cycle_equivalent(a, b), NEW C \in Cycles
        PROVE  a \in C <=> b \in C
    BY <1>1, EquivalentPaths, CyclePasses
  <1>2. ASSUME \A C \in Cycles : a \in C <=> b \in C
        PROVE  cycle_equivalent(a, b)
    BY <1>2, EquivalentPaths, CycleAround
  <1>. QED
    BY <1>1, <1>2

-----------------------------------------------------------------------------
(* direct_cycle_classes: the forest and the numbers of the classes.        *)

\* The edges a and b lie on the same cycles.
Same(a, b) == \A C \in Cycles : a \in C <=> b \in C

\* This is an equivalence relation.
LEMMA SameSelf == \A a : Same(a, a)
  BY DEF Same

\* It is symmetric.
LEMMA SameBack == \A a, b : Same(a, b) => Same(b, a)
  BY DEF Same

\* It is transitive.
LEMMA SameOn == \A a, b, c : Same(a, b) /\ Same(b, c) => Same(a, c)
  BY DEF Same

\* The code tests it for two different edges.
LEMMA EquivalentSame ==
    ASSUME Net, NEW a \in Input, NEW b \in Input, a # b
    PROVE  cycle_equivalent(a, b) <=> Same(a, b)
  BY EquivalentIs DEF Same

\* The pairs direct_cycle_classes joins.
Pairs == {p \in Input \X Input : p[1] < p[2] /\ Same(p[1], p[2])}

\* The order in which the pairs are joined.
NoLater(p, q) == p[1] < q[1] \/ (p[1] = q[1] /\ p[2] <= q[2])

\* The forest is flat and its roots are the smallest edges of their classes.
Flat(parent, left) ==
    /\ parent \in [Input -> Input] /\ left \subseteq Pairs
    /\ \A p \in Pairs \ left : \A q \in left : NoLater(p, q)
    /\ \A e \in Input : /\ parent[e] <= e /\ parent[parent[e]] = parent[e]
                        /\ Same(parent[e], e)
                        /\ parent[e] # e => <<parent[e], e>> \notin left
    /\ \A p \in Pairs \ left : parent[p[1]] = parent[p[2]]

\* The recursion of find ends after one step.
LEMMA FindIs ==
    ASSUME joining.parent \in [Input -> Input],
           \A e \in Input : joining.parent[joining.parent[e]] = joining.parent[e],
           NEW a \in Input
    PROVE  find(a) = joining.parent[a]
  <1>. DEFINE parent == joining.parent
              Body(f) == [e \in Input |-> IF parent[e] = e THEN e ELSE f[parent[e]]]
              root == CHOOSE f : f = Body(f)
  <1>1. parent = Body(parent)
    <2>1. \A e \in Input : parent[e] = IF parent[e] = e THEN e ELSE parent[parent[e]]
      OBVIOUS
    <2>2. parent = [e \in Input |-> parent[e]]
      OBVIOUS
    <2>. QED
      BY <2>1, <2>2
  <1>2. root = Body(root)
    <2>. HIDE DEF Body
    <2>. QED
      BY <1>1
  <1>3. find(a) = root[a]
    BY DEF find
  <1>. HIDE DEF root
  <1>4. \A e \in Input : root[e] = IF parent[e] = e THEN e ELSE root[parent[e]]
    BY <1>2
  <1>5. parent[a] \in Input /\ parent[parent[a]] = parent[a]
    OBVIOUS
  <1>6. root[parent[a]] = parent[a]
    BY <1>4, <1>5
  <1>. QED
    BY <1>3, <1>4, <1>5, <1>6

\* A pair has its smaller edge first.
LEMMA PairFacts ==
    ASSUME Net, NEW a \in Input, NEW b \in Input
    PROVE  /\ a \in Nat /\ b \in Nat
           /\ <<a, b>> \in Pairs <=> a < b /\ Same(a, b)
  BY DEF Net, Input, Pairs

\* Joining the next pair keeps the forest flat: the larger edge is still alone.
LEMMA JoinKeeps ==
    ASSUME Net, NEW parent, NEW left, Flat(parent, left), NEW p \in left,
           \A q \in left : NoLater(p, q)
    PROVE  Flat([parent EXCEPT ![parent[p[2]]] = parent[p[1]]], left \ {p})
  <1>. DEFINE a == p[1]
              b == p[2]
              r == parent[a]
  <1>0. Input \subseteq Nat
    BY DEF Net, Input
  <1>1. /\ p \in Pairs /\ p = <<a, b>> /\ a \in Input /\ b \in Input /\ a < b /\ Same(a, b)
    BY DEF Flat, Pairs
  <1>2. /\ parent \in [Input -> Input] /\ left \subseteq Pairs
        /\ \A u \in Pairs \ left : \A q \in left : NoLater(u, q)
        /\ \A u \in Pairs \ left : parent[u[1]] = parent[u[2]]
    BY DEF Flat
  <1>3. \A e \in Input : /\ parent[e] \in Input /\ parent[e] <= e /\ parent[parent[e]] = parent[e]
                         /\ Same(parent[e], e)
                         /\ parent[e] # e => <<parent[e], e>> \notin left
    BY DEF Flat
  <1>4. \A u, v \in Input : u < v /\ Same(u, v) /\ (u < a \/ (u = a /\ v < b))
                              => parent[u] = parent[v]
    <2>1. SUFFICES ASSUME NEW u \in Input, NEW v \in Input, u < v, Same(u, v),
                          u < a \/ (u = a /\ v < b)
                   PROVE  parent[u] = parent[v]
      OBVIOUS
    <2>2. <<u, v>> \in Pairs
      BY <2>1, PairFacts
    <2>3. ~NoLater(p, <<u, v>>)
      <3>1. u \in Nat /\ v \in Nat /\ a \in Nat /\ b \in Nat
        BY <1>0, <1>1
      <3>2. ~(a < u \/ (a = u /\ b <= v))
        BY <2>1, <3>1
      <3>. QED
        BY <3>2 DEF NoLater
    <2>4. <<u, v>> \notin left
      BY <2>3
    <2>. QED
      BY <1>2, <2>2, <2>4
  <1>5. ASSUME parent[b] # b
        PROVE  parent[b] = r
    <2>. DEFINE c == parent[b]
    <2>1. c \in Input /\ c < b /\ Same(c, b) /\ Same(c, a) /\ Same(a, c) /\ parent[c] = c
      <3>1. c \in Input /\ c <= b /\ Same(c, b) /\ parent[c] = c
        BY <1>1, <1>3
      <3>2. c \in Nat /\ b \in Nat
        BY <1>0, <1>1, <3>1
      <3>. QED
        BY <1>1, <1>5, <3>1, <3>2, SameOn, SameBack
    <2>2. c \in Nat /\ a \in Nat /\ b \in Nat
      BY <1>0, <1>1, <2>1
    <2>. HIDE DEF c
    <2>3. CASE c < a
      <3>1. parent[c] = parent[a]
        BY <1>1, <1>4, <2>1, <2>3
      <3>. QED
        BY <2>1, <3>1 DEF c
    <2>4. CASE c = a
      BY <2>1, <2>4 DEF c
    <2>5. CASE a < c
      <3>1. parent[a] = parent[c]
        BY <1>1, <1>4, <2>1, <2>5
      <3>. QED
        BY <2>1, <3>1 DEF c
    <2>. QED
      BY <2>2, <2>3, <2>4, <2>5
  <1>6. ASSUME NEW e \in Input, parent[e] = b, e # b
        PROVE  FALSE
    <2>1. b < e /\ Same(b, e) /\ <<b, e>> \notin left
      <3>1. b \in Nat /\ e \in Nat /\ b <= e /\ Same(b, e) /\ <<b, e>> \notin left
        BY <1>0, <1>1, <1>3, <1>6
      <3>. QED
        BY <1>6, <3>1
    <2>2. <<b, e>> \in Pairs \ left
      BY <1>1, <2>1, PairFacts
    <2>3. NoLater(<<b, e>>, p)
      BY <1>2, <2>2
    <2>4. b < a \/ (b = a /\ e <= b)
      BY <2>3 DEF NoLater
    <2>. QED
      BY <1>0, <1>1, <2>4
  <1>7. r \in Input /\ r <= a /\ parent[r] = r /\ Same(r, a) /\ Same(r, b) /\ r < b
    <2>1. r \in Input /\ r <= a /\ parent[r] = r /\ Same(r, a)
      BY <1>1, <1>3
    <2>2. r \in Nat /\ a \in Nat /\ b \in Nat
      BY <1>0, <1>1, <2>1
    <2>. QED
      BY <1>1, <2>1, <2>2, SameOn
  <1>. DEFINE new == [parent EXCEPT ![parent[b]] = r]
  \* Either b stays where it is, under r already, or b is alone and goes there.
  <1>8. /\ new \in [Input -> Input] /\ new[b] = r
        /\ \A e \in Input : e # b => new[e] = parent[e]
    <2>1. parent[b] \in Input /\ b \in Input /\ r \in Input
      BY <1>1, <1>3, <1>7
    <2>2. CASE parent[b] = b
      BY <1>2, <2>1, <2>2
    <2>3. CASE parent[b] # b
      <3>1. parent[b] = r /\ parent[r] = r
        BY <1>5, <1>7, <2>3
      <3>2. new = parent
        BY <1>2, <2>1, <3>1
      <3>. QED
        BY <1>2, <3>1, <3>2
    <2>. QED
      BY <2>2, <2>3
  <1>. HIDE DEF new
  <1>9. r # b
    BY <1>0, <1>1, <1>7
  <1>10. ASSUME NEW e \in Input
         PROVE  /\ new[e] <= e /\ new[new[e]] = new[e] /\ Same(new[e], e)
                /\ new[e] # e => <<new[e], e>> \notin left \ {p}
    <2>1. CASE e = b
      <3>1. new[e] = r /\ new[r] = r
        BY <1>7, <1>8, <1>9, <2>1
      <3>2. r <= b
        BY <1>0, <1>1, <1>7
      <3>3. <<r, b>> \notin left \ {p}
        <4>1. CASE r = a
          BY <1>1, <4>1
        <4>2. CASE r # a
          <5>1. <<r, b>> \in Pairs /\ ~NoLater(p, <<r, b>>)
            <6>1. r \in Nat /\ a \in Nat /\ b \in Nat /\ r < a
              BY <1>0, <1>1, <1>7, <4>2
            <6>2. ~(a < r \/ (a = r /\ b <= b))
              BY <6>1
            <6>. QED
              BY <1>1, <1>7, <6>2, PairFacts DEF NoLater
          <5>. QED
            BY <5>1
        <4>. QED
          BY <4>1, <4>2
      <3>. QED
        BY <1>7, <2>1, <3>1, <3>2, <3>3
    <2>2. CASE e # b
      <3>1. new[e] = parent[e] /\ parent[e] \in Input /\ parent[e] # b
        BY <1>3, <1>6, <1>8, <2>2
      <3>2. new[parent[e]] = parent[e]
        BY <1>3, <1>8, <3>1
      <3>. QED
        BY <1>3, <3>1, <3>2
    <2>. QED
      BY <2>1, <2>2
  <1>11. ASSUME NEW u \in Pairs \ (left \ {p})
         PROVE  new[u[1]] = new[u[2]] /\ \A q \in left \ {p} : NoLater(u, q)
    <2>1. u[1] \in Input /\ u[2] \in Input
      BY DEF Pairs
    <2>2. CASE u = p
      <3>1. new[a] = r
        BY <1>1, <1>8
      <3>. QED
        BY <1>8, <2>2, <3>1
    <2>3. CASE u # p
      <3>1. u \in Pairs \ left
        BY <2>3
      <3>2. parent[u[1]] = parent[u[2]]
        BY <1>2, <3>1
      <3>3. \A e \in Input : parent[e] = parent[b] => new[e] = r
        <4>1. CASE parent[b] = b
          BY <1>6, <1>8, <4>1
        <4>2. CASE parent[b] # b
          BY <1>5, <1>8, <4>2
        <4>. QED
          BY <4>1, <4>2
      <3>4. new[u[1]] = new[u[2]]
        <4>1. CASE u[1] = b \/ u[2] = b
          BY <2>1, <3>2, <3>3, <4>1
        <4>2. CASE u[1] # b /\ u[2] # b
          BY <1>8, <2>1, <3>2, <4>2
        <4>. QED
          BY <4>1, <4>2
      <3>. QED
        BY <1>2, <3>1, <3>4
    <2>. QED
      BY <2>2, <2>3
  <1>12. left \ {p} \subseteq Pairs
    BY <1>2
  <1>13. Flat(new, left \ {p})
    BY <1>8, <1>10, <1>11, <1>12 DEF Flat
  <1>. QED
    BY <1>13 DEF new

\* The forest direct_cycle_classes starts with is flat.
LEMMA FlatStart ==
    ASSUME Net
    PROVE  Flat([e \in Input |-> e], Pairs)
  <1>1. Input \subseteq Nat
    BY DEF Net, Input
  <1>. QED
    BY <1>1, SameSelf DEF Flat

\* The numbers Label gives tell the roots apart.
LEMMA LabelTells ==
    ASSUME Net, NEW parent, Flat(parent, {}),
           NEW label, label = [e \in Input |-> Cardinality({parent[d] : d \in 1 .. parent[e]})]
    PROVE  /\ \A a \in Input : label[a] \in Nat \ {0}
           /\ \A a, b \in Input : label[a] = label[b] <=> Same(a, b)
  <1>0. Input \subseteq Nat \ {0} /\ \A i \in Input : 1 .. i \subseteq Input /\ i \in 1 .. i
    BY DEF Net, Input
  <1>1. /\ parent \in [Input -> Input]
        /\ \A e \in Input : /\ parent[e] \in Input /\ parent[e] <= e
                            /\ parent[parent[e]] = parent[e] /\ Same(parent[e], e)
        /\ \A p \in Pairs : parent[p[1]] = parent[p[2]]
    BY DEF Flat
  <1>. DEFINE Roots(i) == {parent[d] : d \in 1 .. i}
  <1>2. \A i \in Input : /\ Roots(i) \in SUBSET Input /\ IsFiniteSet(Roots(i))
                         /\ Cardinality(Roots(i)) \in Nat /\ Roots(i) # {}
    <2>1. SUFFICES ASSUME NEW i \in Input
                   PROVE  /\ Roots(i) \in SUBSET Input /\ IsFiniteSet(Roots(i))
                          /\ Cardinality(Roots(i)) \in Nat /\ Roots(i) # {}
      OBVIOUS
    <2>2. Roots(i) \in SUBSET Input /\ Roots(i) # {}
      BY <1>0, <1>1
    <2>. HIDE DEF Roots
    <2>. QED
      BY <2>2, EdgesFinite
  <1>3. \A a \in Input : label[a] = Cardinality(Roots(parent[a]))
    OBVIOUS
  <1>4. ASSUME NEW a \in Input
        PROVE  label[a] \in Nat \ {0}
    <2>1. /\ Roots(parent[a]) # {} /\ IsFiniteSet(Roots(parent[a]))
          /\ Cardinality(Roots(parent[a])) \in Nat
      BY <1>1, <1>2
    <2>. HIDE DEF Roots
    <2>. QED
      BY <1>3, <2>1, FS_EmptySet
  <1>5. ASSUME NEW i \in Input, NEW j \in Input, parent[j] = j, i < j
        PROVE  Cardinality(Roots(i)) # Cardinality(Roots(j))
    <2>1. Roots(i) \subseteq Roots(j)
      <3>1. i \in Nat /\ j \in Nat
        BY <1>0
      <3>2. 1 .. i \subseteq 1 .. j
        BY <1>5, <3>1
      <3>. QED
        BY <3>2
    <2>2. j \in Roots(j)
      <3>1. j \in 1 .. j
        BY <1>0
      <3>. QED
        BY <1>5, <3>1
    <2>3. j \notin Roots(i)
      <3>1. ASSUME NEW d \in 1 .. i, parent[d] = j
            PROVE  FALSE
        <4>1. d \in Input /\ i \in Nat /\ j \in Nat
          BY <1>0
        <4>2. j <= d
          BY <1>1, <3>1, <4>1
        <4>3. d <= i
          OBVIOUS
        <4>4. d \in Nat
          BY <1>0, <4>1
        <4>. HIDE DEF Roots
        <4>. QED
          BY <1>5, <4>1, <4>2, <4>3, <4>4
      <3>. QED
        BY <3>1
    <2>4. IsFiniteSet(Roots(j))
      BY <1>2
    <2>. HIDE DEF Roots
    <2>. QED
      BY <2>1, <2>2, <2>3, <2>4, FS_Subset
  <1>6. ASSUME NEW a \in Input, NEW b \in Input
        PROVE  label[a] = label[b] <=> Same(a, b)
    <2>1. ASSUME label[a] = label[b]
          PROVE  Same(a, b)
      <3>1. /\ parent[a] \in Input /\ parent[b] \in Input
            /\ parent[parent[a]] = parent[a] /\ parent[parent[b]] = parent[b]
        BY <1>1
      <3>2. parent[a] = parent[b]
        <4>. DEFINE i == parent[a]
                    j == parent[b]
        <4>1. /\ i \in Input /\ j \in Input /\ parent[i] = i /\ parent[j] = j
              /\ Cardinality(Roots(i)) = Cardinality(Roots(j))
          BY <1>3, <2>1, <3>1
        <4>. HIDE DEF i, j, Roots
        <4>2. i \in Nat /\ j \in Nat
          BY <1>0, <4>1
        <4>3. i < j \/ j < i \/ i = j
          BY <4>2
        <4>4. i = j
          BY <1>5, <4>1, <4>3
        <4>. QED
          BY <4>4 DEF i, j
      <3>. QED
        BY <1>1, <3>2, SameBack, SameOn
    <2>2. ASSUME Same(a, b)
          PROVE  label[a] = label[b]
      <3>1. a \in Nat /\ b \in Nat /\ Same(b, a)
        BY <1>0, <2>2, SameBack
      <3>2. a < b => <<a, b>> \in Pairs
        BY <2>2, PairFacts
      <3>3. b < a => <<b, a>> \in Pairs
        BY <3>1, PairFacts
      <3>4. parent[a] = parent[b]
        BY <1>1, <3>1, <3>2, <3>3
      <3>. QED
        BY <1>3, <3>4
    <2>. QED
      BY <2>1, <2>2
  <1>. QED
    BY <1>4, <1>6

-----------------------------------------------------------------------------
(* Finite sets in order.                                                   *)

\* R orders S strictly and totally.
Orders(R, S) ==
    /\ \A x \in S : <<x, x>> \notin R
    /\ \A x, y, z \in S : <<x, y>> \in R /\ <<y, z>> \in R => <<x, z>> \in R
    /\ \A x, y \in S : x # y => <<x, y>> \in R \/ <<y, x>> \in R

\* The elements before x, and the place of x.
Below(R, S, x) == {y \in S : <<y, x>> \in R}
Rank(R, S, x) == Cardinality(Below(R, S, x)) + 1

\* f lists S: every element once, in the order R.
Lists(f, S) ==
    /\ f \in [1 .. Cardinality(S) -> S]
    /\ \A x \in S : \E i \in 1 .. Cardinality(S) : f[i] = x
    /\ \A i, j \in 1 .. Cardinality(S) : f[i] = f[j] => i = j

\* The places of the elements of a finite ordered set are the numbers up to its size.
LEMMA RankFacts ==
    ASSUME NEW R, NEW S, IsFiniteSet(S), Orders(R, S)
    PROVE  /\ \A x \in S : Rank(R, S, x) \in 1 .. Cardinality(S)
           /\ \A x, y \in S : <<x, y>> \in R => Rank(R, S, x) < Rank(R, S, y)
           /\ \A i \in 1 .. Cardinality(S) : \E x \in S : Rank(R, S, x) = i
  <1>0. Cardinality(S) \in Nat
    BY FS_CardinalityType
  <1>1. \A x \in S : /\ Below(R, S, x) \in SUBSET S /\ x \notin Below(R, S, x)
                     /\ IsFiniteSet(Below(R, S, x)) /\ Cardinality(Below(R, S, x)) \in Nat
    BY FS_Subset, FS_CardinalityType DEF Below, Orders
  <1>2. ASSUME NEW x \in S
        PROVE  Rank(R, S, x) \in 1 .. Cardinality(S)
    <2>1. /\ Cardinality(Below(R, S, x)) <= Cardinality(S)
          /\ Cardinality(Below(R, S, x)) # Cardinality(S)
      BY <1>1, FS_Subset
    <2>2. Cardinality(Below(R, S, x)) \in Nat
      BY <1>1
    <2>. QED
      BY <1>0, <2>1, <2>2 DEF Rank
  <1>3. ASSUME NEW x \in S, NEW y \in S, <<x, y>> \in R
        PROVE  Rank(R, S, x) < Rank(R, S, y)
    <2>. DEFINE A == Below(R, S, x)
                B == Below(R, S, y)
    <2>1. A \in SUBSET B /\ x \in B /\ x \notin A
      BY <1>3 DEF Below, Orders
    <2>2. IsFiniteSet(B) /\ Cardinality(A) \in Nat /\ Cardinality(B) \in Nat
      BY <1>1
    <2>3. Rank(R, S, x) = Cardinality(A) + 1 /\ Rank(R, S, y) = Cardinality(B) + 1
      BY DEF Rank
    <2>. HIDE DEF A, B
    <2>4. Cardinality(A) <= Cardinality(B) /\ Cardinality(A) # Cardinality(B)
      BY <2>1, <2>2, FS_Subset
    <2>. QED
      BY <2>2, <2>3, <2>4
  <1>. DEFINE T == 1 .. Cardinality(S)
              f == [x \in S |-> Rank(R, S, x)]
  <1>4. f \in [S -> T] /\ \A x, y \in S : f[x] = f[y] => x = y
    <2>1. f \in [S -> T]
      BY <1>2
    <2>2. \A x, y \in S : x # y => f[x] # f[y]
      <3>1. SUFFICES ASSUME NEW x \in S, NEW y \in S, x # y
                     PROVE  f[x] # f[y]
        OBVIOUS
      <3>2. f[x] = Rank(R, S, x) /\ f[y] = Rank(R, S, y) /\ f[x] \in Nat /\ f[y] \in Nat
        BY <1>0, <2>1
      <3>3. f[x] < f[y] \/ f[y] < f[x]
        BY <1>3, <3>1, <3>2 DEF Orders
      <3>. HIDE DEF f
      <3>. QED
        BY <3>2, <3>3
    <2>. HIDE DEF f
    <2>. QED
      BY <2>1, <2>2
  <1>5. IsFiniteSet(T) /\ Cardinality(T) = Cardinality(S)
    <2>. DEFINE c == Cardinality(S)
    <2>1. c \in Int /\ 1 \in Int /\ (1 > c => c = 0)
      BY <1>0
    <2>. HIDE DEF c
    <2>2. IsFiniteSet(1 .. c) /\ Cardinality(1 .. c) = IF 1 > c THEN 0 ELSE c - 1 + 1
      BY <2>1, FS_Interval
    <2>3. Cardinality(1 .. c) = c
      BY <2>1, <2>2
    <2>. QED
      BY <2>2, <2>3 DEF c
  <1>6. f \in Surjection(S, T)
    <2>. HIDE DEF f, T
    <2>1. f \in Injection(S, T)
      BY <1>4 DEF Injection, IsInjective
    <2>. QED
      BY <1>5, <2>1, FS_Injection
  <1>7. \A i \in T : \E x \in S : f[x] = i
    <2>. HIDE DEF f, T
    <2>. QED
      BY <1>6 DEF Surjection
  <1>. QED
    BY <1>2, <1>3, <1>7

\* So a function that gives each place its element lists the set.
LEMMA RankLists ==
    ASSUME NEW R, NEW S, IsFiniteSet(S), Orders(R, S),
           NEW f \in [1 .. Cardinality(S) -> S],
           \A i \in 1 .. Cardinality(S) : Rank(R, S, f[i]) = i
    PROVE  /\ Lists(f, S)
           /\ \A i, j \in 1 .. Cardinality(S) : i < j => <<f[i], f[j]>> \in R
  <1>1. \A i \in 1 .. Cardinality(S) : f[i] \in S /\ Rank(R, S, f[i]) = i
    OBVIOUS
  <1>2. f \in [1 .. Cardinality(S) -> S]
    OBVIOUS
  <1>3. ASSUME NEW x \in S
        PROVE  \E i \in 1 .. Cardinality(S) : f[i] = x
    <2>. DEFINE i == Rank(R, S, x)
    <2>1. i \in 1 .. Cardinality(S)
      BY RankFacts
    <2>2. f[i] \in S /\ Rank(R, S, f[i]) = Rank(R, S, x)
      BY <1>1, <2>1
    <2>3. Rank(R, S, f[i]) \in Nat /\ Rank(R, S, x) \in Nat
      BY <2>1, <2>2, FS_CardinalityType
    <2>. HIDE DEF i
    <2>4. <<f[i], x>> \notin R /\ <<x, f[i]>> \notin R
      BY <2>2, <2>3, RankFacts
    <2>5. f[i] = x
      BY <2>2, <2>4 DEF Orders
    <2>. QED
      BY <2>1, <2>5
  <1>4. ASSUME NEW i \in 1 .. Cardinality(S), NEW j \in 1 .. Cardinality(S), i < j
        PROVE  <<f[i], f[j]>> \in R
    <2>1. /\ f[i] \in S /\ Rank(R, S, f[i]) = i /\ f[j] \in S /\ Rank(R, S, f[j]) = j
          /\ i \in Nat /\ j \in Nat
      BY <1>1, FS_CardinalityType
    <2>2. f[i] # f[j]
      BY <1>4, <2>1
    <2>3. <<f[j], f[i]>> \notin R
      <3>1. <<f[j], f[i]>> \in R => j < i
        BY <2>1, RankFacts
      <3>. QED
        BY <1>4, <2>1, <3>1
    <2>. QED
      BY <2>1, <2>2, <2>3 DEF Orders
  <1>5. \A i, j \in 1 .. Cardinality(S) : f[i] = f[j] => i = j
    BY <1>1
  <1>6. Lists(f, S)
    BY <1>2, <1>3, <1>5 DEF Lists
  <1>. QED
    BY <1>4, <1>6

\* Ascending lists a finite set of numbers.
LEMMA AscendingLists ==
    ASSUME NEW S \in SUBSET Nat, IsFiniteSet(S)
    PROVE  Lists(Ascending(S), S)
  <1>. DEFINE R == {p \in Nat \X Nat : p[1] < p[2]}
  <1>1. Orders(R, S)
    <2>1. \A x, y \in Nat : <<x, y>> \in R <=> x < y
      OBVIOUS
    <2>. HIDE DEF R
    <2>2. \A x, y, z \in Nat : <<x, y>> \in R /\ <<y, z>> \in R => <<x, z>> \in R
      BY <2>1
    <2>3. \A x, y \in Nat : x # y => <<x, y>> \in R \/ <<y, x>> \in R
      BY <2>1
    <2>4. \A x \in Nat : <<x, x>> \notin R
      BY <2>1
    <2>. QED
      BY <2>2, <2>3, <2>4 DEF Orders
  <1>2. ASSUME NEW x \in S
        PROVE  Cardinality({y \in S : y <= x}) = Rank(R, S, x)
    <2>. DEFINE B == Below(R, S, x)
    <2>1. {y \in S : y <= x} = B \cup {x}
      <3>1. \A y \in S : y \in B <=> y < x
        BY DEF Below
      <3>2. \A y \in S : y <= x <=> y < x \/ y = x
        OBVIOUS
      <3>3. B \subseteq S
        BY DEF Below
      <3>. HIDE DEF B
      <3>. QED
        BY <3>1, <3>2, <3>3
    <2>2. IsFiniteSet(B) /\ x \notin B
      <3>1. B \in SUBSET S /\ x \notin B
        BY <1>1 DEF Below, Orders
      <3>. HIDE DEF B
      <3>. QED
        BY <3>1, FS_Subset
    <2>3. Rank(R, S, x) = Cardinality(B) + 1
      BY DEF Rank
    <2>. HIDE DEF B
    <2>4. Cardinality(B \cup {x}) = Cardinality(B) + 1
      BY <2>2, FS_AddElement
    <2>. QED
      BY <2>1, <2>3, <2>4
  <1>. HIDE DEF R
  <1>. DEFINE f == Ascending(S)
  <1>3. f \in [1 .. Cardinality(S) -> S] /\ \A i \in 1 .. Cardinality(S) : Rank(R, S, f[i]) = i
    <2>. DEFINE e(i) == CHOOSE x \in S : Cardinality({y \in S : y <= x}) = i
    <2>1. f = [i \in 1 .. Cardinality(S) |-> e(i)]
      BY DEF Ascending
    <2>2. \A i \in 1 .. Cardinality(S) : \E x \in S : Cardinality({y \in S : y <= x}) = i
      <3>1. \A i \in 1 .. Cardinality(S) : \E x \in S : Rank(R, S, x) = i
        BY <1>1, RankFacts
      <3>. QED
        BY <1>2, <3>1
    <2>3. \A i \in 1 .. Cardinality(S) : e(i) \in S /\ Rank(R, S, e(i)) = i
      BY <1>2, <2>2
    <2>. HIDE DEF e, f
    <2>. QED
      BY <2>1, <2>3
  <1>. HIDE DEF f
  <1>4. Lists(f, S)
    BY <1>1, <1>3, RankLists
  <1>. QED
    BY <1>4 DEF f

-----------------------------------------------------------------------------
(* The flowgraph compute_sese builds.                                      *)

\* A list is a sequence as long as the set is large.
LEMMA ListSeq ==
    ASSUME NEW S, IsFiniteSet(S), NEW f, Lists(f, S)
    PROVE  /\ f \in Seq(S) /\ Len(f) = Cardinality(S) /\ DOMAIN f = 1 .. Cardinality(S)
           /\ Cardinality(S) \in Nat /\ ToSet(f) = S
  <1>1. Cardinality(S) \in Nat
    BY FS_CardinalityType
  <1>2. f \in [1 .. Cardinality(S) -> S]
    BY DEF Lists
  <1>3. f \in Seq(S) /\ Len(f) = Cardinality(S) /\ DOMAIN f = 1 .. Cardinality(S)
    <2>. DEFINE c == Cardinality(S)
    <2>1. c \in Nat /\ f \in [1 .. c -> S]
      BY <1>1, <1>2
    <2>. HIDE DEF c
    <2>2. f \in Seq(S) /\ Len(f) = c /\ DOMAIN f = 1 .. c
      BY <2>1
    <2>. QED
      BY <2>2 DEF c
  <1>4. ToSet(f) = S
    BY <1>2, <1>3 DEF Lists, ToSet
  <1>. QED
    BY <1>1, <1>3, <1>4

\* What a sequence followed by another consists of.
LEMMA JoinedSeq ==
    ASSUME NEW A, NEW s \in Seq(A), NEW t \in Seq(A)
    PROVE  /\ s \o t \in Seq(A) /\ Len(s \o t) = Len(s) + Len(t)
           /\ \A i \in 1 .. Len(s) : (s \o t)[i] = s[i]
           /\ \A i \in 1 .. Len(t) : (s \o t)[Len(s) + i] = t[i]
  OBVIOUS

\* The ids the first worklist reaches.
LEMMA ReachableIdsAre ==
    ASSUME NEW g \in Graphs
    PROVE  /\ ReachableIds(g) \in SUBSET (1 .. g.nodes) /\ g.root \in ReachableIds(g)
           /\ \A i \in DOMAIN g.edges :
                 g.edges[i].from \in ReachableIds(g) => g.edges[i].to \in ReachableIds(g)
           /\ \A S \in SUBSET (1 .. g.nodes) :
                 g.root \in S /\ (\A i \in DOMAIN g.edges : g.edges[i].from \in S => g.edges[i].to \in S)
                   => ReachableIds(g) \subseteq S
  <1>. DEFINE n == g.nodes
              E == ToSet(g.edges)
              src == [e \in E |-> e.from]
              dst == [e \in E |-> e.to]
              Code(f) == [k \in 1 .. g.nodes |->
                            IF k = 1 THEN {g.root}
                            ELSE LET S == f[k - 1]
                                 IN S \cup {e.to : e \in {d \in ToSet(g.edges) : d.from \in S}}]
              seen == CHOOSE f : f = Code(f)
  <1>1. /\ n \in Nat /\ g.root \in 1 .. n /\ n \in 1 .. n
        /\ \A i \in DOMAIN g.edges : g.edges[i].from \in 1 .. n /\ g.edges[i].to \in 1 .. n
    <2>1. g.nodes \in Nat /\ g.root \in 1 .. g.nodes
      BY SeseAssumption
    <2>2. g.edges \in Seq([from : 1 .. g.nodes, to : 1 .. g.nodes])
      BY SeseAssumption
    <2>3. \A i \in DOMAIN g.edges : g.edges[i] \in [from : 1 .. g.nodes, to : 1 .. g.nodes]
      <3>. DEFINE A == [from : 1 .. g.nodes, to : 1 .. g.nodes]
                  es == g.edges
      <3>1. es \in Seq(A)
        BY <2>2
      <3>. HIDE DEF A, es
      <3>2. \A i \in DOMAIN es : es[i] \in A
        BY <3>1
      <3>. QED
        BY <3>2 DEF A, es
    <2>4. \A i \in DOMAIN g.edges : g.edges[i].from \in 1 .. n /\ g.edges[i].to \in 1 .. n
      BY <2>3
    <2>. QED
      BY <2>1, <2>4
  <1>2. /\ src \in [E -> 1 .. n] /\ dst \in [E -> 1 .. n]
        /\ \A e \in E : src[e] = e.from /\ dst[e] = e.to
    <2>1. \A e \in E : e.from \in 1 .. n /\ e.to \in 1 .. n
      BY <1>1 DEF ToSet
    <2>. HIDE DEF E
    <2>. QED
      BY <2>1
  <1>3. ASSUME NEW f
        PROVE  Code(f) = [k \in 1 .. n |-> IF k = 1 THEN {g.root} ELSE Round(E, src, dst, f[k - 1])]
    <2>1. ASSUME NEW S
          PROVE  Round(E, src, dst, S) =
                   S \cup {e.to : e \in {d \in ToSet(g.edges) : d.from \in S}}
      <3>. QED
        BY <1>2 DEF Round
    <2>. QED
      BY <2>1
  <1>4. \E f : f = Code(f)
    <2>1. PICK f : Rounds(n, E, src, dst, g.root, f)
      <3>. HIDE DEF E, n, src, dst
      <3>. QED
        BY <1>1, <1>2, RoundsExist
    <2>2. f = [k \in 1 .. n |-> IF k = 1 THEN {g.root} ELSE Round(E, src, dst, f[k - 1])]
      BY <2>1 DEF Rounds
    <2>3. f = Code(f)
      BY <1>3, <2>2
    <2>. HIDE DEF Code
    <2>. QED
      BY <2>3
  <1>5. ReachableIds(g) = seen[n]
    BY DEF ReachableIds
  <1>6. seen = Code(seen)
    <2>. HIDE DEF Code
    <2>. QED
      BY <1>4
  <1>. HIDE DEF seen
  <1>7. seen = [k \in 1 .. n |-> IF k = 1 THEN {g.root} ELSE Round(E, src, dst, seen[k - 1])]
    <2>. HIDE DEF Code
    <2>. QED
      BY <1>3, <1>6
  <1>8. seen[n] = Reached(n, E, src, dst, g.root)
    <2>. HIDE DEF E, n, src, dst
    <2>1. Rounds(n, E, src, dst, g.root, seen)
      BY <1>1, <1>2, <1>7, RoundsTyped
    <2>. QED
      BY <1>1, <1>2, <2>1, RoundsReach DEF Complete
  <1>9. \A i \in DOMAIN g.edges : /\ g.edges[i] \in E
                                  /\ src[g.edges[i]] = g.edges[i].from
                                  /\ dst[g.edges[i]] = g.edges[i].to
    BY DEF ToSet
  <1>10. \A e \in E : \E i \in DOMAIN g.edges : e = g.edges[i]
    BY DEF ToSet
  <1>11. /\ ReachableIds(g) \in SUBSET (1 .. g.nodes) /\ g.root \in ReachableIds(g)
         /\ \A e \in E : src[e] \in ReachableIds(g) => dst[e] \in ReachableIds(g)
    <2>1. /\ g.root \in Reached(n, E, src, dst, g.root)
          /\ Reached(n, E, src, dst, g.root) \subseteq 1 .. n
          /\ \A e \in E : src[e] \in Reached(n, E, src, dst, g.root)
                             => dst[e] \in Reached(n, E, src, dst, g.root)
      <3>. HIDE DEF E, n, src, dst
      <3>. QED
        BY <1>1, <1>2, ReachedFacts
    <2>. QED
      BY <1>5, <1>8, <2>1
  <1>12. ASSUME NEW S \in SUBSET (1 .. n), g.root \in S,
                \A i \in DOMAIN g.edges : g.edges[i].from \in S => g.edges[i].to \in S
         PROVE  ReachableIds(g) \subseteq S
    <2>1. \A e \in E : src[e] \in S => dst[e] \in S
      BY <1>2, <1>10, <1>12
    <2>2. Reached(n, E, src, dst, g.root) \subseteq S
      <3>. HIDE DEF E, n, src, dst
      <3>. QED
        BY <1>12, <2>1, ReachedLeast
    <2>. QED
      BY <1>5, <1>8, <2>2
  <1>13. \A i \in DOMAIN g.edges :
            g.edges[i].from \in ReachableIds(g) => g.edges[i].to \in ReachableIds(g)
    <2>. HIDE DEF E, src, dst
    <2>. QED
      BY <1>9, <1>11
  <1>. QED
    BY <1>11, <1>12, <1>13

\* A sequence is one of its own elements.
LEMMA OwnSeq ==
    ASSUME NEW A, NEW s \in Seq(A)
    PROVE  s \in Seq(ToSet(s))
  <1>1. Len(s) \in Nat /\ DOMAIN s = 1 .. Len(s) /\ s \in [1 .. Len(s) -> A]
    OBVIOUS
  <1>2. \A i \in 1 .. Len(s) : s[i] \in ToSet(s)
    BY <1>1 DEF ToSet
  <1>3. s \in [1 .. Len(s) -> ToSet(s)]
    BY <1>1, <1>2
  <1>. QED
    BY <1>1, <1>3

\* The ids of the flowgraph: one per node but the synthetic exit.  Its edges are a list.
IdsKnown ==
    /\ flow.edges \in Seq(ToSet(flow.edges))
    /\ flow.ids \in Seq(Nat) /\ Len(flow.ids) = flow.n - 1
    /\ \A x, y \in 1 .. flow.n - 1 : flow.ids[x] = flow.ids[y] => x = y

\* The flowgraph compute_sese builds of any graph has these properties: every edge
\* and node a graph can have is covered, loops, dead ends and endless loops included.
LEMMA FlowNet ==
    ASSUME NEW g \in Graphs, flow = Flowgraph(g)
    PROVE  Net /\ IdsKnown
  <1>. DEFINE V == ReachableIds(g)
              ids == Ascending(V)
              index(id) == CHOOSE i \in DOMAIN ids : ids[i] = id
              m == Len(ids)
              kept == Ascending(Kept(g))
              k == Len(kept)
              original == [i \in DOMAIN kept |-> [from |-> index(g.edges[kept[i]].from),
                                                  to |-> index(g.edges[kept[i]].to),
                                                  original |-> kept[i]]]
              silent == {x \in DOMAIN ids : \A i \in DOMAIN original : original[i].from # x}
              X == IF silent = {} THEN {m} ELSE silent
              exits == Ascending(X)
              q == Len(exits)
              out == [i \in DOMAIN exits |-> SyntheticEdge(exits[i], m + 1)]
              back == SyntheticEdge(m + 1, index(g.root))
  <1>1. /\ flow.n = m + 1 /\ flow.root = index(g.root) /\ flow.ids = ids
        /\ flow.edges = original \o out \o <<back>>
    BY DEF Flowgraph
  <1>2. /\ V \in SUBSET (1 .. g.nodes) /\ g.root \in V
        /\ \A i \in DOMAIN g.edges : g.edges[i].from \in V => g.edges[i].to \in V
        /\ \A S \in SUBSET (1 .. g.nodes) :
              g.root \in S /\ (\A i \in DOMAIN g.edges : g.edges[i].from \in S => g.edges[i].to \in S)
                => V \subseteq S
    BY ReachableIdsAre
  <1>3. g.nodes \in Nat
    BY SeseAssumption
  <1>4. /\ IsFiniteSet(V) /\ V \in SUBSET Nat /\ Cardinality(V) \in Nat \ {0}
    <2>1. V \in SUBSET Nat /\ (\A v \in V : v <= g.nodes) /\ V # {}
      <3>. HIDE DEF V
      <3>. QED
        BY <1>2, <1>3
    <2>. HIDE DEF V
    <2>2. IsFiniteSet(V)
      BY <1>3, <2>1, FS_BoundedSetOfNaturals
    <2>. QED
      BY <2>1, <2>2, FS_CardinalityType, FS_EmptySet
  <1>5. /\ ids \in Seq(V) /\ m = Cardinality(V) /\ DOMAIN ids = 1 .. m /\ m \in Nat \ {0}
        /\ ids \in [1 .. m -> V]
        /\ \A v \in V : \E i \in 1 .. m : ids[i] = v
        /\ \A i, j \in 1 .. m : ids[i] = ids[j] => i = j
    <2>. HIDE DEF V
    <2>1. Lists(ids, V)
      BY <1>4, AscendingLists
    <2>. HIDE DEF ids
    <2>2. ids \in Seq(V) /\ Len(ids) = Cardinality(V) /\ DOMAIN ids = 1 .. Cardinality(V)
      BY <1>4, <2>1, ListSeq
    <2>. QED
      BY <1>4, <2>1, <2>2 DEF Lists
  <1>. HIDE DEF V
  <1>6. \A v \in V : index(v) \in 1 .. m /\ ids[index(v)] = v
    BY <1>5
  <1>. HIDE DEF ids, m
  <1>7. \A i \in 1 .. m : ids[i] \in V /\ index(ids[i]) = i
    BY <1>5, <1>6
  <1>8. /\ Kept(g) \in SUBSET Nat /\ IsFiniteSet(Kept(g))
        /\ \A j \in Kept(g) : /\ j \in DOMAIN g.edges /\ g.edges[j].from \in V /\ g.edges[j].to \in V
        /\ \A j \in DOMAIN g.edges : g.edges[j].from \in V /\ g.edges[j].from # g.edges[j].to
                                       => j \in Kept(g)
    <2>1. /\ \A j \in Kept(g) : j \in DOMAIN g.edges /\ g.edges[j].from \in V /\ g.edges[j].to \in V
          /\ \A j \in DOMAIN g.edges : g.edges[j].from \in V /\ g.edges[j].from # g.edges[j].to
                                         => j \in Kept(g)
      BY <1>2 DEF Kept, V
    <2>2. PICK l \in Nat : DOMAIN g.edges = 1 .. l
      <3>. DEFINE A == [from : 1 .. g.nodes, to : 1 .. g.nodes]
                  es == g.edges
      <3>1. es \in Seq(A)
        BY SeseAssumption
      <3>. HIDE DEF A, es
      <3>2. Len(es) \in Nat /\ DOMAIN es = 1 .. Len(es)
        BY <3>1
      <3>. QED
        BY <3>2 DEF es
    <2>3. \A j \in Kept(g) : j \in Nat /\ j <= l
      BY <2>1, <2>2
    <2>4. Kept(g) \in SUBSET Nat
      BY <2>3
    <2>5. IsFiniteSet(Kept(g))
      BY <2>2, <2>3, <2>4, FS_BoundedSetOfNaturals
    <2>. QED
      BY <2>1, <2>4, <2>5
  <1>9. /\ DOMAIN kept = 1 .. k /\ k \in Nat /\ \A i \in 1 .. k : kept[i] \in Kept(g)
        /\ \A j \in Kept(g) : \E i \in 1 .. k : kept[i] = j
    <2>1. Lists(kept, Kept(g))
      BY <1>8, AscendingLists
    <2>. HIDE DEF kept
    <2>2. Len(kept) = Cardinality(Kept(g)) /\ DOMAIN kept = 1 .. Cardinality(Kept(g))
          /\ Cardinality(Kept(g)) \in Nat
      BY <1>8, <2>1, ListSeq
    <2>. QED
      BY <2>1, <2>2 DEF Lists
  <1>. HIDE DEF kept, k, index
  <1>10. /\ DOMAIN original = 1 .. k
         /\ \A i \in 1 .. k :
               /\ original[i].from = index(g.edges[kept[i]].from) /\ original[i].from \in 1 .. m
               /\ original[i].to = index(g.edges[kept[i]].to) /\ original[i].to \in 1 .. m
               /\ original[i].original # None
    <2>1. \A i \in 1 .. k : /\ kept[i] \in Nat /\ kept[i] # None
                            /\ g.edges[kept[i]].from \in V /\ g.edges[kept[i]].to \in V
      BY <1>8, <1>9, SeseAssumption
    <2>2. DOMAIN original = 1 .. k
      BY <1>9
    <2>3. \A i \in 1 .. k : /\ original[i].from = index(g.edges[kept[i]].from)
                            /\ original[i].to = index(g.edges[kept[i]].to)
                            /\ original[i].original = kept[i]
      BY <1>9
    <2>. HIDE DEF original
    <2>. QED
      BY <1>6, <2>1, <2>2, <2>3
  <1>11. original \in Seq([from : 1 .. m + 1, to : 1 .. m + 1, original : Nat \cup {None}])
         /\ Len(original) = k
    <2>1. \A i \in 1 .. k : original[i] \in [from : 1 .. m + 1, to : 1 .. m + 1,
                                             original : Nat \cup {None}]
      <3>1. SUFFICES ASSUME NEW i \in 1 .. k
                     PROVE  original[i] \in [from : 1 .. m + 1, to : 1 .. m + 1,
                                             original : Nat \cup {None}]
        OBVIOUS
      <3>2. kept[i] \in Nat
        BY <1>8, <1>9
      <3>3. index(g.edges[kept[i]].from) \in 1 .. m + 1 /\ index(g.edges[kept[i]].to) \in 1 .. m + 1
        <4>1. index(g.edges[kept[i]].from) \in 1 .. m /\ index(g.edges[kept[i]].to) \in 1 .. m
          BY <1>10
        <4>. QED
          BY <1>5, <4>1
      <3>. QED
        BY <1>9, <3>2, <3>3
    <2>2. original = [i \in 1 .. k |-> original[i]]
      BY <1>9
    <2>. DEFINE A == [from : 1 .. m + 1, to : 1 .. m + 1, original : Nat \cup {None}]
    <2>3. \A i \in 1 .. k : original[i] \in A
      BY <2>1
    <2>. HIDE DEF original, A
    <2>4. original \in Seq(A) /\ Len(original) = k
      BY <1>9, <2>2, <2>3
    <2>. QED
      BY <2>4 DEF A
  <1>. HIDE DEF original
  <1>12. /\ DOMAIN exits = 1 .. q /\ q \in Nat \ {0} /\ \A i \in 1 .. q : exits[i] \in 1 .. m
    <2>1. X \in SUBSET (1 .. m) /\ X # {}
      <3>1. m \in 1 .. m
        BY <1>5
      <3>. QED
        BY <1>5, <3>1
    <2>. HIDE DEF X
    <2>2. X \in SUBSET Nat /\ IsFiniteSet(X)
      <3>1. X \in SUBSET Nat /\ \A x \in X : x <= m
        BY <2>1
      <3>. QED
        BY <1>5, <3>1, FS_BoundedSetOfNaturals
    <2>3. Lists(exits, X)
      BY <2>2, AscendingLists
    <2>. HIDE DEF exits
    <2>4. Len(exits) = Cardinality(X) /\ DOMAIN exits = 1 .. Cardinality(X) /\ Cardinality(X) \in Nat
      BY <2>2, <2>3, ListSeq
    <2>5. Cardinality(X) # 0
      BY <2>1, <2>2, FS_EmptySet
    <2>. QED
      BY <2>1, <2>3, <2>4, <2>5 DEF Lists
  <1>. HIDE DEF exits, q
  <1>. DEFINE A == [from : 1 .. m + 1, to : 1 .. m + 1, original : Nat \cup {None}]
  <1>13. /\ out \in Seq(A) /\ Len(out) = q
         /\ \A i \in 1 .. q : out[i].from = exits[i] /\ out[i].to = m + 1 /\ out[i].original = None
    <2>1. \A i \in 1 .. q : out[i] = [from |-> exits[i], to |-> m + 1, original |-> None]
      BY <1>12 DEF SyntheticEdge
    <2>2. \A i \in 1 .. q : exits[i] \in 1 .. m + 1 /\ m + 1 \in 1 .. m + 1
      <3>1. SUFFICES ASSUME NEW i \in 1 .. q
                     PROVE  exits[i] \in 1 .. m + 1 /\ m + 1 \in 1 .. m + 1
        OBVIOUS
      <3>2. exits[i] \in 1 .. m
        BY <1>12
      <3>. QED
        BY <1>5, <3>2
    <2>3. out = [i \in 1 .. q |-> out[i]]
      BY <1>12
    <2>. HIDE DEF out
    <2>4. \A i \in 1 .. q : out[i] \in A
      <3>1. SUFFICES ASSUME NEW i \in 1 .. q
                     PROVE  out[i] \in A
        OBVIOUS
      <3>. DEFINE N == 1 .. m + 1
      <3>2. exits[i] \in N /\ m + 1 \in N /\ None \in Nat \cup {None}
        BY <2>2
      <3>3. A = [from : N, to : N, original : Nat \cup {None}]
        OBVIOUS
      <3>. HIDE DEF N, A
      <3>4. out[i] = [from |-> exits[i], to |-> m + 1, original |-> None]
        BY <2>1
      <3>. QED
        BY <3>2, <3>3, <3>4
    <2>. HIDE DEF A
    <2>5. out \in Seq(A) /\ Len(out) = q
      BY <1>12, <2>3, <2>4
    <2>. QED
      BY <2>1, <2>5
  <1>14. /\ back \in A /\ back.from = m + 1 /\ back.to = index(g.root) /\ back.original = None
         /\ index(g.root) \in 1 .. m
    <2>1. index(g.root) \in 1 .. m
      BY <1>2, <1>6
    <2>2. index(g.root) \in 1 .. m + 1 /\ m + 1 \in 1 .. m + 1
      BY <1>5, <2>1
    <2>3. back = [from |-> m + 1, to |-> index(g.root), original |-> None]
      BY DEF SyntheticEdge
    <2>. HIDE DEF back
    <2>. QED
      BY <2>1, <2>2, <2>3
  <1>. HIDE DEF out, back, A
  <1>15. /\ Len(flow.edges) = k + q + 1 /\ flow.edges \in Seq(A)
         /\ \A e \in 1 .. k : flow.edges[e] = original[e]
         /\ \A i \in 1 .. q : flow.edges[k + i] = out[i]
         /\ flow.edges[k + q + 1] = back
    <2>. DEFINE s == original \o out
    <2>1. original \in Seq(A)
      BY <1>11 DEF A
    <2>2. /\ s \in Seq(A) /\ Len(s) = k + q
          /\ \A i \in 1 .. k : s[i] = original[i]
          /\ \A i \in 1 .. q : s[k + i] = out[i]
      BY <1>11, <1>13, <2>1, JoinedSeq
    <2>3. <<back>> \in Seq(A) /\ Len(<<back>>) = 1 /\ <<back>>[1] = back
      BY <1>14
    <2>. DEFINE b == <<back>>
    <2>4. flow.edges = s \o b
      BY <1>1
    <2>. HIDE DEF s, b
    <2>5. /\ Len(s \o b) = k + q + 1 /\ s \o b \in Seq(A)
          /\ \A i \in 1 .. k + q : (s \o b)[i] = s[i]
          /\ (s \o b)[k + q + 1] = back
      <3>1. b \in Seq(A) /\ Len(b) = 1 /\ b[1] = back /\ 1 \in 1 .. 1
        BY <2>3 DEF b
      <3>2. /\ Len(s \o b) = Len(s) + Len(b) /\ s \o b \in Seq(A)
            /\ \A i \in 1 .. Len(s) : (s \o b)[i] = s[i]
            /\ \A i \in 1 .. Len(b) : (s \o b)[Len(s) + i] = b[i]
        <4>1. s \in Seq(A) /\ b \in Seq(A)
          BY <2>2, <3>1
        <4>. QED
          BY ONLY <4>1, JoinedSeq
      <3>3. (s \o b)[Len(s) + 1] = b[1]
        BY <3>1, <3>2
      <3>. QED
        BY <2>2, <3>1, <3>2, <3>3
    <2>6. \A i \in 1 .. k : i \in 1 .. k + q
      BY <1>9, <1>12
    <2>7. \A i \in 1 .. q : k + i \in 1 .. k + q
      BY <1>9, <1>12
    <2>. QED
      BY <2>2, <2>4, <2>5, <2>6, <2>7
  <1>16. \A e \in Input : e \in 1 .. k \/ (\E i \in 1 .. q : e = k + i) \/ e = k + q + 1
    <2>1. SUFFICES ASSUME NEW e \in 1 .. k + q + 1, e \notin 1 .. k, e # k + q + 1
                   PROVE  \E i \in 1 .. q : e = k + i
      BY <1>15 DEF Input
    <2>2. e - k \in 1 .. q /\ e = k + (e - k)
      BY <1>9, <1>12, <2>1
    <2>. QED
      BY <2>2
  <1>17. /\ \A e \in 1 .. k : /\ From(e) = original[e].from /\ To(e) = original[e].to
                              /\ From(e) \in 1 .. m /\ To(e) \in 1 .. m
         /\ \A i \in 1 .. q : /\ From(k + i) = exits[i] /\ To(k + i) = m + 1 /\ From(k + i) \in 1 .. m
                              /\ flow.edges[k + i].original = None
         /\ From(k + q + 1) = m + 1 /\ To(k + q + 1) = index(g.root)
         /\ flow.edges[k + q + 1].original = None
    BY <1>10, <1>12, <1>13, <1>14, <1>15 DEF From, To
  <1>18. /\ 1 .. k \subseteq Input /\ (\A i \in 1 .. q : k + i \in Input) /\ k + q + 1 \in Input
         /\ Len(flow.edges) \in Nat
    BY <1>9, <1>12, <1>15 DEF Input
  <1>19. /\ flow.n \in Nat /\ flow.root \in 1 .. flow.n - 1 /\ Nodes = 1 .. m + 1 /\ flow.n - 1 = m
         /\ 1 .. m \subseteq Nodes /\ m + 1 \in Nodes
    BY <1>1, <1>5, <1>14 DEF Nodes
  <1>20. \A e \in Input : From(e) \in Nodes /\ To(e) \in Nodes
    BY <1>14, <1>16, <1>17, <1>19
  <1>21. \A e \in Original : From(e) \in 1 .. flow.n - 1 /\ To(e) \in 1 .. flow.n - 1
    BY <1>16, <1>17, <1>19 DEF Original
  <1>22. /\ k + q + 1 \in Input \ Original
         /\ From(k + q + 1) = flow.n /\ To(k + q + 1) = flow.root
         /\ \A d \in Input : From(d) = flow.n => d = k + q + 1
    <2>1. \A x \in 1 .. m : x # m + 1
      BY <1>5
    <2>2. \A d \in Input : From(d) = m + 1 => d = k + q + 1
      BY <1>16, <1>17, <2>1
    <2>. QED
      BY <1>1, <1>17, <1>18, <2>2 DEF Original
  <1>23. \A x \in Nodes : x \in Reached(flow.n, Input, Froms({}), Tos({}), flow.root)
    <2>. DEFINE R == Reached(flow.n, Input, Froms({}), Tos({}), flow.root)
    <2>1. /\ flow.root \in R
          /\ \A e \in Input : From(e) \in R => To(e) \in R
      <3>. DEFINE src == Froms({})
                  dst == Tos({})
      <3>1. /\ src \in [Input -> 1 .. flow.n] /\ dst \in [Input -> 1 .. flow.n]
            /\ \A e \in Input : src[e] = From(e) /\ dst[e] = To(e)
        BY <1>20 DEF Froms, Tos, Nodes
      <3>2. flow.n \in Nat /\ flow.root \in 1 .. flow.n
        BY <1>1, <1>5, <1>14
      <3>. HIDE DEF src, dst
      <3>3. /\ flow.root \in Reached(flow.n, Input, src, dst, flow.root)
            /\ \A e \in Input : src[e] \in Reached(flow.n, Input, src, dst, flow.root)
                                  => dst[e] \in Reached(flow.n, Input, src, dst, flow.root)
        BY <3>1, <3>2, ReachedFacts
      <3>. QED
        BY <3>1, <3>3 DEF src, dst
    <2>. HIDE DEF R
    <2>. DEFINE S == {v \in V : index(v) \in R}
    <2>2. g.root \in S
      BY <1>1, <1>2, <2>1
    <2>3. ASSUME NEW j \in DOMAIN g.edges, g.edges[j].from \in S
          PROVE  g.edges[j].to \in S
      <3>1. CASE g.edges[j].from = g.edges[j].to
        BY <2>3, <3>1
      <3>2. CASE g.edges[j].from # g.edges[j].to
        <4>1. PICK i \in 1 .. k : kept[i] = j
          BY <1>8, <1>9, <2>3, <3>2
        <4>2. From(i) = index(g.edges[j].from) /\ To(i) = index(g.edges[j].to) /\ i \in Input
          BY <1>10, <1>17, <1>18, <4>1
        <4>3. To(i) \in R
          BY <2>1, <2>3, <4>2
        <4>. QED
          BY <1>2, <2>3, <4>2, <4>3
      <3>. QED
        BY <3>1, <3>2
    <2>4. V \subseteq S
      <3>1. S \in SUBSET (1 .. g.nodes)
        BY <1>2
      <3>. HIDE DEF S
      <3>. QED
        BY <1>2, <2>2, <2>3, <3>1
    <2>5. \A i \in 1 .. m : i \in R
      BY <1>7, <2>4
    <2>6. m + 1 \in R
      <3>1. 1 \in 1 .. q
        BY <1>12
      <3>2. From(k + 1) \in R /\ k + 1 \in Input /\ To(k + 1) = m + 1
        BY <1>17, <1>18, <2>5, <3>1
      <3>. QED
        BY <2>1, <3>2
    <2>7. \A x \in Nodes : x \in 1 .. m \/ x = m + 1
      BY <1>5, <1>19
    <2>. QED
      BY <2>5, <2>6, <2>7 DEF R
  <1>24. Net
    BY <1>18, <1>19, <1>20, <1>21, <1>22, <1>23 DEF Net
  <1>25. IdsKnown
    <2>1. ids \in Seq(Nat) /\ Len(ids) = m
      <3>1. ids \in Seq(V) /\ V \subseteq Nat
        BY <1>4, <1>5
      <3>2. ids \in [1 .. m -> Nat]
        BY <1>4, <1>5
      <3>. QED
        BY <1>5, <3>2 DEF m
    <2>2. flow.edges \in Seq(ToSet(flow.edges))
      BY <1>15, OwnSeq
    <2>. QED
      BY <1>1, <1>5, <1>19, <2>1, <2>2 DEF IdsKnown
  <1>. QED
    BY <1>24, <1>25

-----------------------------------------------------------------------------
(* The classes, through the whole call.                                    *)

\* The classes are the cycle-equivalence classes.
ClassInv == /\ classes \in [Input -> Nat \ {0}]
            /\ \A a, b \in Input : classes[a] = classes[b] <=> Same(a, b)

\* The invariant of the whole call: the flowgraph stays what it is, the forest is
\* flat while pairs are joined, and the classes are right from then on.
SeseInv ==
    /\ Net /\ IdsKnown
    /\ phase \in {"search", "brackets", "direct", "classified", "tree", "done"}
    /\ phase \in {"search", "brackets"} => joining = [parent |-> [e \in Input |-> e], left |-> {}]
    /\ phase = "direct" => Flat(joining.parent, joining.left)
    /\ phase \in {"classified", "tree", "done"} => ClassInv

-----------------------------------------------------------------------------
\* No step changes the flowgraph, and what is said of it stays true.
LEMMA Fixed ==
    ASSUME flow' = flow
    PROVE  /\ Input' = Input /\ Nodes' = Nodes /\ Net' = Net /\ IdsKnown' = IdsKnown
           /\ Cycles' = Cycles /\ Pairs' = Pairs
  <1>1. Input' = Input /\ Nodes' = Nodes
    BY DEF Input, Nodes
  <1>2. IdsKnown' = IdsKnown
    BY DEF IdsKnown
  <1>3. Cycles' = Cycles
    BY <1>1 DEF Cycles, Closed
  <1>4. Pairs' = Pairs
    BY <1>1, <1>3 DEF Pairs, Same
  <1>5. Original' = Original
    BY <1>1 DEF Original
  <1>6. Froms({})' = Froms({}) /\ Tos({})' = Tos({})
    BY <1>1 DEF Froms, Tos, From, To
  <1>7. Net' = Net
    BY <1>1, <1>5, <1>6 DEF Net, From, To
  <1>. QED
    BY <1>1, <1>2, <1>3, <1>4, <1>7

\* The forest is judged by the flowgraph alone.
LEMMA FixedFlat ==
    ASSUME flow' = flow, Flat(joining'.parent, joining'.left)
    PROVE  Flat(joining.parent, joining.left)'
  BY Fixed DEF Flat, Same

\* So are the classes.
LEMMA FixedClasses ==
    ASSUME flow' = flow, classes' \in [Input -> Nat \ {0}],
           \A a, b \in Input : classes'[a] = classes'[b] <=> Same(a, b)
    PROVE  ClassInv'
  BY Fixed DEF ClassInv, Same

-----------------------------------------------------------------------------
\* The flowgraph and the empty arrays compute_sese starts with.
LEMMA InitSeseInv == Init => SeseInv
  <1>. SUFFICES ASSUME Init
                PROVE  SeseInv
    OBVIOUS
  <1>1. PICK g \in Graphs : Call(Flowgraph(g))
    BY DEF Init
  <1>2. /\ flow = Flowgraph(g) /\ phase = "search"
        /\ joining = [parent |-> [e \in 1 .. Len(Flowgraph(g).edges) |-> e], left |-> {}]
    BY <1>1 DEF Call
  <1>3. Net /\ IdsKnown
    BY <1>2, FlowNet
  <1>4. joining = [parent |-> [e \in Input |-> e], left |-> {}]
    BY <1>2 DEF Input
  <1>. QED
    BY <1>2, <1>3, <1>4 DEF SeseInv

\* Where direct_cycle_classes starts, after a failed check or a missing bracket.
LEMMA DirectStarts ==
    ASSUME SeseInv, phase = "brackets", ClassifyDirectly, UNCHANGED flow
    PROVE  SeseInv'
  <1>1. /\ Net /\ IdsKnown /\ joining = [parent |-> [e \in Input |-> e], left |-> {}]
    BY DEF SeseInv
  <1>. DEFINE L == {p \in Input \X Input : p[1] < p[2] /\ cycle_equivalent(p[1], p[2])}
  <1>2. L = Pairs
    <2>1. ASSUME NEW p \in Input \X Input, p[1] < p[2]
          PROVE  cycle_equivalent(p[1], p[2]) <=> Same(p[1], p[2])
      <3>1. p[1] \in Input /\ p[2] \in Input /\ p[1] # p[2]
        <4>1. p[1] \in Input /\ p[2] \in Input
          OBVIOUS
        <4>2. \A i \in Input : i \in Nat
          BY <1>1 DEF Net, Input
        <4>. QED
          BY <2>1, <4>1, <4>2
      <3>. QED
        BY <1>1, <3>1, EquivalentSame
    <2>. QED
      BY <2>1 DEF Pairs
  <1>3. joining'.parent = [e \in Input |-> e] /\ joining'.left = Pairs /\ phase' = "direct"
    <2>1. joining' = [joining EXCEPT !.left = L] /\ phase' = "direct"
      BY DEF ClassifyDirectly
    <2>. HIDE DEF L
    <2>. QED
      BY <1>1, <1>2, <2>1
  <1>4. Flat(joining'.parent, joining'.left)
    BY <1>1, <1>3, FlatStart
  <1>5. Flat(joining.parent, joining.left)'
    BY <1>4, FixedFlat
  <1>. QED
    BY <1>1, <1>3, <1>5, Fixed DEF SeseInv

\* The check of the partition includes each edge and itself, and fails for the
\* synthetic edge back to the root: the partition of the brackets is never kept.
LEMMA NeverValid == ASSUME Net PROVE ~valid
  <1>1. PICK e \in Input \ Original : From(e) = flow.n /\ To(e) = flow.root
    BY DEF Net
  <1>2. Path({}, flow.root, flow.n)
    <2>1. flow.n \in Nodes
      BY DEF Net, Nodes
    <2>2. flow.n \in Reached(flow.n, Input, Froms({}), Tos({}), flow.root)
      BY <2>1 DEF Net
    <2>3. Input \ {} = Input
      OBVIOUS
    <2>. QED
      BY <2>2, <2>3 DEF Path
  <1>3. Path({e}, flow.root, flow.n)
    <2>1. flow.root \in Nodes /\ {} \cup {e} = {e}
      BY EndTypes
    <2>. QED
      BY <1>1, <1>2, <2>1, PathBefore
  <1>4. ~cycle_equivalent(e, e)
    BY <1>1, <1>3, EquivalentPaths
  <1>. QED
    BY <1>1, <1>4 DEF valid

\* One union keeps the invariant.
LEMMA JoinSeseInv == ASSUME SeseInv, Join PROVE SeseInv'
  <1>1. /\ Net /\ IdsKnown /\ Flat(joining.parent, joining.left) /\ phase = "direct"
        /\ flow' = flow /\ phase' = phase
    BY DEF SeseInv, Join
  <1>2. PICK p \in joining.left :
          /\ \A q \in joining.left : p[1] < q[1] \/ (p[1] = q[1] /\ p[2] <= q[2])
          /\ joining' = [parent |-> union(p[1], p[2]), left |-> joining.left \ {p}]
    BY DEF Join
  <1>3. \A q \in joining.left : NoLater(p, q)
    BY <1>2 DEF NoLater
  <1>. DEFINE parent == joining.parent
  <1>4. /\ parent \in [Input -> Input] /\ \A e \in Input : parent[parent[e]] = parent[e]
        /\ p[1] \in Input /\ p[2] \in Input
    BY <1>1 DEF Flat, Pairs
  <1>5. find(p[1]) = parent[p[1]] /\ find(p[2]) = parent[p[2]]
    BY <1>4, FindIs
  <1>6. union(p[1], p[2]) = [parent EXCEPT ![parent[p[2]]] = parent[p[1]]]
    BY <1>5 DEF union
  <1>7. Flat([parent EXCEPT ![parent[p[2]]] = parent[p[1]]], joining.left \ {p})
    BY <1>1, <1>3, JoinKeeps
  <1>8. Flat(joining'.parent, joining'.left)
    BY <1>2, <1>6, <1>7
  <1>9. Flat(joining.parent, joining.left)'
    BY <1>1, <1>8, FixedFlat
  <1>. QED
    BY <1>1, <1>9, Fixed DEF SeseInv

\* The numbers direct_cycle_classes returns are the classes.
LEMMA LabelSeseInv == ASSUME SeseInv, Label PROVE SeseInv'
  <1>1. /\ Net /\ IdsKnown /\ Flat(joining.parent, {}) /\ flow' = flow /\ phase' = "classified"
    BY DEF SeseInv, Label
  <1>. DEFINE parent == joining.parent
              first(e) == Min({d \in Input : find(d) = find(e)})
              label == [e \in Input |-> Cardinality({parent[d] : d \in 1 .. parent[e]})]
  <1>2. /\ parent \in [Input -> Input]
        /\ \A e \in Input : parent[e] <= e /\ parent[parent[e]] = parent[e]
    BY <1>1 DEF Flat
  <1>3. \A e \in Input : find(e) = parent[e]
    BY <1>2, FindIs
  <1>4. Input \subseteq Nat /\ \A i \in Input : 1 .. i \subseteq Input
    BY <1>1 DEF Net, Input
  <1>5. ASSUME NEW e \in Input
        PROVE  first(e) = parent[e]
    <2>. DEFINE S == {d \in Input : find(d) = find(e)}
    <2>1. parent[e] \in S /\ S \subseteq Input
      BY <1>2, <1>3
    <2>2. \A d \in S : parent[d] = parent[e] /\ parent[d] <= d
      BY <1>2, <1>3
    <2>. DEFINE r == parent[e]
    <2>3. r \in S /\ S \subseteq Nat /\ \A d \in S : r <= d
      BY <1>4, <2>1, <2>2
    <2>4. Min(S) = r
      <3>. HIDE DEF S, r
      <3>1. \A x \in S : (\A y \in S : x <= y) => x = r
        BY <2>3
      <3>. QED
        BY <2>3, <3>1 DEF Min
    <2>. QED
      BY <2>4
  <1>6. ASSUME NEW e \in Input
        PROVE  Cardinality({find(d) : d \in 1 .. first(e)})
                 = Cardinality({parent[d] : d \in 1 .. parent[e]})
    <2>1. 1 .. parent[e] \subseteq Input
      BY <1>2, <1>4
    <2>2. {find(d) : d \in 1 .. parent[e]} = {parent[d] : d \in 1 .. parent[e]}
      BY <1>3, <2>1
    <2>3. first(e) = parent[e]
      BY <1>5
    <2>. HIDE DEF first
    <2>. QED
      BY <2>2, <2>3
  <1>7. classes' = label
    <2>1. classes' = [e \in Input |-> Cardinality({find(d) : d \in 1 .. first(e)})]
      BY DEF Label
    <2>. DEFINE lhs(e) == Cardinality({find(d) : d \in 1 .. first(e)})
                rhs(e) == Cardinality({parent[d] : d \in 1 .. parent[e]})
    <2>2. \A e \in Input : lhs(e) = rhs(e)
      <3>. HIDE DEF first
      <3>. QED
        BY <1>6
    <2>3. classes' = [e \in Input |-> lhs(e)] /\ label = [e \in Input |-> rhs(e)]
      <3>. HIDE DEF first
      <3>. QED
        BY <2>1
    <2>. HIDE DEF lhs, rhs, label
    <2>. QED
      BY <2>2, <2>3
  <1>8. /\ \A a \in Input : label[a] \in Nat \ {0}
        /\ \A a, b \in Input : label[a] = label[b] <=> Same(a, b)
    <2>. DEFINE l == label
    <2>1. l = [e \in Input |-> Cardinality({parent[d] : d \in 1 .. parent[e]})]
      OBVIOUS
    <2>. HIDE DEF l
    <2>2. /\ \A a \in Input : l[a] \in Nat \ {0}
          /\ \A a, b \in Input : l[a] = l[b] <=> Same(a, b)
      BY <1>1, <2>1, LabelTells
    <2>. QED
      BY <2>2 DEF l
  <1>9. label \in [Input -> Nat \ {0}]
    <2>1. label = [e \in Input |-> label[e]]
      OBVIOUS
    <2>. HIDE DEF label
    <2>. QED
      BY <1>8, <2>1
  <1>. HIDE DEF label
  <1>10. ClassInv'
    BY <1>1, <1>7, <1>8, <1>9, FixedClasses
  <1>. QED
    BY <1>1, <1>10, Fixed DEF SeseInv

\* Every step of compute_sese keeps the invariant.
LEMMA StepSeseInv == SeseInv /\ [Next]_vars => SeseInv'
  <1>. SUFFICES ASSUME SeseInv, [Next]_vars
                PROVE  SeseInv'
    OBVIOUS
  <1>0. Net /\ IdsKnown
    BY DEF SeseInv
  <1>1. ASSUME flow' = flow, phase' = phase, joining' = joining, classes' = classes
        PROVE  SeseInv'
    <2>1. phase = "direct" => Flat(joining.parent, joining.left)'
      BY <1>1, FixedFlat DEF SeseInv
    <2>2. phase \in {"classified", "tree", "done"} => ClassInv'
      BY <1>1, FixedClasses DEF SeseInv, ClassInv
    <2>. QED
      BY <1>1, <2>1, <2>2, Fixed DEF SeseInv
  <1>2. CASE Descend
    BY <1>1, <1>2 DEF Descend
  <1>3. CASE Return
    <2>1. /\ phase = "search" /\ phase' \in {"search", "brackets"}
          /\ flow' = flow /\ joining' = joining
      BY <1>3 DEF Return
    <2>. QED
      BY <2>1, Fixed DEF SeseInv
  <1>4. CASE Bracket
    BY <1>1, <1>4 DEF Bracket
  <1>5. CASE NoBracket
    BY <1>5, DirectStarts DEF NoBracket
  <1>6. CASE Validate
    <2>1. ~valid
      BY <1>0, NeverValid
    <2>. QED
      BY <1>6, <2>1, DirectStarts DEF Validate
  <1>7. CASE Join
    BY <1>7, JoinSeseInv
  <1>8. CASE Label
    BY <1>8, LabelSeseInv
  <1>9. CASE Select
    <2>1. phase = "classified" /\ phase' = "tree" /\ flow' = flow /\ classes' = classes
      BY <1>9 DEF Select
    <2>2. ClassInv'
      BY <2>1, FixedClasses DEF SeseInv, ClassInv
    <2>. QED
      BY <2>1, <2>2, Fixed DEF SeseInv
  <1>10. CASE AddRegion
    BY <1>1, <1>10 DEF AddRegion, cycleVars
  <1>11. CASE AssignNodes
    <2>1. phase = "tree" /\ phase' = "done" /\ flow' = flow /\ classes' = classes
      BY <1>11 DEF AssignNodes
    <2>2. ClassInv'
      BY <2>1, FixedClasses DEF SeseInv, ClassInv
    <2>. QED
      BY <2>1, <2>2, Fixed DEF SeseInv
  <1>12. CASE UNCHANGED vars
    BY <1>1, <1>12 DEF vars, cycleVars
  <1>. QED
    BY <1>2, <1>3, <1>4, <1>5, <1>6, <1>7, <1>8, <1>9, <1>10, <1>11, <1>12
       DEF Next, Classify, CycleNext, Done

\* compute_sese works on a proper network all the time, and from the moment its
\* edges have classes these are the cycle-equivalence classes.
THEOREM SeseInvariant == Spec => []SeseInv
  <1>1. SeseInv /\ [Next]_vars => SeseInv'
    BY StepSeseInv
  <1>. QED
    BY <1>1, InitSeseInv, PTL DEF Spec

\* Whatever the graph, the classes jpp_cycle_classes returns tell two edges apart
\* exactly when some cycle goes through one of them only.
THEOREM ClassesExactAlways == Spec => []ClassesExact
  <1>1. SeseInv => ClassesExact
    <2>. SUFFICES ASSUME SeseInv, phase = "classified"
                  PROVE  \A a, b \in Input :
                            (classes[a] = classes[b]) <=> (\A C \in Cycles : a \in C <=> b \in C)
      BY DEF ClassesExact
    <2>. QED
      BY DEF SeseInv, ClassInv, Same
  <1>. QED
    BY <1>1, SeseInvariant, PTL

-----------------------------------------------------------------------------
(* The regions that the candidates bound.                                  *)

\* The nodes but the synthetic exit.
Inner == 1 .. flow.n - 1

\* The nodes between a and b.
Region(a, b) == {x \in Inner : Path({b}, To(a), x) /\ Path({a}, x, From(b))}

\* What a pair of edges needs to bound a region, in terms of paths.
Bounded(a, b) ==
    /\ a \in Original /\ b \in Original /\ a # b
    /\ ~Path({b}, To(a), From(a)) /\ ~Path({a}, To(b), From(b))
    /\ ~Path({a}, flow.root, From(b)) /\ ~Path({b}, To(a), flow.n)

\* What Net says of the original nodes and edges.
LEMMA InnerFacts ==
    ASSUME Net
    PROVE  /\ Inner \subseteq Nodes /\ \A x \in Nodes : x \in Inner \/ x = flow.n
           /\ flow.n \notin Inner /\ flow.root \in Inner
           /\ \A e \in Original : e \in Input /\ From(e) \in Inner /\ To(e) \in Inner
           /\ \A e \in Input : From(e) \in Nodes /\ To(e) \in Nodes
           /\ \A e \in Input : From(e) = flow.n => To(e) = flow.root
           /\ \A x \in Nodes : Path({}, flow.root, x)
  <1>1. Inner \subseteq Nodes /\ (\A x \in Nodes : x \in Inner \/ x = flow.n)
        /\ flow.n \notin Inner /\ flow.root \in Inner
    BY DEF Net, Inner, Nodes
  <1>2. \A e \in Original : e \in Input /\ From(e) \in Inner /\ To(e) \in Inner
    BY DEF Net, Inner, Original
  <1>3. /\ \A e \in Input : From(e) \in Nodes /\ To(e) \in Nodes
        /\ \A e \in Input : From(e) = flow.n => To(e) = flow.root
    BY DEF Net
  <1>4. \A x \in Nodes : Path({}, flow.root, x)
    <2>1. Input \ {} = Input
      OBVIOUS
    <2>. QED
      BY <2>1 DEF Net, Path
  <1>. QED
    BY <1>1, <1>2, <1>3, <1>4

\* The conditions the code tests are those.
LEMMA BoundsAre ==
    ASSUME Net, ClassInv, NEW a \in Original, NEW b \in Original
    PROVE  /\ Bounds(a, b) <=> Bounded(a, b)
           /\ region_nodes(a, b) = Region(a, b)
  <1>1. /\ a \in Input /\ b \in Input /\ flow.n \in Nodes /\ flow.root \in Nodes
        /\ From(a) \in Nodes /\ To(a) \in Nodes /\ From(b) \in Nodes /\ To(b) \in Nodes
    BY EndTypes, InnerFacts
  <1>2. edge_dominates(a, b) <=> ~Path({a}, flow.root, From(b))
    BY <1>1, ReachableFrom DEF edge_dominates, From
  <1>3. edge_postdominates(b, a) <=> ~Path({b}, To(a), flow.n)
    BY <1>1, ReachableTo DEF edge_postdominates, To
  <1>4. a # b => (classes[a] # 0 /\ classes[a] = classes[b]
                    <=> ~Path({b}, To(a), From(a)) /\ ~Path({a}, To(b), From(b)))
    BY <1>1, EquivalentSame, EquivalentPaths DEF ClassInv
  <1>5. Bounds(a, b) <=> Bounded(a, b)
    BY <1>2, <1>3, <1>4 DEF Bounds, Bounded
  <1>6. /\ reachable(flow.edges[a].to, {b}, FALSE) = {y \in Nodes : Path({b}, To(a), y)}
        /\ reachable(flow.edges[b].from, {a}, TRUE) = {y \in Nodes : Path({a}, y, From(b))}
    BY <1>1, ReachableFrom, ReachableTo DEF From, To
  <1>7. region_nodes(a, b) = Region(a, b)
    <2>1. \A x \in 1 .. flow.n - 1 : x \in Nodes
      BY InnerFacts DEF Inner
    <2>. QED
      BY <1>6, <2>1 DEF region_nodes, Region, Inner
  <1>. QED
    BY <1>5, <1>7

\* The candidates are the pairs so bounded, with their region, if it is not empty.
LEMMA CandidateIs ==
    ASSUME Net, ClassInv
    PROVE  \A c : c \in candidates <=>
              \E a, b \in Original : /\ c = [entry |-> a, exit |-> b, nodes |-> Region(a, b)]
                                     /\ Bounded(a, b) /\ Region(a, b) # {}
  <1>1. ASSUME NEW c \in candidates
        PROVE  \E a, b \in Original : /\ c = [entry |-> a, exit |-> b, nodes |-> Region(a, b)]
                                      /\ Bounded(a, b) /\ Region(a, b) # {}
    <2>1. PICK p \in Original \X Original :
            /\ c = [entry |-> p[1], exit |-> p[2], nodes |-> region_nodes(p[1], p[2])]
            /\ Bounds(p[1], p[2]) /\ c.nodes # {}
      BY DEF candidates
    <2>2. p[1] \in Original /\ p[2] \in Original
      OBVIOUS
    <2>3. c.nodes = region_nodes(p[1], p[2])
      BY <2>1
    <2>. QED
      BY <2>1, <2>2, <2>3, BoundsAre
  <1>2. ASSUME NEW a \in Original, NEW b \in Original, Bounded(a, b), Region(a, b) # {}
        PROVE  [entry |-> a, exit |-> b, nodes |-> Region(a, b)] \in candidates
    <2>. DEFINE c == [entry |-> a, exit |-> b, nodes |-> region_nodes(a, b)]
                p == <<a, b>>
    <2>1. Bounds(a, b) /\ region_nodes(a, b) = Region(a, b)
      BY <1>2, BoundsAre
    <2>2. p \in {q \in Original \X Original : Bounds(q[1], q[2])} /\ p[1] = a /\ p[2] = b
      BY <2>1
    <2>3. c.nodes # {}
      BY <1>2, <2>1
    <2>4. c \in candidates
      <3>1. c = [entry |-> p[1], exit |-> p[2], nodes |-> region_nodes(p[1], p[2])]
        BY <2>2
      <3>. HIDE DEF c, p
      <3>. QED
        BY <2>2, <2>3, <3>1 DEF candidates
    <2>. QED
      BY <2>1, <2>4
  <1>. QED
    BY <1>1, <1>2

-----------------------------------------------------------------------------
\* The boundary edges lead into and out of the region.
LEMMA RegionEnds ==
    ASSUME Net, NEW a, NEW b, Bounded(a, b), Region(a, b) # {}
    PROVE  /\ From(a) \notin Region(a, b) /\ To(a) \in Region(a, b)
           /\ From(b) \in Region(a, b) /\ To(b) \notin Region(a, b)
  <1>1. /\ a \in Input /\ b \in Input /\ a # b
        /\ From(a) \in Inner /\ To(a) \in Inner /\ From(b) \in Inner /\ To(b) \in Inner
        /\ From(a) \in Nodes /\ To(a) \in Nodes /\ From(b) \in Nodes /\ To(b) \in Nodes
        /\ ~Path({b}, To(a), From(a)) /\ ~Path({a}, To(b), From(b))
    BY InnerFacts DEF Bounded
  <1>2. PICK x \in Inner : Path({b}, To(a), x) /\ Path({a}, x, From(b))
    BY DEF Region
  <1>3. x \in Nodes /\ {b} \cup {a} = {a} \cup {b}
    BY InnerFacts
  <1>4. Path({a} \cup {b}, To(a), x)
    <2>1. SUFFICES ASSUME ~Path({b} \cup {a}, To(a), x)
                   PROVE  FALSE
      BY <1>3
    <2>2. Path({b} \cup {a}, To(a), From(a))
      BY <1>1, <1>2, <2>1, PathBefore
    <2>. QED
      BY <1>1, <2>2, PathLess
  <1>5. Path({a} \cup {b}, x, From(b))
    <2>1. SUFFICES ASSUME ~Path({a} \cup {b}, x, From(b))
                   PROVE  FALSE
      OBVIOUS
    <2>2. Path({a} \cup {b}, To(b), From(b))
      BY <1>1, <1>2, <1>3, <2>1, PathAfter
    <2>. QED
      BY <1>1, <2>2, PathLess
  <1>6. Path({a}, To(a), From(b)) /\ Path({b}, To(a), From(b))
    <2>1. Path({a} \cup {b}, To(a), From(b))
      BY <1>1, <1>3, <1>4, <1>5, PathTrans
    <2>. QED
      BY <1>1, <2>1, PathLess
  <1>. QED
    BY <1>1, <1>6, PathSelf DEF Region

\* No other edge leads into the region: the edges of the root's paths to it and
\* of the cycles through it pass the entry.
LEMMA RegionEntry ==
    ASSUME Net, NEW a, NEW b, Bounded(a, b), NEW e \in Input,
           From(e) \notin Region(a, b), To(e) \in Region(a, b)
    PROVE  e = a
  <1>. SUFFICES ASSUME e # a
                PROVE  FALSE
    OBVIOUS
  <1>1. /\ a \in Input /\ b \in Input /\ a # b
        /\ From(b) \in Nodes /\ To(a) \in Nodes /\ To(b) \in Nodes
        /\ ~Path({a}, To(b), From(b)) /\ ~Path({a}, flow.root, From(b)) /\ flow.root \in Nodes
    BY InnerFacts, EndTypes DEF Bounded
  <1>. DEFINE x == From(e)
  <1>2. x \in Nodes /\ To(e) \in Nodes /\ e \in Input \ {a}
    BY InnerFacts
  <1>3. Path({a}, x, From(b))
    <2>1. Path({a}, To(e), From(b))
      BY DEF Region
    <2>2. Path({a}, x, To(e))
      BY <1>2, PathSelf, PathEdge
    <2>. QED
      BY <1>2, <2>1, <2>2, PathTrans
  <1>4. ~Path({a}, flow.root, x)
    BY <1>1, <1>2, <1>3, PathTrans
  <1>5. x \in Inner
    <2>1. SUFFICES ASSUME x = flow.n
                   PROVE  FALSE
      BY <1>2, InnerFacts
    <2>2. To(e) = flow.root
      BY <2>1, InnerFacts
    <2>. QED
      BY <1>1, <2>2 DEF Region
  <1>6. ~Path({b}, To(a), x)
    BY <1>3, <1>5 DEF Region
  <1>7. Path({a}, To(a), x)
    <2>1. Path({}, flow.root, x) /\ {} \cup {a} = {a}
      BY <1>2, InnerFacts
    <2>. QED
      BY <1>1, <1>4, <2>1, PathAfter
  <1>8. ~Path({a} \cup {b}, To(a), x)
    BY <1>1, <1>6, PathLess
  <1>9. Path({a} \cup {b}, To(b), x)
    BY <1>1, <1>7, <1>8, PathAfter
  <1>10. Path({a}, To(b), x)
    BY <1>1, <1>9, PathLess
  <1>. HIDE DEF x
  <1>. QED
    BY <1>1, <1>2, <1>3, <1>10, PathTrans

\* No other edge leads out of it to a node with a way to the exit.
LEMMA RegionExit ==
    ASSUME Net, NEW a, NEW b, Bounded(a, b), NEW e \in Input,
           From(e) \in Region(a, b), To(e) \notin Region(a, b), Path({}, To(e), flow.n)
    PROVE  e = b
  <1>. SUFFICES ASSUME e # b
                PROVE  FALSE
    OBVIOUS
  <1>1. /\ a \in Input /\ b \in Input /\ a # b /\ flow.n \in Nodes
        /\ From(a) \in Nodes /\ From(b) \in Nodes /\ To(a) \in Nodes
        /\ ~Path({b}, To(a), From(a)) /\ ~Path({b}, To(a), flow.n)
    BY InnerFacts, EndTypes DEF Bounded
  <1>. DEFINE y == To(e)
  <1>2. y \in Nodes /\ e \in Input \ {b}
    BY InnerFacts
  <1>3. Path({b}, To(a), y)
    <2>1. Path({b}, To(a), From(e))
      BY DEF Region
    <2>. QED
      BY <1>1, <1>2, <2>1, PathEdge
  <1>4. ~Path({b}, y, flow.n)
    BY <1>1, <1>2, <1>3, PathTrans
  <1>5. y \in Inner
    BY <1>1, <1>2, <1>3, InnerFacts
  <1>6. ~Path({a}, y, From(b))
    BY <1>3, <1>5 DEF Region
  <1>7. Path({b}, y, From(b))
    <2>1. Path({}, y, flow.n) /\ {} \cup {b} = {b}
      OBVIOUS
    <2>. QED
      BY <1>1, <1>2, <1>4, <2>1, PathBefore
  <1>8. ~Path({b} \cup {a}, y, From(b))
    BY <1>2, <1>6, PathLess
  <1>9. Path({b} \cup {a}, y, From(a))
    BY <1>1, <1>2, <1>7, <1>8, PathBefore
  <1>10. Path({b}, y, From(a))
    BY <1>2, <1>9, PathLess
  <1>. HIDE DEF y
  <1>. QED
    BY <1>1, <1>2, <1>3, <1>10, PathTrans

\* The nodes that Ending names have a path to the exit.
LEMMA EndingIs ==
    ASSUME Net
    PROVE  Ending = {x \in Inner : Path({}, x, flow.n)}
  <1>1. reachable(flow.n, {}, TRUE) = {y \in Nodes : Path({}, y, flow.n)}
    <2>1. flow.n \in Nodes
      BY DEF Net, Nodes
    <2>. QED
      BY <2>1, ReachableTo
  <1>. QED
    BY <1>1, InnerFacts DEF Ending

\* That is what SingleEntryExit asks of the candidates.
LEMMA InvSingleEntryExit == SeseInv => SingleEntryExit
  <1>. SUFFICES ASSUME SeseInv, phase = "classified", NEW c \in candidates, NEW e \in Input
                PROVE  LET inside == {flow.edges[e].from, flow.edges[e].to} \cap c.nodes
                       IN /\ flow.edges[e].from \notin c.nodes /\ flow.edges[e].to \in c.nodes
                               => e = c.entry
                          /\ flow.edges[e].from \in c.nodes /\ flow.edges[e].to \notin c.nodes
                               => e = c.exit \/ flow.edges[e].to \notin Ending \cup {flow.n}
                          /\ e \in {c.entry, c.exit} => Cardinality(inside) = 1
    BY DEF SingleEntryExit
  <1>1. Net /\ ClassInv
    BY DEF SeseInv
  <1>2. PICK a \in Original, b \in Original :
          /\ c = [entry |-> a, exit |-> b, nodes |-> Region(a, b)]
          /\ Bounded(a, b) /\ Region(a, b) # {}
    BY <1>1, CandidateIs
  <1>3. c.entry = a /\ c.exit = b /\ c.nodes = Region(a, b)
    BY <1>2
  <1>4. From(e) \notin c.nodes /\ To(e) \in c.nodes => e = c.entry
    BY <1>1, <1>2, <1>3, RegionEntry
  <1>5. From(e) \in c.nodes /\ To(e) \notin c.nodes
          => e = c.exit \/ To(e) \notin Ending \cup {flow.n}
    <2>1. \A x \in Ending \cup {flow.n} : Path({}, x, flow.n)
      <3>1. flow.n \in Nodes
        BY <1>1 DEF Net, Nodes
      <3>2. Path({}, flow.n, flow.n)
        BY <1>1, <3>1, PathSelf
      <3>. QED
        BY <1>1, <3>2, EndingIs
    <2>. QED
      BY <1>1, <1>2, <1>3, <2>1, RegionExit
  <1>6. ASSUME e \in {c.entry, c.exit}
        PROVE  Cardinality({From(e), To(e)} \cap c.nodes) = 1
    <2>1. PICK x : {From(e), To(e)} \cap c.nodes = {x}
      BY <1>1, <1>2, <1>3, <1>6, RegionEnds
    <2>. QED
      BY <2>1, FS_Singleton
  <1>. QED
    BY <1>4, <1>5, <1>6 DEF From, To

\* Whatever the graph, a candidate of compute_sese_candidates is entered by its
\* entry edge only, and left by its exit edge only where a way to the exit is left.
THEOREM SingleEntryExitAlways == Spec => []SingleEntryExit
  BY InvSingleEntryExit, SeseInvariant, PTL

-----------------------------------------------------------------------------
(* The candidates in order.                                                *)

\* The two orders in which the code sorts the candidates, as relations.
LargerOn == {p \in candidates \X candidates : Larger(p[1], p[2])}
SmallerOn == {p \in candidates \X candidates : Smaller(p[1], p[2])}

\* A set of nodes is finite.
LEMMA InnerFinite ==
    ASSUME Net, NEW S \in SUBSET Inner
    PROVE  IsFiniteSet(S) /\ Cardinality(S) \in Nat
  <1>1. IsFiniteSet(Inner)
    <2>. DEFINE m == flow.n - 1
    <2>1. m \in Int /\ 1 \in Int
      BY DEF Net
    <2>. HIDE DEF m
    <2>2. IsFiniteSet(1 .. m)
      BY <2>1, FS_Interval
    <2>. QED
      BY <2>2 DEF Inner, m
  <1>. QED
    BY <1>1, FS_Subset, FS_CardinalityType

\* The parts of a candidate.
LEMMA CandidateFacts ==
    ASSUME Net, ClassInv, NEW c \in candidates
    PROVE  /\ c.entry \in Nat /\ c.exit \in Nat /\ c.entry \in Original /\ c.exit \in Original
           /\ c.nodes \in SUBSET Inner /\ IsFiniteSet(c.nodes) /\ Cardinality(c.nodes) \in Nat
           /\ c.nodes = Region(c.entry, c.exit) /\ c.nodes # {} /\ Bounded(c.entry, c.exit)
           /\ c = [entry |-> c.entry, exit |-> c.exit, nodes |-> Region(c.entry, c.exit)]
  <1>1. PICK a \in Original, b \in Original :
          /\ c = [entry |-> a, exit |-> b, nodes |-> Region(a, b)]
          /\ Bounded(a, b) /\ Region(a, b) # {}
    BY CandidateIs
  <1>2. c.entry = a /\ c.exit = b /\ c.nodes = Region(a, b)
    BY <1>1
  <1>3. a \in Nat /\ b \in Nat
    BY DEF Original, Input, Net
  <1>4. c.nodes \in SUBSET Inner
    BY <1>2 DEF Region
  <1>. QED
    BY <1>1, <1>2, <1>3, <1>4, InnerFinite

\* There are finitely many candidates.
LEMMA CandidatesFinite == ASSUME Net, ClassInv PROVE IsFiniteSet(candidates)
  <1>. DEFINE T == Input \X Input
              f == [c \in candidates |-> <<c.entry, c.exit>>]
  <1>1. \A c \in candidates : c.entry \in Input /\ c.exit \in Input
    BY CandidateFacts, InnerFacts
  <1>2. \A c, d \in candidates : c.entry = d.entry /\ c.exit = d.exit => c = d
    BY CandidateFacts
  <1>3. f \in [candidates -> T] /\ \A c, d \in candidates : f[c] = f[d] => c = d
    BY <1>1, <1>2
  <1>4. IsFiniteSet(T)
    BY EdgesFinite, FS_Product
  <1>. HIDE DEF f, T
  <1>5. f \in Injection(candidates, T)
    BY <1>3 DEF Injection, IsInjective
  <1>. QED
    BY <1>4, <1>5, FS_Injection

\* Both are strict total orders: ties in size are broken by the edges.
LEMMA CandidatesOrdered ==
    ASSUME Net, ClassInv
    PROVE  Orders(LargerOn, candidates) /\ Orders(SmallerOn, candidates)
  <1>. DEFINE C == candidates
  <1>1. \A c, d \in C : /\ <<c, d>> \in LargerOn <=> Larger(c, d)
                        /\ <<c, d>> \in SmallerOn <=> Smaller(c, d)
    BY DEF LargerOn, SmallerOn
  <1>2. \A c \in C : c.entry \in Nat /\ c.exit \in Nat /\ Cardinality(c.nodes) \in Nat
    BY CandidateFacts
  <1>3. \A c, d \in C : c.entry = d.entry /\ c.exit = d.exit => c = d
    BY CandidateFacts
  <1>. HIDE DEF C
  <1>4. /\ \A c \in C : ~Larger(c, c) /\ ~Smaller(c, c)
        /\ \A c, d \in C : c # d => /\ Larger(c, d) \/ Larger(d, c)
                                    /\ Smaller(c, d) \/ Smaller(d, c)
    <2>1. ASSUME NEW c \in C, NEW d \in C
          PROVE  /\ ~Larger(c, c) /\ ~Smaller(c, c)
                 /\ c # d => /\ Larger(c, d) \/ Larger(d, c)
                             /\ Smaller(c, d) \/ Smaller(d, c)
      <3>1. /\ c.entry \in Nat /\ c.exit \in Nat /\ Cardinality(c.nodes) \in Nat
            /\ d.entry \in Nat /\ d.exit \in Nat /\ Cardinality(d.nodes) \in Nat
            /\ c # d => c.entry # d.entry \/ c.exit # d.exit
        BY <1>2, <1>3
      <3>. QED
        BY ONLY <3>1 DEF Larger, Smaller, ByBoundary
    <2>. QED
      BY <2>1
  <1>5. \A c, d, e \in C : /\ Larger(c, d) /\ Larger(d, e) => Larger(c, e)
                           /\ Smaller(c, d) /\ Smaller(d, e) => Smaller(c, e)
    <2>1. ASSUME NEW c \in C, NEW d \in C, NEW e \in C
          PROVE  /\ Larger(c, d) /\ Larger(d, e) => Larger(c, e)
                 /\ Smaller(c, d) /\ Smaller(d, e) => Smaller(c, e)
      <3>1. /\ c.entry \in Nat /\ c.exit \in Nat /\ Cardinality(c.nodes) \in Nat
            /\ d.entry \in Nat /\ d.exit \in Nat /\ Cardinality(d.nodes) \in Nat
            /\ e.entry \in Nat /\ e.exit \in Nat /\ Cardinality(e.nodes) \in Nat
        BY <1>2
      <3>. QED
        BY ONLY <3>1 DEF Larger, Smaller, ByBoundary
    <2>. QED
      BY <2>1
  <1>6. Orders(LargerOn, C)
    BY <1>1, <1>4, <1>5 DEF Orders
  <1>7. Orders(SmallerOn, C)
    BY <1>1, <1>4, <1>5 DEF Orders
  <1>. QED
    BY <1>6, <1>7 DEF C

\* An order of a set orders its parts.
LEMMA OrdersPart ==
    ASSUME NEW R, NEW S, Orders(R, S), NEW T \in SUBSET S
    PROVE  Orders(R, T)
  BY DEF Orders

\* A finite ordered set has a first element.
LEMMA OrdersFirst ==
    ASSUME NEW R, NEW S, IsFiniteSet(S), S # {}, Orders(R, S)
    PROVE  \E x \in S : \A y \in S : y = x \/ <<x, y>> \in R
  <1>1. Cardinality(S) \in Nat \ {0}
    BY FS_CardinalityType, FS_EmptySet
  <1>2. 1 \in 1 .. Cardinality(S)
    BY <1>1
  <1>3. PICK x \in S : Rank(R, S, x) = 1
    BY <1>2, RankFacts
  <1>4. ASSUME NEW y \in S, y # x, <<x, y>> \notin R
        PROVE  FALSE
    <2>1. <<y, x>> \in R
      BY <1>4 DEF Orders
    <2>2. Rank(R, S, y) < 1 /\ Rank(R, S, y) \in 1 .. Cardinality(S)
      BY <1>3, <2>1, RankFacts
    <2>. QED
      BY <1>1, <2>2
  <1>. QED
    BY <1>4

\* The lists of candidates the code sorts.
LEMMA SortedLists ==
    ASSUME Net, ClassInv, NEW S \in SUBSET candidates
    PROVE  /\ IsFiniteSet(S) /\ Lists(Sorted(S, Larger), S)
           /\ \A i, j \in 1 .. Cardinality(S) :
                 i < j => Larger(Sorted(S, Larger)[i], Sorted(S, Larger)[j])
  <1>1. IsFiniteSet(S) /\ Orders(LargerOn, S)
    BY CandidatesFinite, CandidatesOrdered, FS_Subset, OrdersPart
  <1>2. ASSUME NEW c \in S
        PROVE  Cardinality({d \in S : Larger(d, c)}) + 1 = Rank(LargerOn, S, c)
    <2>1. {d \in S : Larger(d, c)} = Below(LargerOn, S, c)
      BY DEF Below, LargerOn
    <2>. QED
      BY <2>1 DEF Rank
  <1>. DEFINE f == Sorted(S, Larger)
  <1>3. f \in [1 .. Cardinality(S) -> S]
        /\ \A i \in 1 .. Cardinality(S) : Rank(LargerOn, S, f[i]) = i
    <2>. DEFINE e(i) == CHOOSE c \in S : Cardinality({d \in S : Larger(d, c)}) + 1 = i
    <2>1. f = [i \in 1 .. Cardinality(S) |-> e(i)]
      BY DEF Sorted
    <2>2. \A i \in 1 .. Cardinality(S) :
            \E c \in S : Cardinality({d \in S : Larger(d, c)}) + 1 = i
      BY <1>1, <1>2, RankFacts
    <2>3. \A i \in 1 .. Cardinality(S) : e(i) \in S /\ Rank(LargerOn, S, e(i)) = i
      BY <1>2, <2>2
    <2>. HIDE DEF e, f
    <2>. QED
      BY <2>1, <2>3
  <1>. HIDE DEF f
  <1>6. /\ Lists(f, S)
        /\ \A i, j \in 1 .. Cardinality(S) : i < j => <<f[i], f[j]>> \in LargerOn
    BY <1>1, <1>3, RankLists
  <1>7. \A i, j \in 1 .. Cardinality(S) : i < j => Larger(f[i], f[j])
    BY <1>6 DEF LargerOn
  <1>. QED
    BY <1>1, <1>6, <1>7 DEF f

\* What smallest_for_boundary finds.
LEMMA SmallestIs ==
    ASSUME Net, ClassInv, NEW c \in candidates, NEW e \in {c.entry, c.exit},
           NEW m, m = smallest_for_boundary(candidates, e)
    PROVE  /\ m \in candidates /\ e \in {m.entry, m.exit}
           /\ \A d \in candidates :
                 e \in {d.entry, d.exit} => Cardinality(m.nodes) <= Cardinality(d.nodes)
  <1>. DEFINE S == {d \in candidates : e \in {d.entry, d.exit}}
  <1>1. IsFiniteSet(S) /\ Orders(SmallerOn, S)
    BY CandidatesFinite, CandidatesOrdered, FS_Subset, OrdersPart
  <1>2. c \in S
    OBVIOUS
  <1>3. PICK x \in S : \A y \in S : y = x \/ <<x, y>> \in SmallerOn
    <2>. HIDE DEF S
    <2>. QED
      BY <1>1, <1>2, OrdersFirst
  <1>4. \A d \in candidates : e \in {d.entry, d.exit} => d = x \/ Smaller(x, d)
    BY <1>3 DEF SmallerOn
  <1>5. /\ m \in candidates /\ e \in {m.entry, m.exit}
        /\ \A d \in candidates : e \in {d.entry, d.exit} => d = m \/ Smaller(m, d)
    BY <1>3, <1>4 DEF smallest_for_boundary
  <1>6. ASSUME NEW d \in candidates, e \in {d.entry, d.exit}
        PROVE  Cardinality(m.nodes) <= Cardinality(d.nodes)
    <2>1. Cardinality(m.nodes) \in Nat /\ Cardinality(d.nodes) \in Nat
      BY <1>5, CandidateFacts
    <2>2. d = m \/ Smaller(m, d)
      BY <1>5, <1>6
    <2>. QED
      BY <2>1, <2>2 DEF Smaller
  <1>. QED
    BY <1>5, <1>6

-----------------------------------------------------------------------------
(* Proper flowgraphs: how two regions can cross.                           *)

\* One edge leads into U, one out of it.
OneIn(U, a) == \A e \in Input : (From(e) \notin U /\ To(e) \in U) <=> e = a
\* One edge leads out of U.
OneOut(U, b) == \A e \in Input : (From(e) \in U /\ To(e) \notin U) <=> e = b

\* In a proper flowgraph every node has a path to the exit.
LEMMA TerminatingIs ==
    ASSUME Net, Terminating
    PROVE  \A x \in Nodes : Path({}, x, flow.n)
  <1>1. flow.n \in Nodes
    BY DEF Net, Nodes
  <1>2. Path({}, flow.n, flow.n)
    BY <1>1, PathSelf
  <1>. QED
    BY <1>2, EndingIs, InnerFacts DEF Terminating, Inner

\* In a proper flowgraph a region has one edge in and one edge out.
LEMMA RegionOne ==
    ASSUME Net, Terminating, NEW a, NEW b, Bounded(a, b), Region(a, b) # {}
    PROVE  /\ OneIn(Region(a, b), a) /\ OneOut(Region(a, b), b)
           /\ Region(a, b) \in SUBSET Inner /\ flow.root \notin Region(a, b)
  <1>1. a \in Input /\ b \in Input /\ a \in Original
    BY InnerFacts DEF Bounded
  <1>2. OneIn(Region(a, b), a)
    BY <1>1, RegionEntry, RegionEnds DEF OneIn
  <1>3. OneOut(Region(a, b), b)
    BY <1>1, RegionExit, RegionEnds, TerminatingIs, InnerFacts DEF OneOut
  <1>4. flow.root \notin Region(a, b)
    <2>1. PICK e \in Input \ Original : From(e) = flow.n /\ To(e) = flow.root
      BY DEF Net
    <2>2. flow.n \notin Region(a, b)
      BY InnerFacts DEF Region
    <2>. QED
      BY <1>1, <1>2, <2>1, <2>2 DEF OneIn
  <1>. QED
    BY <1>2, <1>3, <1>4 DEF Region

\* Something leads into and out of any part of it.
LEMMA SomeIn ==
    ASSUME Net, NEW U \in SUBSET Inner, U # {}, flow.root \notin U
    PROVE  \E e \in Input : From(e) \notin U /\ To(e) \in U
  <1>1. SUFFICES ASSUME \A e \in Input : From(e) \notin U => To(e) \notin U
                 PROVE  FALSE
    OBVIOUS
  <1>2. PICK x \in U : TRUE
    OBVIOUS
  <1>. DEFINE S == Nodes \ U
  <1>3. x \in Nodes /\ Path({}, flow.root, x) /\ flow.root \in Nodes
    BY <1>2, InnerFacts
  <1>4. S \in SUBSET Nodes /\ flow.root \in S /\ \A e \in Input \ {} : From(e) \in S => To(e) \in S
    BY <1>1, <1>3, InnerFacts
  <1>5. x \in S
    <2>. HIDE DEF S
    <2>. QED
      BY <1>3, <1>4, PathInside
  <1>. QED
    BY <1>2, <1>5

\* The exit is reached from any part of a proper flowgraph.
LEMMA SomeOut ==
    ASSUME Net, Terminating, NEW U \in SUBSET Inner, U # {}
    PROVE  \E e \in Input : From(e) \in U /\ To(e) \notin U
  <1>1. SUFFICES ASSUME \A e \in Input \ {} : From(e) \in U => To(e) \in U
                 PROVE  FALSE
    OBVIOUS
  <1>2. PICK x \in U : TRUE
    OBVIOUS
  <1>3. x \in Nodes /\ Path({}, x, flow.n) /\ U \in SUBSET Nodes /\ flow.n \notin U
    BY <1>2, InnerFacts, TerminatingIs
  <1>. QED
    BY <1>1, <1>2, <1>3, PathInside

\* Such a part of a proper flowgraph is the region of its two edges.
LEMMA OneIsRegion ==
    ASSUME Net, Terminating, NEW U \in SUBSET Inner, U # {}, flow.root \notin U,
           NEW a \in Original, NEW b \in Original, OneIn(U, a), OneOut(U, b)
    PROVE  Bounded(a, b) /\ Region(a, b) = U
  <1>1. /\ a \in Input /\ b \in Input /\ flow.n \notin U /\ flow.n \in Nodes /\ flow.root \in Nodes
        /\ From(a) \notin U /\ To(a) \in U /\ From(b) \in U /\ To(b) \notin U
        /\ From(a) \in Nodes /\ To(a) \in Nodes /\ From(b) \in Nodes /\ To(b) \in Nodes
    BY InnerFacts, EndTypes DEF OneIn, OneOut
  <1>2. a # b
    BY <1>1
  <1>. DEFINE V == Nodes \ U
  <1>3. /\ U \in SUBSET Nodes /\ V \in SUBSET Nodes
        /\ \A e \in Input \ {b} : From(e) \in U => To(e) \in U
        /\ \A e \in Input \ {a} : From(e) \in V => To(e) \in V
    BY InnerFacts DEF OneIn, OneOut
  <1>4. \A x \in U : \A y : Path({b}, x, y) => y \in U
    BY <1>3, PathInside
  <1>5. \A x \in V : \A y : Path({a}, x, y) => y \in V
    <2>. HIDE DEF V
    <2>. QED
      BY <1>3, PathInside
  <1>6. Bounded(a, b)
    <2>1. /\ ~Path({b}, To(a), From(a)) /\ ~Path({b}, To(a), flow.n)
      BY <1>1, <1>4
    <2>2. /\ ~Path({a}, To(b), From(b)) /\ ~Path({a}, flow.root, From(b))
      BY <1>1, <1>5
    <2>. QED
      BY <1>2, <2>1, <2>2 DEF Bounded
  <1>7. ASSUME NEW x \in U
        PROVE  x \in Region(a, b)
    <2>1. x \in Nodes /\ x \in Inner
      BY InnerFacts
    <2>2. Path({a}, To(a), x)
      <3>1. ~Path({a}, flow.root, x)
        BY <1>1, <1>5
      <3>2. Path({}, flow.root, x) /\ {} \cup {a} = {a}
        BY <2>1, InnerFacts
      <3>. QED
        BY <1>1, <2>1, <3>1, <3>2, PathAfter
    <2>3. Path({a} \cup {b}, To(a), x)
      <3>1. SUFFICES ASSUME ~Path({a} \cup {b}, To(a), x)
                     PROVE  FALSE
        OBVIOUS
      <3>2. Path({a} \cup {b}, To(b), x)
        BY <1>1, <2>2, <3>1, PathAfter
      <3>3. Path({a}, To(b), x)
        BY <1>1, <3>2, PathLess
      <3>. QED
        BY <1>1, <1>5, <3>3
    <2>4. Path({b}, To(a), x)
      BY <1>1, <2>3, PathLess
    <2>5. Path({b}, x, From(b))
      <3>1. ~Path({b}, x, flow.n)
        BY <1>1, <1>4
      <3>2. Path({}, x, flow.n) /\ {} \cup {b} = {b}
        BY <2>1, TerminatingIs
      <3>. QED
        BY <1>1, <2>1, <3>1, <3>2, PathBefore
    <2>6. Path({b} \cup {a}, x, From(b))
      <3>1. SUFFICES ASSUME ~Path({b} \cup {a}, x, From(b))
                     PROVE  FALSE
        OBVIOUS
      <3>2. Path({b} \cup {a}, x, From(a))
        BY <1>1, <2>1, <2>5, <3>1, PathBefore
      <3>3. Path({b}, x, From(a))
        BY <2>1, <3>2, PathLess
      <3>. QED
        BY <1>1, <1>4, <3>3
    <2>7. Path({a}, x, From(b))
      BY <2>1, <2>6, PathLess
    <2>. QED
      BY <2>1, <2>4, <2>7 DEF Region
  <1>8. \A x \in Region(a, b) : x \in U
    BY <1>1, <1>4 DEF Region
  <1>. QED
    BY <1>6, <1>7, <1>8

-----------------------------------------------------------------------------
\* Two crossing regions follow each other with an overlap: the first splits at
\* the entry or the exit of the second, into two parts that are smaller.
LEMMA CrossingSplits ==
    ASSUME Net, Terminating, NEW S \in SUBSET Inner, NEW T \in SUBSET Inner, Crossing(S, T),
           flow.root \notin S, flow.root \notin T,
           NEW a, NEW b, OneIn(S, a), OneOut(S, b),
           NEW c, NEW d, OneIn(T, c), OneOut(T, d)
    PROVE  \E P, Q \in (SUBSET S) \ {{}, S} : \E m \in {c, d} :
              OneIn(P, a) /\ OneOut(P, m) /\ OneIn(Q, m) /\ OneOut(Q, b)
  <1>. DEFINE X == S \cap T
              Y == S \ T
              Z == T \ S
              U == S \cup T
  <1>1. /\ X # {} /\ Y # {} /\ Z # {} /\ U # {}
        /\ X \in SUBSET Inner /\ Y \in SUBSET Inner /\ Z \in SUBSET Inner /\ U \in SUBSET Inner
        /\ flow.root \notin X /\ flow.root \notin Y /\ flow.root \notin Z /\ flow.root \notin U
        /\ X \in (SUBSET S) \ {{}, S} /\ Y \in (SUBSET S) \ {{}, S}
    BY DEF Crossing
  <1>2. /\ \A e \in Input : (From(e) \notin S /\ To(e) \in S) <=> e = a
        /\ \A e \in Input : (From(e) \in S /\ To(e) \notin S) <=> e = b
        /\ \A e \in Input : (From(e) \notin T /\ To(e) \in T) <=> e = c
        /\ \A e \in Input : (From(e) \in T /\ To(e) \notin T) <=> e = d
    BY DEF OneIn, OneOut
  <1>3. /\ \E e \in Input : From(e) \notin X /\ To(e) \in X
        /\ \E e \in Input : From(e) \notin Y /\ To(e) \in Y
        /\ \E e \in Input : From(e) \notin Z /\ To(e) \in Z
        /\ \E e \in Input : From(e) \notin U /\ To(e) \in U
        /\ \E e \in Input : From(e) \in U /\ To(e) \notin U
    <2>. HIDE DEF X, Y, Z, U
    <2>. QED
      BY <1>1, SomeIn, SomeOut
  <1>4. PICK ix \in Input, iy \in Input, iz \in Input, iu \in Input, ou \in Input :
          /\ From(ix) \notin X /\ To(ix) \in X
          /\ From(iy) \notin Y /\ To(iy) \in Y
          /\ From(iz) \notin Z /\ To(iz) \in Z
          /\ From(iu) \notin U /\ To(iu) \in U
          /\ From(ou) \in U /\ To(ou) \notin U
    BY <1>3
  <1>5. /\ ix \in {a, c} /\ iy \in {a, d} /\ iz \in {c, b} /\ iu \in {a, c} /\ ou \in {b, d}
        /\ {a, b, c, d} \subseteq Input
    BY <1>2, <1>4
  <1>6. CASE From(a) \in T /\ To(a) \in T
    <2>1. OneIn(X, a) /\ OneOut(X, d)
      BY <1>2, <1>4, <1>5, <1>6 DEF OneIn, OneOut
    <2>2. OneIn(Y, d) /\ OneOut(Y, b)
      BY <1>2, <1>4, <1>5, <1>6 DEF OneIn, OneOut
    <2>. QED
      BY <1>1, <2>1, <2>2
  <1>7. CASE From(a) \notin T /\ To(a) \notin T
    <2>1. OneIn(Y, a) /\ OneOut(Y, c)
      BY <1>2, <1>4, <1>5, <1>7 DEF OneIn, OneOut
    <2>2. OneIn(X, c) /\ OneOut(X, b)
      BY <1>2, <1>4, <1>5, <1>7 DEF OneIn, OneOut
    <2>. QED
      BY <1>1, <2>1, <2>2
  <1>8. CASE From(a) \notin T /\ To(a) \in T
    BY <1>2, <1>4, <1>5, <1>8
  <1>9. CASE From(a) \in T /\ To(a) \notin T
    BY <1>2, <1>4, <1>5, <1>9
  <1>. QED
    BY <1>6, <1>7, <1>8, <1>9

\* So a region that is smallest for one of its edges crosses no candidate.
LEMMA CanonicalNeverCrosses ==
    ASSUME Net, ClassInv, Terminating, NEW c \in Canonical(candidates), NEW d \in candidates
    PROVE  ~Crossing(c.nodes, d.nodes)
  <1>. SUFFICES ASSUME Crossing(c.nodes, d.nodes)
                PROVE  FALSE
    OBVIOUS
  <1>0. c \in candidates
    BY DEF Canonical
  <1>. DEFINE S == c.nodes
              T == d.nodes
  <1>1. /\ S \in SUBSET Inner /\ T \in SUBSET Inner /\ flow.root \notin S /\ flow.root \notin T
        /\ OneIn(S, c.entry) /\ OneOut(S, c.exit) /\ OneIn(T, d.entry) /\ OneOut(T, d.exit)
        /\ c.entry \in Original /\ c.exit \in Original /\ d.entry \in Original /\ d.exit \in Original
    BY <1>0, CandidateFacts, RegionOne
  <1>2. PICK P \in (SUBSET S) \ {{}, S}, Q \in (SUBSET S) \ {{}, S}, m \in {d.entry, d.exit} :
          OneIn(P, c.entry) /\ OneOut(P, m) /\ OneIn(Q, m) /\ OneOut(Q, c.exit)
    <2>. HIDE DEF S, T
    <2>1. Crossing(S, T)
      BY DEF S, T
    <2>. QED
      BY <1>1, <2>1, CrossingSplits
  <1>3. /\ P \in SUBSET Inner /\ P # {} /\ flow.root \notin P /\ P \in SUBSET S /\ P # S
        /\ Q \in SUBSET Inner /\ Q # {} /\ flow.root \notin Q /\ Q \in SUBSET S /\ Q # S
        /\ m \in Original
    BY <1>1, <1>2
  <1>4. /\ Bounded(c.entry, m) /\ Region(c.entry, m) = P
        /\ Bounded(m, c.exit) /\ Region(m, c.exit) = Q
    BY <1>1, <1>2, <1>3, OneIsRegion
  <1>. DEFINE p == [entry |-> c.entry, exit |-> m, nodes |-> P]
              q == [entry |-> m, exit |-> c.exit, nodes |-> Q]
  <1>5. p \in candidates /\ q \in candidates
    <2>1. p = [entry |-> c.entry, exit |-> m, nodes |-> Region(c.entry, m)]
      BY <1>4
    <2>2. q = [entry |-> m, exit |-> c.exit, nodes |-> Region(m, c.exit)]
      BY <1>4
    <2>. HIDE DEF p, q
    <2>. QED
      BY <1>1, <1>3, <1>4, <2>1, <2>2, CandidateIs
  <1>6. Cardinality(P) < Cardinality(S) /\ Cardinality(Q) < Cardinality(S)
    <2>. HIDE DEF S
    <2>1. /\ IsFiniteSet(S) /\ Cardinality(S) \in Nat /\ Cardinality(P) \in Nat
          /\ Cardinality(Q) \in Nat
      BY <1>1, <1>3, InnerFinite
    <2>2. /\ Cardinality(P) <= Cardinality(S) /\ Cardinality(P) # Cardinality(S)
          /\ Cardinality(Q) <= Cardinality(S) /\ Cardinality(Q) # Cardinality(S)
      BY <1>3, <2>1, FS_Subset
    <2>. QED
      BY <2>1, <2>2
  <1>7. ~(Cardinality(S) <= Cardinality(P)) /\ ~(Cardinality(S) <= Cardinality(Q))
    <2>1. Cardinality(S) \in Nat /\ Cardinality(P) \in Nat /\ Cardinality(Q) \in Nat
      BY <1>1, <1>3, InnerFinite
    <2>. HIDE DEF S
    <2>. QED
      BY <1>6, <2>1
  <1>8. smallest_for_boundary(candidates, c.entry) = c \/ smallest_for_boundary(candidates, c.exit) = c
    BY DEF Canonical
  <1>9. CASE smallest_for_boundary(candidates, c.entry) = c
    <2>1. p.entry = c.entry /\ p.nodes = P
      OBVIOUS
    <2>2. Cardinality(c.nodes) <= Cardinality(p.nodes)
      <3>. HIDE DEF p
      <3>. QED
        BY <1>0, <1>5, <1>9, <2>1, SmallestIs
    <2>. QED
      BY <1>7, <2>1, <2>2
  <1>10. CASE smallest_for_boundary(candidates, c.exit) = c
    <2>1. q.exit = c.exit /\ q.nodes = Q
      OBVIOUS
    <2>2. Cardinality(c.nodes) <= Cardinality(q.nodes)
      <3>. HIDE DEF q
      <3>. QED
        BY <1>0, <1>5, <1>10, <2>1, SmallestIs
    <2>. QED
      BY <1>7, <2>1, <2>2
  <1>. QED
    BY <1>8, <1>9, <1>10

\* In a proper flowgraph two candidates with the same nodes are the same, and
\* none has all nodes.
LEMMA CandidatesApart ==
    ASSUME Net, ClassInv, Terminating, NEW c \in candidates, NEW d \in candidates
    PROVE  /\ c.nodes = d.nodes => c = d
           /\ c.nodes # Inner
  <1>1. /\ OneIn(c.nodes, c.entry) /\ OneOut(c.nodes, c.exit)
        /\ OneIn(d.nodes, d.entry) /\ OneOut(d.nodes, d.exit)
        /\ flow.root \notin c.nodes
        /\ c.entry \in Input /\ c.exit \in Input /\ d.entry \in Input /\ d.exit \in Input
    BY CandidateFacts, RegionOne, InnerFacts
  <1>2. ASSUME c.nodes = d.nodes
        PROVE  c = d
    <2>1. c.entry = d.entry /\ c.exit = d.exit
      BY <1>1, <1>2 DEF OneIn, OneOut
    <2>. QED
      BY <2>1, CandidateFacts
  <1>. QED
    BY <1>1, <1>2, InnerFacts

-----------------------------------------------------------------------------
(* The tree.                                                               *)

\* The ids of all nodes, and the selected candidates in their order.
All == ToSet(flow.ids)
Sel == Sorted(selected, Larger)

\* The records of the tree.
RegionType ==
    [parent : Nat \cup {None}, children : SUBSET Nat,
     entry_edge : {flow.edges[e].original : e \in Input} \cup {None},
     exit_edge : {flow.edges[e].original : e \in Input} \cup {None},
     nodes : SUBSET All, contained : SUBSET All]

\* The parent is one of the smallest regions before that contain the region.
Parented(regs, i) ==
    LET p == regs[i].parent
    IN /\ p \in 1 .. i - 1 /\ regs[i].contained \subseteq regs[p].contained
       /\ \A j \in 1 .. i - 1 :
             regs[i].contained \subseteq regs[j].contained
               => Cardinality(regs[p].contained) <= Cardinality(regs[j].contained)

\* A prefix of the selected regions is in the tree, the rest is to do.
Shape(regs, left) ==
    /\ regs \in Seq(RegionType) /\ Len(regs) \in Nat \ {0} /\ left \in Seq(selected)
    /\ Len(regs) - 1 + Len(left) = Cardinality(selected)
    /\ \A i \in 1 .. Len(left) : left[i] = Sel[Len(regs) - 1 + i]
    /\ regs[1].contained = All
    /\ \A i \in 2 .. Len(regs) :
          /\ regs[i].entry_edge = flow.edges[Sel[i - 1].entry].original
          /\ regs[i].exit_edge = flow.edges[Sel[i - 1].exit].original
          /\ regs[i].contained = Ids(Sel[i - 1].nodes)
          /\ Parented(regs, i)
    /\ \A i \in 1 .. Len(regs) : regs[i].children = {k \in 2 .. Len(regs) : regs[k].parent = i}

\* Every node has a region, one of the smallest that contain it.
Owned(regs) ==
    \E own \in [All -> 1 .. Len(regs)] :
        /\ \A id \in All :
              /\ id \in regs[own[id]].contained
              /\ \A j \in 1 .. Len(regs) : id \in regs[j].contained
                   => Cardinality(regs[own[id]].contained) <= Cardinality(regs[j].contained)
        /\ \A i \in 1 .. Len(regs) : regs[i].nodes = {id \in All : own[id] = i}

\* The tree while it grows, and the tree that is returned.
TreeInv ==
    /\ phase \in {"tree", "done"} => Shape(regions, todo)
    /\ phase = "done" => todo = <<>> /\ Owned(regions)

-----------------------------------------------------------------------------
\* The selection depends on the flowgraph and the classes only.
LEMMA FixedSelected ==
    ASSUME flow' = flow, classes' = classes
    PROVE  /\ candidates' = candidates /\ selected' = selected /\ Sel' = Sel /\ All' = All
           /\ RegionType' = RegionType
  <1>1. Input' = Input /\ Original' = Original /\ All' = All
    BY DEF Input, Original, All
  <1>2. ASSUME NEW a, NEW b
        PROVE  /\ (Bounds(a, b))' <=> Bounds(a, b)
               /\ (region_nodes(a, b))' = region_nodes(a, b)
    BY <1>1 DEF Bounds, region_nodes, edge_dominates, edge_postdominates, reachable
  <1>3. candidates' = candidates
    BY <1>1, <1>2 DEF candidates
  <1>4. selected' = selected
    BY <1>3 DEF selected, Canonical, smallest_for_boundary
  <1>5. Sel' = Sel
    BY <1>4 DEF Sel
  <1>. QED
    BY <1>1, <1>3, <1>4, <1>5 DEF RegionType

\* Ids numbers the nodes the same way in all directions.
LEMMA IdsFacts ==
    ASSUME Net, IdsKnown, NEW S \in SUBSET Inner, NEW T \in SUBSET Inner
    PROVE  /\ Ids(S) \subseteq All /\ Ids(Inner) = All
           /\ Ids(S) \subseteq Ids(T) <=> S \subseteq T
           /\ Ids(S) = Ids(T) <=> S = T
           /\ Crossing(Ids(S), Ids(T)) => Crossing(S, T)
           /\ IsFiniteSet(Ids(S)) /\ Cardinality(Ids(S)) = Cardinality(S)
  <1>1. /\ \A x, y \in Inner : flow.ids[x] = flow.ids[y] => x = y
        /\ DOMAIN flow.ids = Inner
    <2>1. /\ flow.ids \in Seq(Nat) /\ Len(flow.ids) = flow.n - 1
          /\ \A x, y \in 1 .. flow.n - 1 : flow.ids[x] = flow.ids[y] => x = y
      BY DEF IdsKnown
    <2>2. DOMAIN flow.ids = 1 .. Len(flow.ids)
      BY <2>1
    <2>. QED
      BY <2>1, <2>2 DEF Inner
  <1>2. Ids(Inner) = All
    BY <1>1 DEF Ids, All, ToSet
  <1>3. \A x \in Inner : \A U \in SUBSET Inner : flow.ids[x] \in Ids(U) <=> x \in U
    BY <1>1 DEF Ids
  <1>4. \A U \in SUBSET Inner : \A id \in Ids(U) : \E x \in U : id = flow.ids[x]
    BY DEF Ids
  <1>5. /\ Ids(S) \subseteq All
        /\ Ids(S) \subseteq Ids(T) <=> S \subseteq T
        /\ Ids(T) \subseteq Ids(S) <=> T \subseteq S
    BY <1>2, <1>3, <1>4
  <1>6. Ids(S) \cap Ids(T) # {} => S \cap T # {}
    BY <1>3, <1>4
  <1>7. IsFiniteSet(Ids(S)) /\ Cardinality(Ids(S)) = Cardinality(S)
    <2>. DEFINE f == [x \in S |-> flow.ids[x]]
    <2>1. f \in [S -> Ids(S)] /\ (\A x, y \in S : f[x] = f[y] => x = y)
          /\ \A id \in Ids(S) : \E x \in S : f[x] = id
      BY <1>1 DEF Ids
    <2>. HIDE DEF f
    <2>2. f \in Injection(S, Ids(S)) /\ f \in Surjection(S, Ids(S))
      BY <2>1 DEF Injection, IsInjective, Surjection
    <2>3. IsFiniteSet(S)
      BY InnerFinite
    <2>. QED
      BY <2>2, <2>3, FS_Surjection
  <1>. QED
    BY <1>2, <1>5, <1>6, <1>7 DEF Crossing

\* What the order of the selected candidates is.
LEMMA SelIs ==
    ASSUME Net, ClassInv
    PROVE  /\ selected \in SUBSET candidates /\ Cardinality(selected) \in Nat
           /\ Sel \in Seq(selected) /\ Len(Sel) = Cardinality(selected)
           /\ \A i \in 1 .. Cardinality(selected) : Sel[i] \in selected
           /\ \A c \in selected : \E i \in 1 .. Cardinality(selected) : Sel[i] = c
           /\ \A i, j \in 1 .. Cardinality(selected) :
                 /\ Sel[i] = Sel[j] => i = j
                 /\ i < j => Larger(Sel[i], Sel[j])
  <1>1. selected \in SUBSET candidates
    BY DEF selected, Canonical
  <1>2. /\ IsFiniteSet(selected) /\ Lists(Sel, selected)
        /\ \A i, j \in 1 .. Cardinality(selected) : i < j => Larger(Sel[i], Sel[j])
    BY <1>1, SortedLists DEF Sel
  <1>3. Sel \in Seq(selected) /\ Len(Sel) = Cardinality(selected) /\ Cardinality(selected) \in Nat
    BY <1>2, ListSeq
  <1>. QED
    BY <1>1, <1>2, <1>3 DEF Lists

-----------------------------------------------------------------------------
\* The shape of the tree is judged by the flowgraph and the classes.
LEMMA FixedShape ==
    ASSUME flow' = flow, classes' = classes, Shape(regions', todo')
    PROVE  Shape(regions, todo)'
  BY FixedSelected DEF Shape, Parented, Ids

\* So are the owners of the nodes.
LEMMA FixedOwned ==
    ASSUME flow' = flow, classes' = classes, Owned(regions')
    PROVE  Owned(regions)'
  BY FixedSelected DEF Owned

\* Appending a region under one of the smallest that contain it.
LEMMA ShapeAppends ==
    ASSUME Net, IdsKnown, ClassInv, NEW regs, NEW left, Shape(regs, left), left # <<>>,
           NEW c, c = Head(left), NEW p \in 1 .. Len(regs), Ids(c.nodes) \subseteq regs[p].contained,
           \A j \in 1 .. Len(regs) : Ids(c.nodes) \subseteq regs[j].contained
              => Cardinality(regs[p].contained) <= Cardinality(regs[j].contained)
    PROVE  Shape(Append([regs EXCEPT ![p].children = @ \cup {Len(regs) + 1}],
                        RegionNamed(p, flow.edges[c.entry].original,
                                    flow.edges[c.exit].original, Ids(c.nodes))),
                 Tail(left))
  <1>. DEFINE m == Len(regs)
              l == Len(left)
              r == RegionNamed(p, flow.edges[c.entry].original,
                               flow.edges[c.exit].original, Ids(c.nodes))
              q == [regs[p] EXCEPT !.children = @ \cup {m + 1}]
              mid == [regs EXCEPT ![p].children = @ \cup {m + 1}]
              new == Append(mid, r)
              rest == Tail(left)
  <1>1. /\ regs \in Seq(RegionType) /\ m \in Nat \ {0} /\ left \in Seq(selected)
        /\ m - 1 + l = Cardinality(selected)
        /\ \A i \in 1 .. l : left[i] = Sel[m - 1 + i]
        /\ regs[1].contained = All
        /\ \A i \in 2 .. m :
              /\ regs[i].entry_edge = flow.edges[Sel[i - 1].entry].original
              /\ regs[i].exit_edge = flow.edges[Sel[i - 1].exit].original
              /\ regs[i].contained = Ids(Sel[i - 1].nodes)
              /\ Parented(regs, i)
        /\ \A i \in 1 .. m : regs[i].children = {k \in 2 .. m : regs[k].parent = i}
    BY DEF Shape
  <1>2. /\ l \in Nat \ {0} /\ c = left[1] /\ c \in selected
        /\ rest \in Seq(selected) /\ Len(rest) = l - 1
        /\ \A i \in 1 .. l - 1 : rest[i] = left[i + 1]
    BY <1>1
  <1>3. c = Sel[m] /\ (\A i \in 1 .. l - 1 : rest[i] = Sel[m + i])
    <2>1. 1 \in 1 .. l /\ m - 1 + 1 = m
      BY <1>1, <1>2
    <2>2. ASSUME NEW i \in 1 .. l - 1
          PROVE  rest[i] = Sel[m + i]
      <3>1. i + 1 \in 1 .. l /\ m - 1 + (i + 1) = m + i
        BY <1>1, <1>2
      <3>. QED
        BY <1>1, <1>2, <3>1
    <2>. QED
      BY <1>1, <1>2, <2>1, <2>2
  <1>4. c \in candidates /\ c.nodes \in SUBSET Inner /\ c.entry \in Input /\ c.exit \in Input
    BY <1>2, SelIs, CandidateFacts, InnerFacts
  <1>5. /\ r \in RegionType /\ r.parent = p /\ r.children = {}
        /\ r.entry_edge = flow.edges[c.entry].original
        /\ r.exit_edge = flow.edges[c.exit].original /\ r.contained = Ids(c.nodes)
    <2>1. Ids(c.nodes) \in SUBSET All
      BY <1>4, IdsFacts
    <2>2. p \in Nat
      OBVIOUS
    <2>. QED
      BY <1>4, <2>1, <2>2 DEF RegionNamed, RegionType
  <1>6. /\ q \in RegionType /\ q.parent = regs[p].parent
        /\ q.children = regs[p].children \cup {m + 1}
        /\ q.entry_edge = regs[p].entry_edge /\ q.exit_edge = regs[p].exit_edge
        /\ q.contained = regs[p].contained
    <2>1. regs[p] \in RegionType /\ m + 1 \in Nat
      BY <1>1
    <2>. QED
      BY <2>1 DEF RegionType
  <1>7. /\ mid \in Seq(RegionType) /\ Len(mid) = m /\ mid[p] = q
        /\ \A i \in 1 .. m : i # p => mid[i] = regs[i]
    <2>. DEFINE mid2 == [regs EXCEPT ![p] = q]
    <2>1. mid = mid2
      OBVIOUS
    <2>. HIDE DEF q, mid
    <2>2. /\ mid2 \in Seq(RegionType) /\ Len(mid2) = m /\ mid2[p] = q
          /\ \A i \in 1 .. m : i # p => mid2[i] = regs[i]
      BY <1>1, <1>6
    <2>. QED
      BY <2>1, <2>2
  <1>. HIDE DEF q, mid, r
  <1>8. /\ new \in Seq(RegionType) /\ Len(new) = m + 1 /\ new[m + 1] = r
        /\ \A i \in 1 .. m : new[i] = mid[i]
    <2>. HIDE DEF m
    <2>. DEFINE A == RegionType
    <2>1. mid \in Seq(A) /\ Len(mid) = m /\ m \in Nat /\ r \in A
      BY <1>1, <1>5, <1>7
    <2>. HIDE DEF A
    <2>2. /\ new \in Seq(A) /\ Len(new) = m + 1 /\ new[m + 1] = r
          /\ \A i \in 1 .. m : new[i] = mid[i]
      BY ONLY <2>1
    <2>. QED
      BY <2>2 DEF A
  <1>. HIDE DEF new
  <1>9. \A i \in 1 .. m : /\ new[i].parent = regs[i].parent
                          /\ new[i].entry_edge = regs[i].entry_edge
                          /\ new[i].exit_edge = regs[i].exit_edge
                          /\ new[i].contained = regs[i].contained
                          /\ new[i].children = regs[i].children \cup (IF i = p THEN {m + 1} ELSE {})
    BY <1>6, <1>7, <1>8
  <1>. HIDE DEF m, l, rest
  <1>10. \A i \in 2 .. m : i \in 1 .. m /\ i - 1 \in Nat /\ i \in Nat /\ \A j \in 1 .. i - 1 : j \in 1 .. m
    BY <1>1
  <1>11. \A i \in 2 .. m + 1 : i \in 2 .. m \/ i = m + 1
    BY <1>1
  <1>12. ASSUME NEW i \in 2 .. m
         PROVE  Parented(new, i)
    <2>. DEFINE o == regs[i].parent
    <2>1. /\ o \in 1 .. i - 1 /\ regs[i].contained \subseteq regs[o].contained
          /\ \A j \in 1 .. i - 1 :
                regs[i].contained \subseteq regs[j].contained
                  => Cardinality(regs[o].contained) <= Cardinality(regs[j].contained)
      BY <1>1 DEF Parented
    <2>2. /\ i \in 1 .. m /\ new[i].parent = o /\ new[i].contained = regs[i].contained
          /\ \A j \in 1 .. i - 1 : new[j].contained = regs[j].contained
      BY <1>9, <1>10
    <2>3. new[o].contained = regs[o].contained
      BY <2>1, <2>2
    <2>. HIDE DEF o
    <2>. QED
      BY <2>1, <2>2, <2>3 DEF Parented
  <1>. DEFINE z == m + 1
  <1>0. z - 1 = m /\ z \in Nat
    BY <1>1
  <1>13. Parented(new, z)
    <2>1. p \in 1 .. m
      BY DEF m
    <2>2. \A j \in 1 .. m : Ids(c.nodes) \subseteq regs[j].contained
              => Cardinality(regs[p].contained) <= Cardinality(regs[j].contained)
      BY DEF m
    <2>3. /\ new[z].parent = p /\ new[z].contained = Ids(c.nodes)
          /\ \A j \in 1 .. m : new[j].contained = regs[j].contained
      BY <1>5, <1>8, <1>9
    <2>4. Ids(c.nodes) \subseteq regs[p].contained
      OBVIOUS
    <2>. HIDE DEF z
    <2>. QED
      BY <1>0, <2>1, <2>2, <2>3, <2>4 DEF Parented
  <1>14. \A i \in 2 .. m + 1 :
            /\ new[i].entry_edge = flow.edges[Sel[i - 1].entry].original
            /\ new[i].exit_edge = flow.edges[Sel[i - 1].exit].original
            /\ new[i].contained = Ids(Sel[i - 1].nodes)
            /\ Parented(new, i)
    <2>1. /\ new[z].entry_edge = flow.edges[Sel[m].entry].original
          /\ new[z].exit_edge = flow.edges[Sel[m].exit].original
          /\ new[z].contained = Ids(Sel[m].nodes)
      BY <1>3, <1>5, <1>8
    <2>2. /\ new[z].entry_edge = flow.edges[Sel[z - 1].entry].original
          /\ new[z].exit_edge = flow.edges[Sel[z - 1].exit].original
          /\ new[z].contained = Ids(Sel[z - 1].nodes)
      <3>. HIDE DEF z
      <3>. QED
        BY <1>0, <2>1
    <2>3. \A i \in 2 .. m :
            /\ new[i].entry_edge = flow.edges[Sel[i - 1].entry].original
            /\ new[i].exit_edge = flow.edges[Sel[i - 1].exit].original
            /\ new[i].contained = Ids(Sel[i - 1].nodes)
      BY <1>1, <1>9, <1>10
    <2>4. \A i \in 2 .. m + 1 : i \in 2 .. m \/ i = z
      BY <1>11
    <2>5. \A i \in 2 .. m : Parented(new, i)
      BY <1>12
    <2>. HIDE DEF z
    <2>. QED
      BY <1>13, <2>2, <2>3, <2>4, <2>5
  <1>15. \A i \in 1 .. m + 1 : new[i].children = {k \in 2 .. m + 1 : new[k].parent = i}
    <2>0. p \in 1 .. m /\ p # m + 1 /\ m + 1 \in 2 .. m + 1 /\ \A k \in 2 .. m : k \in 2 .. m + 1 /\ k # m + 1
      BY <1>1 DEF m
    <2>1. ASSUME NEW i \in 1 .. m
          PROVE  new[i].children = {k \in 2 .. m + 1 : new[k].parent = i}
      <3>1. new[i].children = {k \in 2 .. m : regs[k].parent = i} \cup (IF i = p THEN {m + 1} ELSE {})
        BY <1>1, <1>9
      <3>2. \A k \in 2 .. m : new[k].parent = regs[k].parent
        BY <1>9, <1>10
      <3>3. new[m + 1].parent = p
        BY <1>5, <1>8
      <3>. QED
        BY <1>11, <2>0, <3>1, <3>2, <3>3
    <2>2. new[m + 1].children = {k \in 2 .. m + 1 : new[k].parent = m + 1}
      <3>1. new[m + 1].children = {}
        BY <1>5, <1>8
      <3>2. \A k \in 2 .. m + 1 : new[k].parent \in 1 .. k - 1
        BY <1>14 DEF Parented
      <3>3. \A k \in 2 .. m + 1 : m + 1 \notin 1 .. k - 1
        BY <1>1
      <3>. QED
        BY <3>1, <3>2, <3>3
    <2>3. \A i \in 1 .. m + 1 : i \in 1 .. m \/ i = m + 1
      BY <1>1
    <2>. QED
      BY <2>1, <2>2, <2>3
  <1>16. new[1].contained = All
    <2>1. 1 \in 1 .. m
      BY <1>1
    <2>. QED
      BY <1>1, <1>9, <2>1
  <1>17. /\ Len(new) = m + 1 /\ m + 1 \in Nat \ {0} /\ (m + 1) - 1 = m
         /\ m + (l - 1) = Cardinality(selected)
    BY <1>1, <1>2, <1>8
  <1>18. Shape(new, rest)
    <2>1. new \in Seq(RegionType) /\ Len(new) \in Nat \ {0} /\ rest \in Seq(selected)
      BY <1>2, <1>8, <1>17
    <2>2. Len(new) - 1 + Len(rest) = Cardinality(selected)
      BY <1>2, <1>17
    <2>3. \A i \in 1 .. Len(rest) : rest[i] = Sel[Len(new) - 1 + i]
      BY <1>2, <1>3, <1>17
    <2>4. \A i \in 2 .. Len(new) :
             /\ new[i].entry_edge = flow.edges[Sel[i - 1].entry].original
             /\ new[i].exit_edge = flow.edges[Sel[i - 1].exit].original
             /\ new[i].contained = Ids(Sel[i - 1].nodes)
             /\ Parented(new, i)
      BY <1>14, <1>17
    <2>5. \A i \in 1 .. Len(new) : new[i].children = {k \in 2 .. Len(new) : new[k].parent = i}
      BY <1>15, <1>17
    <2>. QED
      BY <1>16, <2>1, <2>2, <2>3, <2>4, <2>5 DEF Shape
  <1>. QED
    BY <1>18 DEF new, rest, mid, r, m

\* A set of ids is finite.
LEMMA AllFinite ==
    ASSUME Net, IdsKnown, NEW S \in SUBSET All
    PROVE  IsFiniteSet(S) /\ Cardinality(S) \in Nat
  <1>1. IsFiniteSet(All)
    BY IdsFacts
  <1>. QED
    BY <1>1, FS_Subset, FS_CardinalityType

\* The first of the smallest regions with a property is found if there is one.
LEMMA InnermostFound ==
    ASSUME NEW m \in Nat, NEW w \in [1 .. m -> Nat], NEW R \in SUBSET (1 .. m), R # {}
    PROVE  \E i \in R : \A j \in R : w[i] < w[j] \/ (w[i] = w[j] /\ i <= j)
  <1>. DEFINE T == {w[i] : i \in R}
  <1>1. T \in SUBSET Nat /\ T # {}
    OBVIOUS
  <1>2. PICK k \in T : \A l \in T : k <= l
    <2>. HIDE DEF T
    <2>. QED
      BY <1>1, LeastNat
  <1>. DEFINE I == {i \in R : w[i] = k}
  <1>3. I \in SUBSET Nat /\ I # {}
    <2>1. R \in SUBSET Nat /\ \E i \in R : w[i] = k
      OBVIOUS
    <2>. QED
      BY <2>1
  <1>4. PICK i \in I : \A j \in I : i <= j
    <2>. HIDE DEF I
    <2>. QED
      BY <1>3, LeastNat
  <1>5. ASSUME NEW j \in R
        PROVE  w[i] < w[j] \/ (w[i] = w[j] /\ i <= j)
    <2>1. w[i] = k /\ w[j] \in Nat /\ k \in Nat /\ k <= w[j]
      BY <1>1, <1>2
    <2>2. w[j] = k => i <= j
      BY <1>4
    <2>. HIDE DEF I, T
    <2>. QED
      BY <2>1, <2>2
  <1>. QED
    BY <1>4, <1>5

\* How the regions of the tree lie.
LEMMA ShapeNests ==
    ASSUME Net, IdsKnown, ClassInv, NEW regs, NEW left, Shape(regs, left),
           NEW i \in 1 .. Len(regs), NEW j \in 1 .. Len(regs)
    PROVE  /\ regs[i].contained \subseteq All /\ IsFiniteSet(regs[i].contained)
           /\ Cardinality(regs[i].contained) \in Nat
           /\ ~Crossing(regs[i].contained, regs[j].contained)
           /\ 1 < i /\ i < j => Cardinality(regs[j].contained) <= Cardinality(regs[i].contained)
           /\ Terminating /\ regs[i].contained = regs[j].contained => i = j
  <1>. DEFINE C == Cardinality(selected)
              m == Len(regs)
              U(k) == IF k = 1 THEN Inner ELSE Sel[k - 1].nodes
  <1>1. /\ m \in Nat /\ C \in Nat /\ m - 1 <= C
        /\ regs[1].contained = All
        /\ \A k \in 2 .. m : regs[k].contained = Ids(Sel[k - 1].nodes)
    <2>1. Len(left) \in Nat
      BY DEF Shape
    <2>. QED
      BY <2>1, SelIs DEF Shape
  <1>2. \A k \in 1 .. m : k = 1 \/ (k \in 2 .. m /\ k # 1 /\ k - 1 \in 1 .. C)
    BY <1>1
  <1>3. \A k \in 1 .. C : /\ Sel[k] \in selected /\ Sel[k] \in candidates
                          /\ Sel[k].nodes \in SUBSET Inner /\ Sel[k].nodes # {}
    BY SelIs, CandidateFacts
  <1>4. \A k \in 1 .. m : U(k) \in SUBSET Inner /\ regs[k].contained = Ids(U(k))
    BY <1>1, <1>2, <1>3, IdsFacts
  <1>5. ~Crossing(U(i), U(j))
    <2>1. CASE i = 1 \/ j = 1
      BY <1>4, <2>1 DEF Crossing
    <2>2. CASE i # 1 /\ j # 1
      <3>1. Sel[i - 1] \in selected /\ Sel[j - 1] \in candidates
        BY <1>2, <1>3, <2>2
      <3>. QED
        BY <2>2, <3>1 DEF selected
    <2>. QED
      BY <2>1, <2>2
  <1>6. ASSUME 1 < i, i < j
        PROVE  Cardinality(U(j)) <= Cardinality(U(i))
    <2>1. /\ i - 1 \in 1 .. C /\ j - 1 \in 1 .. C /\ i - 1 < j - 1 /\ i # 1 /\ j # 1
      BY <1>1, <1>2, <1>6
    <2>2. Larger(Sel[i - 1], Sel[j - 1])
      BY <2>1, SelIs
    <2>3. Cardinality(Sel[i - 1].nodes) \in Nat /\ Cardinality(Sel[j - 1].nodes) \in Nat
      BY <1>3, <2>1, InnerFinite
    <2>. QED
      BY <2>1, <2>2, <2>3 DEF Larger
  <1>7. ASSUME Terminating, U(i) = U(j)
        PROVE  i = j
    <2>1. CASE i = 1 /\ j = 1
      BY <2>1
    <2>2. CASE i = 1 /\ j # 1
      BY <1>2, <1>3, <1>7, <2>2, CandidatesApart
    <2>3. CASE i # 1 /\ j = 1
      BY <1>2, <1>3, <1>7, <2>3, CandidatesApart
    <2>4. CASE i # 1 /\ j # 1
      <3>1. i - 1 \in 1 .. C /\ j - 1 \in 1 .. C /\ i \in Nat /\ j \in Nat
        BY <1>1, <1>2, <2>4
      <3>2. Sel[i - 1] = Sel[j - 1]
        BY <1>3, <1>7, <2>4, <3>1, CandidatesApart
      <3>3. i - 1 = j - 1
        BY <3>1, <3>2, SelIs
      <3>. QED
        BY <3>1, <3>3
    <2>. QED
      BY <2>1, <2>2, <2>3, <2>4
  <1>. HIDE DEF U
  <1>8. /\ Ids(U(i)) \subseteq All
        /\ Ids(U(i)) = Ids(U(j)) <=> U(i) = U(j)
        /\ Crossing(Ids(U(i)), Ids(U(j))) => Crossing(U(i), U(j))
        /\ IsFiniteSet(Ids(U(i))) /\ Cardinality(Ids(U(i))) = Cardinality(U(i))
        /\ Cardinality(Ids(U(j))) = Cardinality(U(j))
    BY <1>4, IdsFacts
  <1>9. Cardinality(U(i)) \in Nat
    BY <1>4, InnerFinite
  <1>10. regs[i].contained = Ids(U(i)) /\ regs[j].contained = Ids(U(j))
    BY <1>4
  <1>11. /\ regs[i].contained \subseteq All /\ IsFiniteSet(regs[i].contained)
         /\ Cardinality(regs[i].contained) \in Nat
         /\ ~Crossing(regs[i].contained, regs[j].contained)
    BY <1>5, <1>8, <1>9, <1>10
  <1>12. 1 < i /\ i < j => Cardinality(regs[j].contained) <= Cardinality(regs[i].contained)
    BY <1>6, <1>8, <1>10
  <1>13. Terminating /\ regs[i].contained = regs[j].contained => i = j
    BY <1>7, <1>8, <1>10
  <1>. QED
    BY <1>11, <1>12, <1>13

\* The parts of the shape the other proofs use.
LEMMA ShapeParts ==
    ASSUME NEW regs, NEW left, Shape(regs, left)
    PROVE  /\ DOMAIN regs = 1 .. Len(regs) /\ Len(regs) \in Nat \ {0} /\ 1 \in 1 .. Len(regs)
           /\ regs[1].contained = All
           /\ \A i \in 1 .. Len(regs) : /\ regs[i] \in RegionType
                                        /\ regs[i].children = {k \in 2 .. Len(regs) : regs[k].parent = i}
           /\ \A i \in 2 .. Len(regs) : Parented(regs, i) /\ i \in 1 .. Len(regs)
  <1>1. regs \in Seq(RegionType) /\ Len(regs) \in Nat \ {0}
    BY DEF Shape
  <1>2. DOMAIN regs = 1 .. Len(regs) /\ \A i \in 1 .. Len(regs) : regs[i] \in RegionType
    BY <1>1
  <1>. QED
    BY <1>1, <1>2 DEF Shape

-----------------------------------------------------------------------------
\* The tree starts as its root, with all selected candidates to do.
LEMMA SelectTreeInv == ASSUME SeseInv, Select PROVE TreeInv'
  <1>1. /\ Net /\ ClassInv /\ flow' = flow /\ classes' = classes /\ phase' = "tree"
        /\ todo' = Sel /\ regions' = <<RegionNamed(None, None, None, All)>>
    BY DEF SeseInv, Select, Sel, All
  <1>. DEFINE r == RegionNamed(None, None, None, All)
              regs == <<r>>
  <1>2. r \in RegionType /\ r.contained = All /\ r.children = {} /\ r.parent = None
    BY DEF RegionNamed, RegionType
  <1>. HIDE DEF r
  <1>3. regs \in Seq(RegionType) /\ Len(regs) = 1 /\ regs[1] = r
    BY <1>2
  <1>. HIDE DEF regs
  <1>4. /\ Sel \in Seq(selected) /\ Len(Sel) = Cardinality(selected) /\ Cardinality(selected) \in Nat
    BY <1>1, SelIs
  <1>5. Shape(regs, Sel)
    <2>1. \A i \in 1 .. Len(Sel) : 1 - 1 + i = i
      BY <1>4
    <2>2. 1 - 1 + Len(Sel) = Cardinality(selected)
      BY <1>4
    <2>3. 2 .. 1 = {} /\ \A i \in 1 .. 1 : i = 1
      OBVIOUS
    <2>. QED
      BY <1>2, <1>3, <1>4, <2>1, <2>2, <2>3 DEF Shape
  <1>6. Shape(regions', todo')
    BY <1>1, <1>5 DEF regs, r
  <1>7. Shape(regions, todo)'
    BY <1>1, <1>6, FixedShape
  <1>. QED
    BY <1>1, <1>7 DEF TreeInv

\* A region is put under one of the smallest that contain it.
LEMMA AddRegionTreeInv == ASSUME SeseInv, TreeInv, AddRegion PROVE TreeInv'
  <1>1. /\ Net /\ IdsKnown /\ ClassInv /\ flow' = flow /\ classes' = classes /\ phase' = "tree"
        /\ Shape(regions, todo) /\ todo # <<>> /\ todo' = Tail(todo)
    BY DEF SeseInv, TreeInv, AddRegion, cycleVars
  <1>. DEFINE c == Head(todo)
              contained == Ids(c.nodes)
              R == {i \in DOMAIN regions : contained \subseteq regions[i].contained}
              size(i) == Cardinality(regions[i].contained)
              p == Innermost(LAMBDA S : contained \subseteq S)
  <1>2. regions' = Append([regions EXCEPT ![p].children = @ \cup {Len(regions) + 1}],
                          RegionNamed(p, flow.edges[c.entry].original,
                                      flow.edges[c.exit].original, contained))
    BY DEF AddRegion
  <1>3. /\ DOMAIN regions = 1 .. Len(regions) /\ Len(regions) \in Nat /\ 1 \in 1 .. Len(regions)
        /\ regions[1].contained = All
    BY <1>1, ShapeParts
  <1>4. contained \subseteq All
    <2>1. c \in selected
      BY <1>1 DEF Shape
    <2>2. c.nodes \in SUBSET Inner
      BY <1>1, <2>1, SelIs, CandidateFacts
    <2>. QED
      BY <1>1, <2>2, IdsFacts
  <1>5. \E i \in R : \A j \in R : size(i) < size(j) \/ (size(i) = size(j) /\ i <= j)
    <2>. DEFINE m == Len(regions)
                w == [i \in 1 .. m |-> size(i)]
    <2>1. \A i \in 1 .. m : size(i) \in Nat
      BY <1>1, ShapeNests
    <2>2. w \in [1 .. m -> Nat]
      BY <2>1
    <2>3. R \in SUBSET (1 .. m) /\ R # {} /\ m \in Nat
      BY <1>3, <1>4
    <2>4. \A i \in R : w[i] = size(i)
      BY <2>3
    <2>. HIDE DEF R, size, w, m
    <2>5. PICK i \in R : \A j \in R : w[i] < w[j] \/ (w[i] = w[j] /\ i <= j)
      BY <2>2, <2>3, InnermostFound
    <2>. QED
      BY <2>4, <2>5
  <1>6. p \in R /\ \A j \in R : size(p) < size(j) \/ (size(p) = size(j) /\ p <= j)
    <2>1. p = CHOOSE i \in R : \A j \in R : size(i) < size(j) \/ (size(i) = size(j) /\ i <= j)
      BY DEF Innermost
    <2>. HIDE DEF R, size, p
    <2>. QED
      BY <1>5, <2>1
  <1>. HIDE DEF p
  <1>7. /\ p \in 1 .. Len(regions) /\ contained \subseteq regions[p].contained
        /\ \A j \in 1 .. Len(regions) : contained \subseteq regions[j].contained
              => Cardinality(regions[p].contained) <= Cardinality(regions[j].contained)
    <2>1. p \in 1 .. Len(regions) /\ contained \subseteq regions[p].contained
      BY <1>3, <1>6
    <2>2. ASSUME NEW j \in 1 .. Len(regions), contained \subseteq regions[j].contained
          PROVE  size(p) <= size(j)
      <3>1. size(p) \in Nat /\ size(j) \in Nat
        BY <1>1, <2>1, ShapeNests
      <3>2. j \in R
        BY <1>3, <2>2
      <3>. HIDE DEF size, R
      <3>. QED
        BY <1>6, <3>1, <3>2
    <2>. QED
      BY <2>1, <2>2
  <1>8. Shape(regions', todo')
    <2>1. PICK d : d = c
      OBVIOUS
    <2>2. /\ p \in 1 .. Len(regions) /\ Ids(d.nodes) \subseteq regions[p].contained /\ d = Head(todo)
          /\ \A j \in 1 .. Len(regions) : Ids(d.nodes) \subseteq regions[j].contained
              => Cardinality(regions[p].contained) <= Cardinality(regions[j].contained)
      BY <1>7, <2>1
    <2>3. Shape(Append([regions EXCEPT ![p].children = @ \cup {Len(regions) + 1}],
                        RegionNamed(p, flow.edges[d.entry].original,
                                    flow.edges[d.exit].original, Ids(d.nodes))),
                 Tail(todo))
      BY <1>1, <2>2, ShapeAppends
    <2>. QED
      BY <1>1, <1>2, <2>1, <2>3
  <1>9. Shape(regions, todo)'
    BY <1>1, <1>8, FixedShape
  <1>. QED
    BY <1>1, <1>9 DEF TreeInv

\* The same place in the tree.
Alike(r, s) == /\ r.parent = s.parent /\ r.children = s.children /\ r.contained = s.contained
               /\ r.entry_edge = s.entry_edge /\ r.exit_edge = s.exit_edge

\* The nodes are the last thing to be filled in.
LEMMA ShapeFills ==
    ASSUME NEW regs, NEW left, Shape(regs, left),
           NEW new \in [1 .. Len(regs) -> RegionType],
           \A i \in 1 .. Len(regs) : Alike(new[i], regs[i])
    PROVE  Shape(new, left) /\ Len(new) = Len(regs)
  <1>. DEFINE m == Len(regs)
  <1>1. /\ regs \in Seq(RegionType) /\ m \in Nat \ {0} /\ DOMAIN regs = 1 .. m /\ 1 \in 1 .. m
        /\ \A i \in 1 .. m : regs[i] \in RegionType
    BY ShapeParts DEF Shape
  <1>3. \A i \in 1 .. m :
           /\ new[i] \in RegionType
           /\ new[i].parent = regs[i].parent /\ new[i].children = regs[i].children
           /\ new[i].entry_edge = regs[i].entry_edge /\ new[i].exit_edge = regs[i].exit_edge
           /\ new[i].contained = regs[i].contained
    BY DEF Alike
  <1>4. new \in Seq(RegionType) /\ Len(new) = m
    <2>. DEFINE B == RegionType
    <2>1. new = [i \in 1 .. m |-> new[i]] /\ m \in Nat
      BY <1>1
    <2>2. \A i \in 1 .. m : new[i] \in B
      BY <1>3
    <2>. HIDE DEF B, m
    <2>3. new \in Seq(B) /\ Len(new) = m
      BY ONLY <2>1, <2>2
    <2>. QED
      BY <2>3 DEF B
  <1>5. \A i \in 2 .. m : i \in 1 .. m /\ \A j \in 1 .. i - 1 : j \in 1 .. m
    BY <1>1
  <1>. DEFINE same == \A i \in 1 .. m : /\ new[i].parent = regs[i].parent
                                        /\ new[i].children = regs[i].children
                                        /\ new[i].entry_edge = regs[i].entry_edge
                                        /\ new[i].exit_edge = regs[i].exit_edge
                                        /\ new[i].contained = regs[i].contained
  <1>6. same
    BY <1>3
  <1>7. ASSUME NEW i \in 2 .. m
        PROVE  Parented(new, i)
    <2>. DEFINE o == regs[i].parent
    <2>1. /\ o \in 1 .. i - 1 /\ regs[i].contained \subseteq regs[o].contained
          /\ \A j \in 1 .. i - 1 :
                regs[i].contained \subseteq regs[j].contained
                  => Cardinality(regs[o].contained) <= Cardinality(regs[j].contained)
      BY DEF Shape, Parented
    <2>2. /\ i \in 1 .. m /\ new[i].parent = o /\ new[i].contained = regs[i].contained
          /\ \A j \in 1 .. i - 1 : new[j].contained = regs[j].contained
      BY <1>5, <1>6
    <2>3. new[o].contained = regs[o].contained
      BY <2>1, <2>2
    <2>. HIDE DEF o
    <2>. QED
      BY <2>1, <2>2, <2>3 DEF Parented
  <1>8. \A i \in 1 .. m : new[i].children = {k \in 2 .. m : new[k].parent = i}
    <2>1. \A i \in 1 .. m : regs[i].children = {k \in 2 .. m : regs[k].parent = i}
      BY DEF Shape
    <2>2. \A k \in 2 .. m : new[k].parent = regs[k].parent
      BY <1>5, <1>6
    <2>. QED
      BY <1>6, <2>1, <2>2
  <1>9. \A i \in 2 .. m :
            /\ new[i].entry_edge = flow.edges[Sel[i - 1].entry].original
            /\ new[i].exit_edge = flow.edges[Sel[i - 1].exit].original
            /\ new[i].contained = Ids(Sel[i - 1].nodes)
    <2>1. \A i \in 2 .. m :
            /\ regs[i].entry_edge = flow.edges[Sel[i - 1].entry].original
            /\ regs[i].exit_edge = flow.edges[Sel[i - 1].exit].original
            /\ regs[i].contained = Ids(Sel[i - 1].nodes)
      BY DEF Shape
    <2>. QED
      BY <1>5, <1>6, <2>1
  <1>10. new[1].contained = All
    BY <1>1, <1>6, ShapeParts
  <1>11. /\ left \in Seq(selected) /\ m - 1 + Len(left) = Cardinality(selected)
         /\ \A i \in 1 .. Len(left) : left[i] = Sel[m - 1 + i]
    BY DEF Shape
  <1>12. Shape(new, left)
    <2>. HIDE DEF m
    <2>. QED
      BY <1>1, <1>4, <1>7, <1>8, <1>9, <1>10, <1>11 DEF Shape
  <1>. QED
    BY <1>4, <1>12

\* At the end every node is given one of the smallest regions that contain it.
LEMMA AssignTreeInv == ASSUME SeseInv, TreeInv, AssignNodes PROVE TreeInv'
  <1>1. /\ Net /\ IdsKnown /\ ClassInv /\ flow' = flow /\ classes' = classes /\ phase' = "done"
        /\ Shape(regions, todo) /\ todo' = todo /\ todo = <<>>
        /\ regions' = [i \in DOMAIN regions |->
                         [regions[i] EXCEPT !.nodes = {id \in All : Owner(id) = i}]]
    BY DEF SeseInv, TreeInv, AssignNodes, All
  <1>. DEFINE m == Len(regions)
              R(id) == {i \in DOMAIN regions : id \in regions[i].contained}
              size(i) == Cardinality(regions[i].contained)
              own == [id \in All |-> Owner(id)]
  <1>2. /\ DOMAIN regions = 1 .. m /\ m \in Nat /\ 1 \in 1 .. m /\ regions[1].contained = All
    BY <1>1, ShapeParts
  <1>3. \A i \in 1 .. m : size(i) \in Nat
    BY <1>1, ShapeNests
  <1>4. ASSUME NEW id \in All
        PROVE  /\ Owner(id) \in 1 .. m /\ id \in regions[Owner(id)].contained
               /\ \A j \in 1 .. m : id \in regions[j].contained => size(Owner(id)) <= size(j)
    <2>. DEFINE S == R(id)
    <2>1. S \in SUBSET (1 .. m) /\ S # {}
      BY <1>2
    <2>2. \E i \in S : \A j \in S : size(i) < size(j) \/ (size(i) = size(j) /\ i <= j)
      <3>. DEFINE w == [i \in 1 .. m |-> size(i)]
      <3>1. w \in [1 .. m -> Nat]
        BY <1>3
      <3>2. \A i \in S : w[i] = size(i)
        BY <2>1
      <3>. HIDE DEF S, size, w, m
      <3>3. PICK i \in S : \A j \in S : w[i] < w[j] \/ (w[i] = w[j] /\ i <= j)
        BY <1>2, <2>1, <3>1, InnermostFound
      <3>. QED
        BY <3>2, <3>3
    <2>. DEFINE o == Owner(id)
    <2>3. o = CHOOSE i \in S : \A j \in S : size(i) < size(j) \/ (size(i) = size(j) /\ i <= j)
      BY DEF Owner, Innermost
    <2>4. o \in S /\ \A j \in S : size(o) < size(j) \/ (size(o) = size(j) /\ o <= j)
      <3>. HIDE DEF S, size, o
      <3>. QED
        BY <2>2, <2>3
    <2>5. ASSUME NEW j \in 1 .. m, id \in regions[j].contained
          PROVE  size(o) <= size(j)
      <3>1. j \in S /\ o \in 1 .. m
        BY <1>2, <2>1, <2>4, <2>5
      <3>2. size(o) \in Nat /\ size(j) \in Nat
        BY <1>3, <3>1
      <3>3. size(o) < size(j) \/ size(o) = size(j)
        BY <2>4, <3>1
      <3>. HIDE DEF size, o
      <3>. QED
        BY <3>2, <3>3
    <2>6. o \in 1 .. m /\ id \in regions[o].contained
      BY <1>2, <2>4
    <2>. QED
      BY <2>5, <2>6
  <1>5. own \in [All -> 1 .. m] /\ \A id \in All : own[id] = Owner(id)
    BY <1>4
  <1>. HIDE DEF own
  <1>. DEFINE nodes == [i \in 1 .. m |-> {id \in All : own[id] = i}]
  <1>6. /\ regions' = [i \in 1 .. m |-> regions'[i]]
        /\ \A i \in 1 .. m : /\ regions'[i] = [regions[i] EXCEPT !.nodes = nodes[i]]
                             /\ nodes[i] \in SUBSET All /\ nodes[i] = {id \in All : own[id] = i}
    <2>1. \A i \in 1 .. m : {id \in All : Owner(id) = i} = nodes[i]
      BY <1>5
    <2>2. \A i \in 1 .. m : /\ nodes[i] \in SUBSET All
                             /\ nodes[i] = {id \in All : own[id] = i}
      OBVIOUS
    <2>. HIDE DEF nodes
    <2>3. /\ regions' = [i \in 1 .. m |-> regions'[i]]
          /\ \A i \in 1 .. m : regions'[i] = [regions[i] EXCEPT !.nodes = {id \in All : Owner(id) = i}]
      BY <1>1, <1>2
    <2>. QED
      BY <2>1, <2>2, <2>3
  <1>. HIDE DEF nodes
  <1>7. PICK new \in [1 .. m -> RegionType] :
          /\ new = regions'
          /\ \A i \in 1 .. m : Alike(new[i], regions[i]) /\ new[i].nodes = nodes[i]
    <2>. DEFINE rest == regions'
    <2>1. ASSUME NEW i \in 1 .. m
          PROVE  rest[i] \in RegionType /\ Alike(rest[i], regions[i]) /\ rest[i].nodes = nodes[i]
      <3>. DEFINE N == nodes[i]
                  r == rest[i]
      <3>1. regions[i] \in RegionType /\ N \in SUBSET All /\ r = [regions[i] EXCEPT !.nodes = N]
        BY <1>1, <1>6, ShapeParts
      <3>. HIDE DEF N, r
      <3>2. r \in RegionType /\ Alike(r, regions[i]) /\ r.nodes = N
        BY <3>1 DEF RegionType, Alike
      <3>. QED
        BY <3>2 DEF N, r
    <2>2. rest = [i \in 1 .. m |-> rest[i]]
      BY <1>6
    <2>. HIDE DEF rest, m
    <2>3. rest \in [1 .. m -> RegionType]
      BY <2>1, <2>2
    <2>4. rest = regions'
      BY DEF rest
    <2>. QED
      BY <2>1, <2>3, <2>4
  <1>8. /\ Shape(new, todo) /\ Len(new) = m
        /\ \A i \in 1 .. m : /\ new[i].contained = regions[i].contained
                             /\ new[i].nodes = {id \in All : own[id] = i}
    <2>1. Shape(new, todo) /\ Len(new) = m
      BY <1>1, <1>7, ShapeFills
    <2>. QED
      BY <1>6, <1>7, <2>1 DEF Alike
  <1>9. Owned(new)
    <2>1. ASSUME NEW id \in All
          PROVE  /\ id \in new[own[id]].contained
                 /\ \A j \in 1 .. m : id \in new[j].contained
                      => Cardinality(new[own[id]].contained) <= Cardinality(new[j].contained)
      <3>. DEFINE o == own[id]
      <3>1. /\ o \in 1 .. m /\ id \in regions[o].contained
            /\ \A j \in 1 .. m : id \in regions[j].contained
                  => Cardinality(regions[o].contained) <= Cardinality(regions[j].contained)
        BY <1>4, <1>5
      <3>. HIDE DEF o, m
      <3>2. /\ id \in new[o].contained
            /\ \A j \in 1 .. m : id \in new[j].contained
                  => Cardinality(new[o].contained) <= Cardinality(new[j].contained)
        BY <1>8, <3>1
      <3>. QED
        BY <3>2 DEF o
    <2>. HIDE DEF m
    <2>. QED
      BY <1>5, <1>8, <2>1 DEF Owned
  <1>10. Shape(regions, todo)'
    BY <1>1, <1>7, <1>8, FixedShape
  <1>11. Owned(regions)'
    BY <1>1, <1>7, <1>9, FixedOwned
  <1>. QED
    BY <1>1, <1>10, <1>11 DEF TreeInv

\* Every step keeps the tree in shape.
LEMMA StepTreeInv == SeseInv /\ TreeInv /\ [Next]_vars => TreeInv'
  <1>. SUFFICES ASSUME SeseInv, TreeInv, [Next]_vars
                PROVE  TreeInv'
    OBVIOUS
  <1>1. CASE Classify
    <2>1. phase' \notin {"tree", "done"}
      <3>1. phase \in {"search", "brackets", "direct", "classified"}
        BY <1>1 DEF Classify, CycleNext, Descend, Return, Bracket, NoBracket, Validate, Join, Label
      <3>. QED
        BY <1>1, <3>1 DEF Classify, CycleNext, Descend, Return, Bracket, NoBracket, Validate,
                          ClassifyDirectly, Join, Label
    <2>. QED
      BY <2>1 DEF TreeInv
  <1>2. CASE Select
    BY <1>2, SelectTreeInv
  <1>3. CASE AddRegion
    BY <1>3, AddRegionTreeInv
  <1>4. CASE AssignNodes
    BY <1>4, AssignTreeInv
  <1>5. CASE UNCHANGED vars
    <2>1. flow' = flow /\ classes' = classes /\ phase' = phase /\ regions' = regions /\ todo' = todo
      BY <1>5 DEF vars, cycleVars
    <2>2. Shape(regions, todo) => Shape(regions, todo)'
      BY <2>1, FixedShape
    <2>3. Owned(regions) => Owned(regions)'
      BY <2>1, FixedOwned
    <2>. QED
      BY <2>1, <2>2, <2>3 DEF TreeInv
  <1>. QED
    BY <1>1, <1>2, <1>3, <1>4, <1>5 DEF Next, Done

\* At every moment compute_sese has put the largest of the selected regions in the
\* tree, each under a smallest one that contains it, and at the end it has put all
\* of them there and given every node a smallest region that contains it.
THEOREM TreeInvariant == Spec => [](SeseInv /\ TreeInv)
  <1>1. Init => TreeInv
    BY DEF Init, Call, TreeInv
  <1>2. SeseInv /\ TreeInv /\ [Next]_vars => (SeseInv /\ TreeInv)'
    BY StepSeseInv, StepTreeInv
  <1>. QED
    BY <1>1, <1>2, InitSeseInv, PTL DEF Spec

\* A finite set has no proper part of its size.
LEMMA NestedEqual ==
    ASSUME NEW S, NEW T, IsFiniteSet(T), S \subseteq T, Cardinality(T) <= Cardinality(S)
    PROVE  S = T
  BY FS_Subset, FS_CardinalityType

\* What the tree of a proper flowgraph looks like.
LEMMA TreeApart ==
    ASSUME Net, IdsKnown, ClassInv, NEW left, Shape(regions, left), Owned(regions), Terminating,
           NEW i \in 1 .. Len(regions)
    PROVE  /\ \A k, l \in regions[i].children :
                 k # l => regions[k].contained \cap regions[l].contained = {}
           /\ regions[i].nodes =
                regions[i].contained \ UNION {regions[k].contained : k \in regions[i].children}
  <1>. DEFINE m == Len(regions)
              C(k) == regions[k].contained
              kids == regions[i].children
  <1>1. /\ m \in Nat /\ 1 \in 1 .. m /\ C(1) = All
        /\ kids = {k \in 2 .. m : regions[k].parent = i}
        /\ \A k \in 2 .. m : Parented(regions, k) /\ k \in 1 .. m
    BY ShapeParts
  <1>2. \A k, l \in 1 .. m :
           /\ C(k) \subseteq All /\ IsFiniteSet(C(k)) /\ Cardinality(C(k)) \in Nat
           /\ ~Crossing(C(k), C(l))
           /\ 1 < k /\ k < l => Cardinality(C(l)) <= Cardinality(C(k))
           /\ C(k) = C(l) => k = l
    BY ShapeNests
  <1>3. \A k, l \in 1 .. m : C(k) \subseteq C(l) /\ Cardinality(C(l)) <= Cardinality(C(k)) => k = l
    BY <1>2, NestedEqual
  <1>4. \A k \in 2 .. m :
           LET p == regions[k].parent
           IN /\ p \in 1 .. k - 1 /\ p \in 1 .. m /\ C(k) \subseteq C(p)
              /\ \A j \in 1 .. k - 1 : C(k) \subseteq C(j) => Cardinality(C(p)) <= Cardinality(C(j))
    <2>1. \A k \in 2 .. m : \A p \in 1 .. k - 1 : p \in 1 .. m
      BY <1>1
    <2>. QED
      BY <1>1, <2>1 DEF Parented
  <1>. HIDE DEF C, m, kids
  \* The smaller of two siblings would have the larger for its parent.
  <1>5. ASSUME NEW k \in kids, NEW l \in kids, k < l
        PROVE  C(k) \cap C(l) = {}
    <2>1. /\ k \in 2 .. m /\ l \in 2 .. m /\ k \in 1 .. m /\ l \in 1 .. m /\ i \in 1 .. m
          /\ regions[k].parent = i /\ regions[l].parent = i
      BY <1>1 DEF m
    <2>2. k \in Nat /\ l \in Nat /\ 1 < k /\ k # l /\ k \in 1 .. l - 1 /\ i # k
      <3>1. k \in Nat /\ l \in Nat /\ 1 < k
        BY <2>1, <1>1
      <3>2. i \in 1 .. k - 1
        BY <1>4, <2>1
      <3>. QED
        BY <1>5, <3>1, <3>2
    <2>3. ~(C(k) \subseteq C(l))
      <3>1. Cardinality(C(l)) <= Cardinality(C(k))
        BY <1>2, <1>5, <2>1, <2>2
      <3>. QED
        BY <1>3, <2>1, <2>2, <3>1
    <2>4. ~(C(l) \subseteq C(k))
      <3>1. SUFFICES ASSUME C(l) \subseteq C(k)
                     PROVE  FALSE
        OBVIOUS
      <3>2. Cardinality(C(i)) <= Cardinality(C(k))
        BY <1>4, <2>1, <2>2, <3>1
      <3>3. C(k) \subseteq C(i)
        BY <1>4, <2>1
      <3>. QED
        BY <1>3, <2>1, <2>2, <3>2, <3>3
    <2>. QED
      BY <1>2, <2>1, <2>3, <2>4 DEF Crossing
  <1>6. \A k, l \in kids : k # l => C(k) \cap C(l) = {}
    <2>1. \A k, l \in kids : k # l => k < l \/ l < k
      BY <1>1
    <2>. QED
      BY <1>5, <2>1
  <1>7. PICK own \in [All -> 1 .. m] :
          /\ \A id \in All :
                /\ id \in C(own[id])
                /\ \A j \in 1 .. m : id \in C(j) => Cardinality(C(own[id])) <= Cardinality(C(j))
          /\ \A k \in 1 .. m : regions[k].nodes = {id \in All : own[id] = k}
    BY DEF Owned, C, m
  <1>8. i \in 1 .. m /\ C(i) \subseteq All
    BY <1>2 DEF m
  <1>9. ASSUME NEW id \in All, own[id] = i
        PROVE  id \in C(i) /\ \A k \in kids : id \notin C(k)
    <2>1. id \in C(i)
      BY <1>7, <1>9
    <2>2. ASSUME NEW k \in kids, id \in C(k)
          PROVE  FALSE
      <3>1. k \in 2 .. m /\ k \in 1 .. m /\ regions[k].parent = i
        BY <1>1
      <3>2. C(k) \subseteq C(i) /\ i \in 1 .. k - 1
        BY <1>4, <3>1
      <3>3. Cardinality(C(i)) <= Cardinality(C(k))
        BY <1>7, <1>9, <2>2, <3>1
      <3>4. i = k
        BY <1>3, <1>8, <3>1, <3>2, <3>3
      <3>. QED
        BY <1>1, <3>1, <3>2, <3>4
    <2>. QED
      BY <2>1, <2>2
  \* A node of the region that belongs further down is in one of the children.
  <1>10. ASSUME NEW id \in C(i), own[id] # i
         PROVE  \E k \in kids : id \in C(k)
    <2>. DEFINE o == own[id]
                J == {j \in 1 .. m : id \in C(j) /\ C(j) \subseteq C(i) /\ j # i}
    <2>1. id \in All /\ o \in 1 .. m /\ id \in C(o) /\ Cardinality(C(o)) <= Cardinality(C(i))
      BY <1>7, <1>8
    <2>2. o \in J
      <3>1. ~(C(i) \subseteq C(o))
        BY <1>3, <1>8, <1>10, <2>1
      <3>2. C(o) \subseteq C(i)
        BY <1>2, <1>8, <2>1, <3>1 DEF Crossing
      <3>. QED
        BY <1>10, <2>1, <3>2
    <2>3. J \in SUBSET Nat /\ J # {}
      BY <1>1, <2>2
    <2>4. PICK k \in J : \A j \in J : k <= j
      <3>. HIDE DEF J
      <3>. QED
        BY <2>3, LeastNat
    <2>5. k \in 1 .. m /\ k \in Nat /\ id \in C(k) /\ C(k) \subseteq C(i) /\ k # i
      BY <1>1, <2>4
    <2>6. k # 1
      <3>1. SUFFICES ASSUME k = 1
                     PROVE  FALSE
        OBVIOUS
      <3>2. C(i) = C(k)
        BY <1>1, <1>8, <2>5, <3>1
      <3>. QED
        BY <1>2, <1>8, <2>5, <3>2
    <2>7. k \in 2 .. m
      BY <1>1, <2>5, <2>6
    <2>8. i \in 1 .. k - 1
      <3>1. SUFFICES ASSUME k < i
                     PROVE  FALSE
        BY <1>1, <1>8, <2>5
      <3>2. 1 < k
        BY <1>1, <2>7
      <3>3. Cardinality(C(i)) <= Cardinality(C(k))
        BY <1>2, <1>8, <2>5, <3>1, <3>2
      <3>. QED
        BY <1>3, <1>8, <2>5, <3>3
    <2>. DEFINE p == regions[k].parent
    <2>9. /\ p \in 1 .. k - 1 /\ p \in 1 .. m /\ C(k) \subseteq C(p)
          /\ Cardinality(C(p)) <= Cardinality(C(i))
      BY <1>4, <2>5, <2>7, <2>8
    <2>10. p = i
      <3>1. SUFFICES ASSUME p # i
                     PROVE  FALSE
        OBVIOUS
      <3>2. ~(C(i) \subseteq C(p))
        BY <1>3, <1>8, <2>9, <3>1
      <3>3. C(p) \subseteq C(i)
        BY <1>2, <1>8, <2>5, <2>9, <3>2 DEF Crossing
      <3>4. p \in J
        BY <2>5, <2>9, <3>1, <3>3
      <3>5. k <= p /\ p \in 1 .. k - 1
        BY <2>4, <2>9, <3>4
      <3>. HIDE DEF p
      <3>. QED
        BY <2>5, <3>5
    <2>. QED
      BY <1>1, <2>5, <2>7, <2>10
  <1>11. regions[i].nodes = C(i) \ UNION {C(k) : k \in kids}
    <2>1. regions[i].nodes = {id \in All : own[id] = i}
      BY <1>7, <1>8
    <2>2. \A id \in All : own[id] = i <=> id \in C(i) /\ ~\E k \in kids : id \in C(k)
      BY <1>9, <1>10
    <2>3. \A id : id \in UNION {C(k) : k \in kids} <=> \E k \in kids : id \in C(k)
      OBVIOUS
    <2>. QED
      BY <1>8, <2>1, <2>2, <2>3
  <1>. QED
    BY <1>6, <1>11 DEF C, kids

-----------------------------------------------------------------------------
(* What is returned.                                                       *)

\* A tree of this shape is what TreeExact asks for.
LEMMA InvTreeExact == SeseInv /\ TreeInv => TreeExact
  <1>. SUFFICES ASSUME SeseInv, TreeInv, phase = "done"
                PROVE  TreeExact
    BY DEF TreeExact
  <1>. DEFINE m == Len(regions)
              C(k) == regions[k].contained
  <1>1. Net /\ IdsKnown /\ ClassInv /\ Shape(regions, todo) /\ Owned(regions)
    BY DEF SeseInv, TreeInv
  <1>2. /\ DOMAIN regions = 1 .. m /\ m \in Nat
        /\ \A i \in 1 .. m : /\ regions[i] \in RegionType
                             /\ regions[i].children = {k \in 2 .. m : regions[k].parent = i}
        /\ \A i \in 2 .. m : Parented(regions, i) /\ i \in 1 .. m
    BY <1>1, ShapeParts
  <1>3. UNION {regions[i].nodes : i \in DOMAIN regions} = All
    <2>1. PICK own \in [All -> 1 .. m] :
            \A i \in 1 .. m : regions[i].nodes = {id \in All : own[id] = i}
      BY <1>1 DEF Owned
    <2>2. \A id \in All : own[id] \in DOMAIN regions /\ id \in regions[own[id]].nodes
      BY <1>2, <2>1
    <2>3. \A i \in DOMAIN regions : regions[i].nodes \subseteq All
      BY <1>2, <2>1
    <2>. QED
      BY <2>2, <2>3
  <1>4. ASSUME NEW i \in DOMAIN regions
        PROVE  /\ \A k \in regions[i].children : regions[k].parent = i /\ C(k) \subseteq C(i)
               /\ \A k, l \in regions[i].children : ~Crossing(C(k), C(l))
               /\ Terminating =>
                    /\ \A k, l \in regions[i].children : k # l => C(k) \cap C(l) = {}
                    /\ regions[i].nodes = C(i) \ UNION {C(k) : k \in regions[i].children}
    <2>1. i \in 1 .. m
      BY <1>2
    <2>2. \A k \in regions[i].children : k \in 2 .. m /\ k \in 1 .. m /\ regions[k].parent = i
      BY <1>2, <2>1
    <2>3. \A k \in regions[i].children : C(k) \subseteq C(i)
      BY <1>2, <2>2 DEF Parented
    <2>4. \A k, l \in regions[i].children : ~Crossing(C(k), C(l))
      BY <1>1, <2>2, ShapeNests
    <2>. QED
      BY <1>1, <2>1, <2>2, <2>3, <2>4, TreeApart
  <1>. QED
    BY <1>3, <1>4 DEF TreeExact, All

\* What the caller is shown of a candidate.
Shown(c) == [entry_edge |-> flow.edges[c.entry].original,
             exit_edge |-> flow.edges[c.exit].original,
             contained_nodes |-> Ids(c.nodes)]

\* compute_sese_candidates shows every candidate, and nothing else.
LEMMA ListedIs ==
    ASSUME Net, ClassInv
    PROVE  \A x : x \in ToSet(compute_sese_candidates) <=> \E c \in candidates : x = Shown(c)
  <1>. DEFINE sorted == Sorted(candidates, Larger)
              out == [i \in DOMAIN sorted |-> Shown(sorted[i])]
  <1>1. Lists(sorted, candidates)
    BY SortedLists
  <1>2. /\ \A i \in DOMAIN sorted : sorted[i] \in candidates
        /\ \A c \in candidates : \E i \in DOMAIN sorted : sorted[i] = c
    <2>. HIDE DEF sorted
    <2>. QED
      BY <1>1 DEF Lists
  <1>3. compute_sese_candidates = out
    BY DEF compute_sese_candidates, Shown
  <1>4. DOMAIN out = DOMAIN sorted /\ \A i \in DOMAIN sorted : out[i] = Shown(sorted[i])
    OBVIOUS
  <1>5. \A x : x \in ToSet(out) <=> \E i \in DOMAIN out : x = out[i]
    <2>. HIDE DEF out
    <2>. QED
      BY DEF ToSet
  <1>. HIDE DEF out, sorted
  <1>. QED
    BY <1>2, <1>3, <1>4, <1>5

\* Every candidate has a selected one, no larger, at each of its boundaries.
LEMMA SelectedAt ==
    ASSUME Net, IdsKnown, ClassInv, Terminating, NEW c \in candidates, NEW e \in {c.entry, c.exit}
    PROVE  \E m \in selected : /\ e \in {m.entry, m.exit}
                               /\ Cardinality(Ids(m.nodes)) <= Cardinality(Ids(c.nodes))
  <1>1. PICK m : m = smallest_for_boundary(candidates, e)
    OBVIOUS
  <1>2. /\ m \in candidates /\ e \in {m.entry, m.exit}
        /\ \A d \in candidates :
              e \in {d.entry, d.exit} => Cardinality(m.nodes) <= Cardinality(d.nodes)
    BY <1>1, SmallestIs
  <1>3. m \in Canonical(candidates)
    BY <1>1, <1>2 DEF Canonical
  <1>4. m \in selected
    BY <1>3, CanonicalNeverCrosses DEF selected
  <1>5. c.nodes \in SUBSET Inner /\ m.nodes \in SUBSET Inner
    BY <1>2, CandidateFacts
  <1>6. Cardinality(m.nodes) <= Cardinality(c.nodes)
    BY <1>2
  <1>7. /\ Cardinality(Ids(m.nodes)) = Cardinality(m.nodes)
        /\ Cardinality(Ids(c.nodes)) = Cardinality(c.nodes)
    BY <1>5, IdsFacts
  <1>. QED
    BY <1>2, <1>4, <1>6, <1>7

\* Each selected candidate is a region of the tree, and no other region is.
LEMMA InvCanonicalRegions == SeseInv /\ TreeInv => CanonicalRegions
  <1>. SUFFICES ASSUME SeseInv, TreeInv, phase = "done"
                PROVE  CanonicalRegions
    BY DEF CanonicalRegions
  <1>. DEFINE m == Len(regions)
              listed == ToSet(compute_sese_candidates)
              inner == {regions[i] : i \in 2 .. m}
  <1>1. Net /\ IdsKnown /\ ClassInv /\ Shape(regions, todo) /\ todo = <<>>
    BY DEF SeseInv, TreeInv
  <1>2. /\ selected \in SUBSET candidates /\ Cardinality(selected) \in Nat
        /\ \A i \in 1 .. Cardinality(selected) : Sel[i] \in selected
        /\ \A c \in selected : \E i \in 1 .. Cardinality(selected) : Sel[i] = c
    BY <1>1, SelIs
  <1>3. m \in Nat /\ m = Cardinality(selected) + 1
    BY <1>1, <1>2 DEF Shape
  <1>4. \A i \in 2 .. m : /\ regions[i].entry_edge = flow.edges[Sel[i - 1].entry].original
                          /\ regions[i].exit_edge = flow.edges[Sel[i - 1].exit].original
                          /\ regions[i].contained = Ids(Sel[i - 1].nodes)
    BY <1>1 DEF Shape
  <1>5. \A x : x \in listed <=> \E c \in candidates : x = Shown(c)
    BY <1>1, ListedIs
  <1>. HIDE DEF listed
  <1>6. ASSUME NEW r \in inner
        PROVE  [entry_edge |-> r.entry_edge, exit_edge |-> r.exit_edge,
                contained_nodes |-> r.contained] \in listed
    <2>1. PICK i \in 2 .. m : r = regions[i]
      OBVIOUS
    <2>2. i - 1 \in 1 .. Cardinality(selected)
      BY <1>2, <1>3
    <2>3. Sel[i - 1] \in candidates
      BY <1>2, <2>2
    <2>4. [entry_edge |-> r.entry_edge, exit_edge |-> r.exit_edge,
           contained_nodes |-> r.contained] = Shown(Sel[i - 1])
      BY <1>4, <2>1 DEF Shown
    <2>. QED
      BY <1>5, <2>3, <2>4
  <1>7. ASSUME Terminating, NEW x \in listed, NEW e \in {x.entry_edge, x.exit_edge}
        PROVE  \E r \in inner : /\ e \in {r.entry_edge, r.exit_edge}
                                /\ Cardinality(r.contained) <= Cardinality(x.contained_nodes)
    <2>1. PICK c \in candidates : x = Shown(c)
      BY <1>5
    <2>2. x.contained_nodes = Ids(c.nodes)
          /\ \E d \in {c.entry, c.exit} : e = flow.edges[d].original
      BY <1>7, <2>1 DEF Shown
    <2>3. PICK d \in {c.entry, c.exit} : e = flow.edges[d].original
      BY <2>2
    <2>4. PICK s \in selected : /\ d \in {s.entry, s.exit}
                                /\ Cardinality(Ids(s.nodes)) <= Cardinality(Ids(c.nodes))
      BY <1>1, <1>7, SelectedAt
    <2>5. PICK j \in 1 .. Cardinality(selected) : Sel[j] = s
      BY <1>2
    <2>6. j + 1 \in 2 .. m /\ (j + 1) - 1 = j
      BY <1>2, <1>3
    <2>7. /\ regions[j + 1].entry_edge = flow.edges[s.entry].original
          /\ regions[j + 1].exit_edge = flow.edges[s.exit].original
          /\ regions[j + 1].contained = Ids(s.nodes)
      BY <1>4, <2>5, <2>6
    <2>8. regions[j + 1] \in inner
      BY <2>6
    <2>9. e \in {regions[j + 1].entry_edge, regions[j + 1].exit_edge}
      BY <2>3, <2>4, <2>7
    <2>. HIDE DEF inner
    <2>. QED
      BY <2>2, <2>4, <2>7, <2>8, <2>9
  <1>. QED
    BY <1>6, <1>7 DEF CanonicalRegions, listed

\* Whatever the graph, compute_sese returns a tree over all reachable nodes: every
\* node has one region, regions lie in their parents and do not cross; and if every
\* node can reach an exit, siblings are apart and a region owns what is in none of
\* its children.
THEOREM TreeExactAlways == Spec => []TreeExact
  BY InvTreeExact, TreeInvariant, PTL

\* Whatever the graph, each region compute_sese returns is a candidate; and if every
\* node can reach an exit, each edge that bounds a candidate bounds a region no
\* larger, so dropping the regions that cross others loses nothing.
THEOREM CanonicalRegionsAlways == Spec => []CanonicalRegions
  BY InvCanonicalRegions, TreeInvariant, PTL

-----------------------------------------------------------------------------
(* Sequences: what is left of one, what several make together.             *)

\* The elements of U occur once in s.
Once(s, U) == \A i, j \in DOMAIN s : s[i] = s[j] /\ s[i] \in U => i = j

\* A filtered sequence keeps the elements of T, and repeats none that was not repeated.
LEMMA FilteredFacts ==
    ASSUME NEW A, NEW s \in Seq(A), NEW T
    PROVE  /\ Filtered(s, T) \in Seq(A)
           /\ ToSet(Filtered(s, T)) = ToSet(s) \cap T
           /\ \A U : Once(s, U) => Once(Filtered(s, T), U)
  <1>. DEFINE P == {i \in DOMAIN s : s[i] \in T}
              kept == Ascending(P)
              f == [i \in DOMAIN kept |-> s[kept[i]]]
  <1>1. /\ Len(s) \in Nat /\ DOMAIN s = 1 .. Len(s) /\ \A i \in 1 .. Len(s) : s[i] \in A
        /\ P \in SUBSET Nat /\ P \subseteq 1 .. Len(s)
    OBVIOUS
  <1>2. \A i \in P : i \in DOMAIN s /\ s[i] \in T
    OBVIOUS
  <1>3. \A i \in DOMAIN s : s[i] \in T => i \in P
    OBVIOUS
  <1>4. Filtered(s, T) = f
    BY DEF Filtered
  <1>. HIDE DEF P
  <1>5. IsFiniteSet(P)
    <2>1. IsFiniteSet(1 .. Len(s))
      BY <1>1, FS_Interval
    <2>. QED
      BY <1>1, <2>1, FS_Subset
  <1>6. Lists(kept, P)
    BY <1>1, <1>5, AscendingLists
  <1>. HIDE DEF kept
  <1>. DEFINE c == Cardinality(P)
  <1>7. /\ c \in Nat /\ DOMAIN kept = 1 .. c /\ \A i \in 1 .. c : kept[i] \in P
        /\ \A x \in P : \E i \in 1 .. c : kept[i] = x
        /\ \A i, j \in 1 .. c : kept[i] = kept[j] => i = j
    BY <1>5, <1>6, ListSeq DEF Lists
  <1>. HIDE DEF c
  <1>8. DOMAIN f = 1 .. c /\ \A i \in 1 .. c : f[i] = s[kept[i]] /\ f[i] \in A
    BY <1>1, <1>7
  <1>. HIDE DEF f
  <1>9. f \in Seq(A)
    <2>1. f \in [1 .. c -> A]
      BY <1>4, <1>7, <1>8 DEF f
    <2>. QED
      BY <1>7, <2>1
  <1>10. ToSet(f) = ToSet(s) \cap T
    <2>1. ASSUME NEW x \in ToSet(f)
          PROVE  x \in ToSet(s) \cap T
      <3>1. PICK i \in 1 .. c : f[i] = x
        BY <1>8 DEF ToSet
      <3>2. kept[i] \in P /\ s[kept[i]] = x
        BY <1>7, <1>8, <3>1
      <3>3. kept[i] \in DOMAIN s /\ x \in T
        BY <1>2, <3>2
      <3>. QED
        BY <3>2, <3>3 DEF ToSet
    <2>2. ASSUME NEW x \in ToSet(s), x \in T
          PROVE  x \in ToSet(f)
      <3>1. PICK i \in DOMAIN s : s[i] = x
        BY DEF ToSet
      <3>2. PICK j \in 1 .. c : kept[j] = i
        BY <1>3, <1>7, <2>2, <3>1
      <3>. QED
        BY <1>8, <3>1, <3>2 DEF ToSet
    <2>. QED
      BY <2>1, <2>2
  <1>11. ASSUME NEW U, Once(s, U)
         PROVE  Once(f, U)
    <2>. SUFFICES ASSUME NEW i \in 1 .. c, NEW j \in 1 .. c, f[i] = f[j], f[i] \in U
                  PROVE  i = j
      BY <1>8 DEF Once
    <2>1. kept[i] \in DOMAIN s /\ kept[j] \in DOMAIN s /\ f[i] = s[kept[i]] /\ f[j] = s[kept[j]]
      BY <1>2, <1>7, <1>8
    <2>2. kept[i] = kept[j]
      BY <1>11, <2>1 DEF Once
    <2>. QED
      BY <1>7, <2>2
  <1>. QED
    BY <1>4, <1>9, <1>10, <1>11

\* Two sequences joined.
LEMMA JoinedOnce ==
    ASSUME NEW A, NEW s \in Seq(A), NEW t \in Seq(A)
    PROVE  /\ s \o t \in Seq(A) /\ ToSet(s \o t) = ToSet(s) \cup ToSet(t)
           /\ \A U : Once(s, U) /\ Once(t, U) /\ ToSet(s) \cap ToSet(t) \cap U = {}
                       => Once(s \o t, U)
  <1>. DEFINE m == Len(s)
              k == Len(t)
              u == s \o t
  <1>1. /\ m \in Nat /\ k \in Nat /\ DOMAIN s = 1 .. m /\ DOMAIN t = 1 .. k
        /\ u \in Seq(A) /\ DOMAIN u = 1 .. m + k
        /\ \A i \in 1 .. m : u[i] = s[i]
        /\ \A i \in 1 .. k : u[m + i] = t[i]
    OBVIOUS
  <1>. HIDE DEF m, k, u
  <1>2. \A i \in 1 .. m + k : i \in 1 .. m \/ (i > m /\ i - m \in 1 .. k /\ m + (i - m) = i)
    BY <1>1
  <1>3. \A i \in 1 .. m + k : (i \in 1 .. m /\ u[i] = s[i])
                              \/ (i - m \in 1 .. k /\ i > m /\ u[i] = t[i - m])
    <2>. SUFFICES ASSUME NEW i \in 1 .. m + k
                  PROVE  (i \in 1 .. m /\ u[i] = s[i])
                              \/ (i - m \in 1 .. k /\ i > m /\ u[i] = t[i - m])
      OBVIOUS
    <2>1. CASE i \in 1 .. m
      BY <1>1, <2>1
    <2>2. CASE i > m /\ i - m \in 1 .. k /\ m + (i - m) = i
      <3>1. u[m + (i - m)] = t[i - m]
        BY <1>1, <2>2
      <3>. QED
        BY <2>2, <3>1
    <2>. QED
      BY <1>2, <2>1, <2>2
  <1>4. ToSet(u) = ToSet(s) \cup ToSet(t)
    <2>1. \A x \in ToSet(u) : x \in ToSet(s) \cup ToSet(t)
      BY <1>1, <1>3 DEF ToSet
    <2>2. \A x \in ToSet(s) : x \in ToSet(u)
      <3>1. \A i \in 1 .. m : i \in 1 .. m + k
        BY <1>1
      <3>. QED
        BY <1>1, <3>1 DEF ToSet
    <2>3. \A x \in ToSet(t) : x \in ToSet(u)
      <3>1. \A i \in 1 .. k : m + i \in 1 .. m + k
        BY <1>1
      <3>. QED
        BY <1>1, <3>1 DEF ToSet
    <2>. QED
      BY <2>1, <2>2, <2>3
  <1>5. ASSUME NEW U, Once(s, U), Once(t, U), ToSet(s) \cap ToSet(t) \cap U = {}
        PROVE  Once(u, U)
    <2>. SUFFICES ASSUME NEW i \in 1 .. m + k, NEW j \in 1 .. m + k, u[i] = u[j], u[i] \in U
                  PROVE  i = j
      BY <1>1 DEF Once
    <2>1. CASE i \in 1 .. m /\ u[i] = s[i] /\ j \in 1 .. m /\ u[j] = s[j]
      BY <1>1, <1>5, <2>1 DEF Once
    <2>2. CASE i - m \in 1 .. k /\ u[i] = t[i - m] /\ j - m \in 1 .. k /\ u[j] = t[j - m]
      <3>1. i - m = j - m
        BY <1>1, <1>5, <2>2 DEF Once
      <3>. QED
        BY <1>1, <3>1
    <2>3. ASSUME NEW p \in 1 .. m, NEW q \in 1 .. k, s[p] = t[q], s[p] \in U
          PROVE  FALSE
      BY <1>1, <1>5, <2>3 DEF ToSet
    <2>. QED
      BY <1>3, <2>1, <2>2, <2>3
  <1>. QED
    BY <1>1, <1>4, <1>5 DEF u

\* All lists of a sequence joined.
LEMMA FlattenFacts ==
    ASSUME NEW A, NEW lists \in Seq(Seq(A))
    PROVE  /\ FlattenSeq(lists) \in Seq(A)
           /\ ToSet(FlattenSeq(lists)) = UNION {ToSet(lists[i]) : i \in DOMAIN lists}
           /\ \A U : /\ \A i \in DOMAIN lists : Once(lists[i], U)
                     /\ \A i, j \in DOMAIN lists :
                           i # j => ToSet(lists[i]) \cap ToSet(lists[j]) \cap U = {}
                     => Once(FlattenSeq(lists), U)
  <1>. DEFINE m == Len(lists)
              Code(f) == [i \in 1 .. Len(lists) |->
                            IF i = 1 THEN lists[i] ELSE f[i - 1] \o lists[i]]
              joined == CHOOSE f : f = Code(f)
              So(i) == UNION {ToSet(lists[j]) : j \in 1 .. i}
              Upto(k, f) == /\ f \in [1 .. k -> Seq(A)]
                            /\ \A i \in 1 .. k : f[i] = IF i = 1 THEN lists[i]
                                                         ELSE f[i - 1] \o lists[i]
              T == {k \in Nat : k <= m => \E f : Upto(k, f)}
  <1>1. m \in Nat /\ DOMAIN lists = 1 .. m /\ \A i \in 1 .. m : lists[i] \in Seq(A)
    OBVIOUS
  <1>2. CASE m = 0
    <2>1. lists = <<>> /\ DOMAIN lists = {}
      BY <1>1, <1>2
    <2>2. FlattenSeq(lists) = lists
      BY <1>2 DEF FlattenSeq
    <2>3. lists \in Seq(A) /\ ToSet(lists) = {} /\ \A U : Once(lists, U)
      BY <2>1 DEF ToSet, Once
    <2>. QED
      BY <2>1, <2>2, <2>3
  <1>3. CASE m > 0
    <2>1. 0 \in T
      <3>1. Upto(0, [i \in 1 .. 0 |-> <<>>])
        OBVIOUS
      <3>. QED
        BY <3>1
    <2>2. ASSUME NEW k \in Nat, k \in T
          PROVE  k + 1 \in T
      <3>. SUFFICES ASSUME k + 1 <= m
                    PROVE  \E g : Upto(k + 1, g)
        <4>. HIDE DEF Upto, m
        <4>. QED
          OBVIOUS
      <3>0. k <= m
        BY <1>1
      <3>1. PICK f : Upto(k, f)
        <4>. HIDE DEF Upto, m
        <4>. QED
          BY <2>2, <3>0
      <3>. DEFINE last == IF k + 1 = 1 THEN lists[1] ELSE f[k] \o lists[k + 1]
                  g == [i \in 1 .. k + 1 |-> IF i <= k THEN f[i] ELSE last]
      <3>2. last \in Seq(A)
        <4>1. lists[1] \in Seq(A) /\ lists[k + 1] \in Seq(A)
          BY <1>1
        <4>2. k # 0 => f[k] \in Seq(A)
          BY <3>1
        <4>. QED
          BY <4>1, <4>2, JoinedOnce
      <3>3. last = IF k + 1 = 1 THEN lists[k + 1] ELSE f[k] \o lists[k + 1]
        OBVIOUS
      <3>. HIDE DEF last
      <3>4. /\ \A i \in 1 .. k : g[i] = f[i]
            /\ g[k + 1] = last
            /\ \A i \in 1 .. k + 1 : i \in 1 .. k \/ i = k + 1
        OBVIOUS
      <3>5. g \in [1 .. k + 1 -> Seq(A)]
        <4>1. \A i \in 1 .. k + 1 : g[i] \in Seq(A)
          BY <3>1, <3>2, <3>4
        <4>. QED
          BY <4>1
      <3>. HIDE DEF g
      <3>6. \A i \in 1 .. k + 1 : g[i] = IF i = 1 THEN lists[i] ELSE g[i - 1] \o lists[i]
        <4>1. ASSUME NEW i \in 1 .. k
              PROVE  g[i] = IF i = 1 THEN lists[i] ELSE g[i - 1] \o lists[i]
          <5>1. i # 1 => i - 1 \in 1 .. k
            OBVIOUS
          <5>. QED
            BY <3>1, <3>4, <5>1
        <4>2. k # 0 => g[(k + 1) - 1] = f[k]
          <5>1. k # 0 => k \in 1 .. k /\ (k + 1) - 1 = k
            OBVIOUS
          <5>. QED
            BY <3>4, <5>1
        <4>3. k + 1 = 1 <=> k = 0
          OBVIOUS
        <4>. QED
          BY <3>3, <3>4, <4>1, <4>2, <4>3
      <3>. QED
        BY <3>5, <3>6
    <2>3. Nat \subseteq T
      <3>. HIDE DEF T
      <3>. QED
        BY <2>1, <2>2, NatCovered
    <2>4. PICK f : Upto(m, f)
      <3>1. m \in T /\ m <= m
        <4>1. m \in Nat /\ m <= m
          BY <1>1
        <4>. HIDE DEF T, m
        <4>. QED
          BY <2>3, <4>1
      <3>. HIDE DEF Upto, m
      <3>. QED
        BY <3>1
    <2>5. f = Code(f)
      BY <2>4
    <2>6. joined = Code(joined)
      <3>. HIDE DEF Code
      <3>. QED
        BY <2>5
    <2>7. FlattenSeq(lists) = joined[m]
      <3>1. Len(lists) # 0
        BY <1>1, <1>3
      <3>. QED
        BY <3>1 DEF FlattenSeq
    <2>. HIDE DEF joined
    <2>8. \A i \in 1 .. m : joined[i] = IF i = 1 THEN lists[i] ELSE joined[i - 1] \o lists[i]
      <3>. DEFINE h == joined
      <3>1. h = [i \in 1 .. m |-> IF i = 1 THEN lists[i] ELSE h[i - 1] \o lists[i]]
        BY <2>6
      <3>. HIDE DEF h
      <3>2. \A i \in 1 .. m : h[i] = IF i = 1 THEN lists[i] ELSE h[i - 1] \o lists[i]
        BY <3>1
      <3>. QED
        BY <3>2 DEF h
    <2>. DEFINE Apart(U) == /\ \A i \in DOMAIN lists : Once(lists[i], U)
                            /\ \A i, j \in DOMAIN lists :
                                  i # j => ToSet(lists[i]) \cap ToSet(lists[j]) \cap U = {}
                W == {i \in 1 .. m : /\ joined[i] \in Seq(A) /\ ToSet(joined[i]) = So(i)
                                     /\ \A U : Apart(U) => Once(joined[i], U)}
    <2>9. 1 \in W
      <3>1. joined[1] = lists[1] /\ 1 \in 1 .. m
        BY <1>1, <1>3, <2>8
      <3>2. So(1) = ToSet(lists[1])
        <4>1. 1 .. 1 = {1}
          OBVIOUS
        <4>. QED
          BY <4>1
      <3>. QED
        BY <1>1, <3>1, <3>2
    <2>10. ASSUME NEW i \in 1 .. m - 1, i \in W
           PROVE  i + 1 \in W
      <3>1. i + 1 \in 1 .. m /\ i + 1 # 1 /\ (i + 1) - 1 = i /\ i \in 1 .. m
        BY <1>1
      <3>2. joined[i + 1] = joined[i] \o lists[i + 1]
        BY <2>8, <3>1
      <3>3. /\ joined[i] \in Seq(A) /\ ToSet(joined[i]) = So(i)
            /\ \A U : Apart(U) => Once(joined[i], U)
        BY <2>10
      <3>4. So(i + 1) = So(i) \cup ToSet(lists[i + 1])
        <4>1. 1 .. i + 1 = (1 .. i) \cup {i + 1}
          OBVIOUS
        <4>. QED
          BY <4>1
      <3>5. lists[i + 1] \in Seq(A)
        BY <1>1, <3>1
      <3>6. ASSUME NEW U, Apart(U)
            PROVE  Once(joined[i + 1], U)
        <4>1. ToSet(joined[i]) \cap ToSet(lists[i + 1]) \cap U = {}
          <5>1. \A j \in 1 .. i : j \in DOMAIN lists /\ j # i + 1 /\ i + 1 \in DOMAIN lists
            BY <1>1, <3>1
          <5>2. \A j \in 1 .. i : ToSet(lists[j]) \cap ToSet(lists[i + 1]) \cap U = {}
            BY <3>6, <5>1
          <5>. QED
            BY <3>3, <5>2
        <4>2. Once(joined[i], U) /\ Once(lists[i + 1], U)
          BY <1>1, <3>1, <3>3, <3>6
        <4>. DEFINE s == joined[i]
                    t == lists[i + 1]
        <4>3. /\ s \in Seq(A) /\ t \in Seq(A) /\ ToSet(s) \cap ToSet(t) \cap U = {}
              /\ Once(s, U) /\ Once(t, U) /\ joined[i + 1] = s \o t
          BY <3>2, <3>3, <3>5, <4>1, <4>2
        <4>. HIDE DEF s, t
        <4>. QED
          BY <4>3, JoinedOnce
      <3>7. joined[i + 1] \in Seq(A) /\ ToSet(joined[i + 1]) = So(i + 1)
        <4>. DEFINE s == joined[i]
                    t == lists[i + 1]
        <4>1. s \in Seq(A) /\ t \in Seq(A) /\ joined[i + 1] = s \o t
          BY <3>2, <3>3, <3>5
        <4>2. So(i + 1) = ToSet(s) \cup ToSet(t)
          BY <3>3, <3>4
        <4>. HIDE DEF s, t, So
        <4>3. s \o t \in Seq(A) /\ ToSet(s \o t) = ToSet(s) \cup ToSet(t)
          BY <4>1, JoinedOnce
        <4>. QED
          BY <4>1, <4>2, <4>3
      <3>. HIDE DEF So, Apart
      <3>. QED
        BY <3>1, <3>6, <3>7
    <2>11. 1 .. m \subseteq W
      <3>1. m \in Nat
        BY <1>1
      <3>. HIDE DEF W, m
      <3>. QED
        BY <2>9, <2>10, <3>1, StepsCover
    <2>12. m \in W
      <3>1. m \in 1 .. m
        BY <1>1, <1>3
      <3>. HIDE DEF W
      <3>. QED
        BY <2>11, <3>1
    <2>13. So(m) = UNION {ToSet(lists[i]) : i \in DOMAIN lists}
      BY <1>1
    <2>. QED
      BY <2>7, <2>12, <2>13
  <1>. QED
    BY <1>1, <1>2, <1>3

-----------------------------------------------------------------------------
(* The undirected search: numbers, the tree, and what a subtree spans.     *)

\* The node above x in the tree, and the nodes that have a number.
Up(s, x) ==
    LET e == s.parent_edge[x] IN IF From(e) = x THEN To(e) ELSE From(e)

Met(s) == {x \in Nodes : s.number[x] # Unset}
Waiting(s) == ToSet(s.stack)

\* The last number of the subtree of x, which grows while x is on the stack.
Till(s, x) == IF x \in Waiting(s) THEN Len(s.preorder) ELSE s.end[x]

\* y is strictly below x.
Beneath(s, y, x) == s.number[x] < s.number[y] /\ s.number[y] <= Till(s, x)

SearchType ==
    [stack : Seq(Nodes), preorder : Seq(Nodes), number : [Nodes -> 1 .. Unset],
     parent_edge : [Nodes -> 0 .. Len(flow.edges)], end : [Nodes -> 0 .. flow.n]]

\* The preorder and the numbers are inverse to each other.
Numbered(s) ==
    /\ Len(s.preorder) <= flow.n /\ s.number[flow.root] = 1
    /\ \A i \in 1 .. Len(s.preorder) : s.number[s.preorder[i]] = i
    /\ \A x \in Met(s) : s.number[x] <= Len(s.preorder) /\ s.preorder[s.number[x]] = x

\* The stack goes up from the root.
Stacked(s) ==
    /\ \A i \in 1 .. Len(s.stack) : s.stack[i] \in Met(s)
    /\ \A i, j \in 1 .. Len(s.stack) : i < j => s.number[s.stack[i]] < s.number[s.stack[j]]
    /\ s.stack # <<>> => s.stack[1] = flow.root

\* Every node but the root hangs by its edge below the node above it.
Hung(s) ==
    /\ s.parent_edge[flow.root] = 0
    /\ \A x \in Met(s) \ {flow.root} :
          /\ s.parent_edge[x] \in Input
          /\ x \in {From(s.parent_edge[x]), To(s.parent_edge[x])}
          /\ Up(s, x) \in Met(s) /\ Beneath(s, x, Up(s, x))

\* Subtrees are intervals of numbers, nested or apart; what is below a finished
\* node is finished.
Nested(s) ==
    /\ \A x \in Met(s) : s.number[x] <= Till(s, x) /\ Till(s, x) <= Len(s.preorder)
    /\ \A x, y \in Met(s) : Beneath(s, y, x) =>
          /\ Till(s, y) <= Till(s, x)
          /\ Up(s, y) = x \/ Beneath(s, Up(s, y), x)
          /\ y \in Waiting(s) => x \in Waiting(s)

\* The neighbours of a finished node have numbers.
Explored(s) ==
    \A x \in Met(s) \ Waiting(s) : \A e \in Input :
        x \in {From(e), To(e)} => From(e) \in Met(s) /\ To(e) \in Met(s)

SearchOK(s) ==
    s \in SearchType /\ Numbered(s) /\ Stacked(s) /\ Hung(s) /\ Nested(s) /\ Explored(s)

\* The arrays of the bracket pass before it starts.
Blank ==
    [capping |-> <<>>, left |-> 0, next_class |-> 1,
     hi |-> [x \in Nodes |-> Unset], brackets |-> [x \in Nodes |-> <<>>],
     classes |-> [e \in Input |-> 0],
     recent |-> [e \in Input |-> [size |-> 0, class |-> 0]]]

\* The edges outside the tree that join the subtree of x to nodes above x.
Spanning(s, x) ==
    {e \in Input : /\ ~tree(e)
                   /\ \E y, z \in {From(e), To(e)} : /\ y = x \/ Beneath(s, y, x)
                                                     /\ Beneath(s, x, z)}

\* The list holds each of them once, and caps besides.
Exact(list, x) == Once(list, Input) /\ ToSet(list) \cap Input = Spanning(search, x)

\* While nodes are searched for, brackets wait; then all nodes have numbers, and the
\* lists of finished nodes below unfinished ones are exact.
BracketInv ==
    /\ SearchOK(search)
    /\ phase = "search" => jpp = Blank /\ search.stack # <<>>
    /\ phase # "search" =>
         /\ search.stack = <<>> /\ Met(search) = Nodes /\ Len(search.preorder) = flow.n
         /\ jpp.left \in 0 .. flow.n /\ jpp.capping \in Seq([from : Nodes, to : Nodes])
         /\ jpp.hi \in [Nodes -> 1 .. Unset]
         /\ jpp.brackets \in [Nodes -> Seq(1 .. Len(edges))]
    /\ phase = "brackets" =>
         \A x \in Nodes \ {flow.root} :
            search.number[x] > jpp.left /\ search.number[Up(search, x)] <= jpp.left
              => Exact(jpp.brackets[x], x)

\* What a sequence with one more element consists of.
LEMMA AppendedSeq ==
    ASSUME NEW A, NEW s \in Seq(A), NEW x \in A
    PROVE  /\ Append(s, x) \in Seq(A) /\ Len(Append(s, x)) = Len(s) + 1
           /\ Append(s, x)[Len(s) + 1] = x
           /\ \A i \in 1 .. Len(s) : Append(s, x)[i] = s[i]
           /\ \A i \in 1 .. Len(s) + 1 : i \in 1 .. Len(s) \/ i = Len(s) + 1
           /\ ToSet(Append(s, x)) = ToSet(s) \cup {x}
  <1>. DEFINE m == Len(s)
              u == Append(s, x)
  <1>1. /\ m \in Nat /\ DOMAIN s = 1 .. m
        /\ u \in Seq(A) /\ Len(u) = m + 1 /\ DOMAIN u = 1 .. m + 1 /\ u[m + 1] = x
        /\ \A i \in 1 .. m : u[i] = s[i]
    OBVIOUS
  <1>. HIDE DEF m, u
  <1>2. /\ \A i \in 1 .. m + 1 : i \in 1 .. m \/ i = m + 1
        /\ 1 .. m \subseteq 1 .. m + 1 /\ m + 1 \in 1 .. m + 1
    BY <1>1
  <1>3. ToSet(u) = ToSet(s) \cup {x}
    BY <1>1, <1>2 DEF ToSet
  <1>. QED
    BY <1>1, <1>2, <1>3 DEF m, u

\* The types of the parts of a search.
LEMMA SearchTypes ==
    ASSUME Net, NEW s, s \in SearchType
    PROVE  /\ flow.n \in Nat /\ flow.root \in Nodes /\ Nodes \subseteq Nat
           /\ s.stack \in Seq(Nodes) /\ s.preorder \in Seq(Nodes)
           /\ s.number \in [Nodes -> 1 .. Unset] /\ s.end \in [Nodes -> 0 .. flow.n]
           /\ s.parent_edge \in [Nodes -> 0 .. Len(flow.edges)]
           /\ Len(s.preorder) \in Nat /\ Len(s.stack) \in Nat
           /\ Waiting(s) \subseteq Nodes
           /\ \A x \in Nodes : Till(s, x) \in Nat /\ s.number[x] \in Nat
           /\ \A e \in Input : e \in Nat /\ From(e) \in Nodes /\ To(e) \in Nodes
  <1>1. flow.n \in Nat /\ flow.root \in Nodes /\ Nodes \subseteq Nat
    BY DEF Net, Nodes
  <1>2. /\ s.stack \in Seq(Nodes) /\ s.preorder \in Seq(Nodes)
        /\ s.number \in [Nodes -> 1 .. Unset] /\ s.end \in [Nodes -> 0 .. flow.n]
        /\ s.parent_edge \in [Nodes -> 0 .. Len(flow.edges)]
    BY DEF SearchType
  <1>3. Len(s.preorder) \in Nat /\ Len(s.stack) \in Nat /\ Waiting(s) \subseteq Nodes
    BY <1>2 DEF Waiting, ToSet
  <1>4. \A x \in Nodes : Till(s, x) \in Nat /\ s.number[x] \in Nat
    BY <1>1, <1>2, <1>3 DEF Till, Unset
  <1>5. \A e \in Input : e \in Nat /\ From(e) \in Nodes /\ To(e) \in Nodes
    BY DEF Net, Input
  <1>. QED
    BY <1>1, <1>2, <1>3, <1>4, <1>5

\* There is room for the number of a node that has none; and if there is no such
\* node, all numbers are taken.
LEMMA NumbersFit ==
    ASSUME Net, NEW s, s \in SearchType, Numbered(s)
    PROVE  /\ \A y \in Nodes \ Met(s) : Len(s.preorder) < flow.n
           /\ Met(s) = Nodes => Len(s.preorder) = flow.n
           /\ \A i \in 1 .. Len(s.preorder) : s.preorder[i] \in Met(s)
  <1>. DEFINE L == Len(s.preorder)
              n == flow.n
  <1>1. /\ n \in Nat /\ Nodes = 1 .. n /\ L \in Nat /\ s.number \in [Nodes -> 1 .. n + 1]
        /\ s.preorder \in [1 .. L -> Nodes] /\ L <= n
    BY SearchTypes DEF Nodes, Unset, Numbered
  <1>2. \A i \in 1 .. L : s.number[s.preorder[i]] = i
    BY DEF Numbered
  <1>3. \A x \in Met(s) : s.number[x] <= L /\ s.preorder[s.number[x]] = x
    BY DEF Numbered
  <1>4. \A i \in 1 .. L : s.preorder[i] \in Met(s)
    BY <1>1, <1>2 DEF Met, Unset
  <1>5. IsFiniteSet(Nodes) /\ Cardinality(Nodes) = n /\ IsFiniteSet(1 .. L) /\ Cardinality(1 .. L) = L
    <2>1. ASSUME NEW k \in Nat
          PROVE  IsFiniteSet(1 .. k) /\ Cardinality(1 .. k) = k
      <3>1. IsFiniteSet(1 .. k) /\ Cardinality(1 .. k) = IF 1 > k THEN 0 ELSE k - 1 + 1
        BY FS_Interval
      <3>. QED
        BY <3>1
    <2>. QED
      BY <1>1, <2>1
  <1>. HIDE DEF L, n
  <1>6. ASSUME NEW y \in Nodes \ Met(s)
        PROVE  L < n
    <2>. SUFFICES ASSUME ~(L < n)
                  PROVE  FALSE
      OBVIOUS
    <2>1. IsFiniteSet(Nodes \ {y}) /\ Cardinality(Nodes \ {y}) = n - 1
      BY <1>5, FS_RemoveElement
    <2>2. Cardinality(Nodes \ {y}) < Cardinality(1 .. L)
      BY <1>1, <1>5, <2>1
    <2>3. s.preorder \in [1 .. L -> Nodes \ {y}]
      <3>1. \A i \in 1 .. L : s.preorder[i] \in Nodes \ {y}
        BY <1>1, <1>4
      <3>. QED
        BY <1>1, <3>1
    <2>4. PICK i, j \in 1 .. L : i # j /\ s.preorder[i] = s.preorder[j]
      <3>. DEFINE S == 1 .. L
                  R == Nodes \ {y}
                  f == s.preorder
      <3>1. IsFiniteSet(S) /\ IsFiniteSet(R) /\ Cardinality(R) < Cardinality(S) /\ f \in [S -> R]
        BY <1>5, <2>1, <2>2, <2>3
      <3>. HIDE DEF S, R, f
      <3>2. \E i, j \in S : i # j /\ f[i] = f[j]
        BY <3>1, FS_PigeonHole
      <3>. QED
        BY <3>2 DEF S, f
    <2>. QED
      BY <1>2, <2>4
  <1>7. ASSUME Met(s) = Nodes
        PROVE  L = n
    <2>. SUFFICES ASSUME L < n
                  PROVE  FALSE
      BY <1>1
    <2>1. s.number \in [Nodes -> 1 .. L]
      <3>1. ASSUME NEW x \in Nodes
            PROVE  s.number[x] \in 1 .. L
        <4>1. s.number[x] \in 1 .. n + 1
          BY <1>1
        <4>2. s.number[x] <= L
          BY <1>3, <1>7
        <4>3. L \in Nat /\ n \in Nat
          BY <1>1
        <4>. QED
          BY <4>1, <4>2, <4>3
      <3>2. DOMAIN s.number = Nodes /\ s.number = [x \in Nodes |-> s.number[x]]
        BY <1>1
      <3>. QED
        BY <3>1, <3>2
    <2>2. PICK x, y \in Nodes : x # y /\ s.number[x] = s.number[y]
      <3>. DEFINE S == Nodes
                  R == 1 .. L
                  f == s.number
      <3>1. IsFiniteSet(S) /\ IsFiniteSet(R) /\ Cardinality(R) < Cardinality(S) /\ f \in [S -> R]
        BY <1>5, <2>1
      <3>. HIDE DEF S, R, f
      <3>2. \E i, j \in S : i # j /\ f[i] = f[j]
        BY <3>1, FS_PigeonHole
      <3>. QED
        BY <3>2 DEF S, f
    <2>. QED
      BY <1>3, <1>7, <2>2
  <1>. QED
    BY <1>4, <1>6, <1>7 DEF L, n

\* A node that has a number is known by it.
LEMMA NumbersTell ==
    ASSUME NEW s, Numbered(s), NEW x \in Met(s), NEW y \in Met(s), s.number[x] = s.number[y]
    PROVE  x = y
  BY DEF Numbered

\* The nodes that have a number, and what their subtrees span.
LEMMA MetFacts ==
    ASSUME Net, NEW s, SearchOK(s)
    PROVE  /\ Len(s.preorder) \in Nat /\ Waiting(s) \subseteq Met(s)
           /\ flow.root \in Met(s) /\ s.number[flow.root] = 1
           /\ \A x \in Met(s) :
                /\ x \in Nodes /\ s.number[x] \in Nat /\ 1 <= s.number[x]
                /\ s.number[x] <= Len(s.preorder) /\ s.preorder[s.number[x]] = x
                /\ Till(s, x) \in Nat /\ s.number[x] <= Till(s, x) /\ Till(s, x) <= Len(s.preorder)
           /\ \A x, y \in Met(s) : Beneath(s, y, x) => y # flow.root /\ Up(s, y) \in Met(s)
  <1>1. s \in SearchType /\ Numbered(s) /\ Stacked(s) /\ Hung(s) /\ Nested(s)
    BY DEF SearchOK
  <1>2. /\ flow.n \in Nat /\ flow.root \in Nodes /\ Len(s.preorder) \in Nat
        /\ s.stack \in Seq(Nodes) /\ s.number \in [Nodes -> 1 .. Unset]
        /\ \A x \in Nodes : Till(s, x) \in Nat
    BY <1>1, SearchTypes
  <1>3. Waiting(s) \subseteq Met(s)
    <2>1. DOMAIN s.stack = 1 .. Len(s.stack)
      BY <1>2
    <2>. QED
      BY <1>1, <2>1 DEF Stacked, Waiting, ToSet
  <1>4. flow.root \in Met(s) /\ s.number[flow.root] = 1
    <2>1. flow.n # 0
      BY DEF Net
    <2>2. Unset # 1
      BY <1>2, <2>1 DEF Unset
    <2>. QED
      BY <1>1, <1>2, <2>2 DEF Met, Numbered
  <1>5. ASSUME NEW x \in Met(s)
        PROVE  /\ x \in Nodes /\ s.number[x] \in Nat /\ 1 <= s.number[x]
               /\ s.number[x] <= Len(s.preorder) /\ s.preorder[s.number[x]] = x
               /\ Till(s, x) \in Nat /\ s.number[x] <= Till(s, x) /\ Till(s, x) <= Len(s.preorder)
    <2>1. x \in Nodes
      BY DEF Met
    <2>2. s.number[x] \in 1 .. Unset
      BY <1>2, <2>1
    <2>3. Unset \in Nat
      BY <1>2 DEF Unset
    <2>. QED
      BY <1>1, <1>2, <2>1, <2>2, <2>3 DEF Numbered, Nested
  <1>6. ASSUME NEW x \in Met(s), NEW y \in Met(s), Beneath(s, y, x)
        PROVE  y # flow.root /\ Up(s, y) \in Met(s)
    <2>1. s.number[y] # 1
      BY <1>5, <1>6 DEF Beneath
    <2>. QED
      BY <1>1, <1>4, <2>1 DEF Hung
  <1>. QED
    BY <1>2, <1>3, <1>4, <1>5, <1>6

\* Going down to a node without a number keeps the shape of the search.
LEMMA EnterOK ==
    ASSUME Net, NEW s, SearchOK(s), s.stack # <<>>, NEW y \in Nodes \ Met(s), NEW e \in Input,
           \/ From(e) = y /\ To(e) = Last(s.stack)
           \/ From(e) = Last(s.stack) /\ To(e) = y
    PROVE  SearchOK(Enter(s, y, e))
  <1>. DEFINE L == Len(s.preorder)
              top == Last(s.stack)
              t == Enter(s, y, e)
              N == s.number
              M == t.number
              m == Len(s.stack)
  <1>1. s \in SearchType /\ Numbered(s) /\ Stacked(s) /\ Hung(s) /\ Nested(s) /\ Explored(s)
    BY DEF SearchOK
  <1>2. /\ flow.root \in Nodes /\ Nodes \subseteq Nat
        /\ s.stack \in Seq(Nodes) /\ s.preorder \in Seq(Nodes)
        /\ N \in [Nodes -> 1 .. Unset] /\ s.end \in [Nodes -> 0 .. flow.n]
        /\ s.parent_edge \in [Nodes -> 0 .. Len(flow.edges)]
    BY <1>1, SearchTypes
  <1>3. /\ L < flow.n /\ L \in Nat /\ m \in Nat /\ flow.n \in Nat /\ Unset = flow.n + 1
        /\ \A i \in 1 .. L : s.preorder[i] \in Met(s)
    BY <1>1, NumbersFit, SearchTypes DEF Unset
  <1>4. /\ t.stack = Append(s.stack, y) /\ t.preorder = Append(s.preorder, y)
        /\ M = [N EXCEPT ![y] = L + 1] /\ t.end = s.end
        /\ t.parent_edge = [s.parent_edge EXCEPT ![y] = e]
        /\ t \in SearchType
    <2>1. e \in 0 .. Len(flow.edges)
      BY DEF Net, Input
    <2>2. L + 1 \in 1 .. Unset
      BY <1>3
    <2>3. Append(s.stack, y) \in Seq(Nodes) /\ Append(s.preorder, y) \in Seq(Nodes)
      BY <1>2
    <2>4. [s.number EXCEPT ![y] = L + 1] \in [Nodes -> 1 .. Unset]
      BY <1>2, <2>2
    <2>5. [s.parent_edge EXCEPT ![y] = e] \in [Nodes -> 0 .. Len(flow.edges)]
      BY <1>2, <2>1
    <2>. QED
      BY <1>1, <2>3, <2>4, <2>5 DEF SearchType, Enter
  <1>. HIDE DEF t
  <1>5. top \in Waiting(s) /\ m >= 1 /\ top = s.stack[m]
    <2>1. m >= 1 /\ top = s.stack[m] /\ DOMAIN s.stack = 1 .. m
      BY <1>2 DEF Last
    <2>. QED
      BY <1>3, <2>1 DEF Waiting, ToSet
  <1>. HIDE DEF top
  <1>6. /\ Waiting(s) \subseteq Met(s) /\ flow.root \in Met(s) /\ N[flow.root] = 1
        /\ \A x \in Met(s) :
             /\ x \in Nodes /\ x # y /\ N[x] \in Nat /\ 1 <= N[x] /\ N[x] <= L
             /\ s.preorder[N[x]] = x
             /\ Till(s, x) \in Nat /\ N[x] <= Till(s, x) /\ Till(s, x) <= L
    BY MetFacts
  <1>7. Met(t) = Met(s) \cup {y} /\ M[y] = L + 1 /\ \A x \in Met(s) : M[x] = N[x]
    <2>1. L + 1 # Unset
      BY <1>3
    <2>2. M[y] = L + 1 /\ \A x \in Nodes \ {y} : M[x] = N[x]
      BY <1>2, <1>4
    <2>. QED
      BY <1>6, <2>1, <2>2 DEF Met
  <1>8. /\ Len(t.preorder) = L + 1 /\ t.preorder[L + 1] = y
        /\ \A i \in 1 .. L : t.preorder[i] = s.preorder[i]
        /\ \A i \in 1 .. L + 1 : i \in 1 .. L \/ i = L + 1
    BY <1>2, <1>4, AppendedSeq
  <1>9. /\ Waiting(t) = Waiting(s) \cup {y}
        /\ Len(t.stack) = m + 1 /\ t.stack[m + 1] = y
        /\ \A i \in 1 .. m : t.stack[i] = s.stack[i]
        /\ \A i \in 1 .. m + 1 : i \in 1 .. m \/ i = m + 1
    BY <1>2, <1>4, AppendedSeq DEF Waiting
  <1>. HIDE DEF m, L, N, M
  <1>10. /\ Till(t, y) = L + 1
         /\ \A x \in Waiting(s) : Till(t, x) = L + 1
         /\ \A x \in Met(s) \ Waiting(s) : Till(t, x) = Till(s, x)
    BY <1>4, <1>6, <1>8, <1>9 DEF Till
  <1>11. \A x \in Waiting(s) : Till(s, x) = L
    BY DEF Till, L
  <1>12. Numbered(t)
    <2>1. ASSUME NEW i \in 1 .. L + 1
          PROVE  M[t.preorder[i]] = i
      <3>1. CASE i \in 1 .. L
        <4>1. N[s.preorder[i]] = i
          BY <1>1, <3>1 DEF Numbered, N, L
        <4>. QED
          BY <1>3, <1>7, <1>8, <3>1, <4>1
      <3>. QED
        BY <1>7, <1>8, <3>1
    <2>2. ASSUME NEW x \in Met(t)
          PROVE  M[x] <= L + 1 /\ t.preorder[M[x]] = x
      <3>1. CASE x \in Met(s)
        <4>1. N[x] <= L /\ s.preorder[N[x]] = x /\ N[x] \in 1 .. L
          BY <1>3, <1>6, <3>1
        <4>2. t.preorder[N[x]] = x
          BY <1>8, <4>1
        <4>3. N[x] <= L + 1
          BY <1>3, <4>1
        <4>. QED
          BY <1>7, <3>1, <4>2, <4>3
      <3>2. CASE x = y
        <4>1. L + 1 <= L + 1
          BY <1>3
        <4>. QED
          BY <1>7, <1>8, <3>2, <4>1
      <3>. QED
        BY <1>7, <3>1, <3>2
    <2>3. M[flow.root] = 1
      BY <1>6, <1>7
    <2>4. L + 1 <= flow.n
      BY <1>3
    <2>. QED
      BY <1>8, <2>1, <2>2, <2>3, <2>4 DEF Numbered, M
  <1>13. Stacked(t)
    <2>1. /\ \A i \in 1 .. m : s.stack[i] \in Met(s) /\ s.stack[1] = flow.root
          /\ \A i, j \in 1 .. m : i < j => N[s.stack[i]] < N[s.stack[j]]
      BY <1>1 DEF Stacked, N, m
    <2>2. \A i \in 1 .. m + 1 : t.stack[i] \in Met(t)
      BY <1>7, <1>9, <2>1
    <2>3. ASSUME NEW i \in 1 .. m + 1, NEW j \in 1 .. m + 1, i < j
          PROVE  M[t.stack[i]] < M[t.stack[j]]
      <3>1. i \in 1 .. m
        BY <1>3, <2>3
      <3>2. CASE j \in 1 .. m
        BY <1>7, <1>9, <2>1, <2>3, <3>1, <3>2
      <3>3. CASE j = m + 1
        <4>1. M[t.stack[j]] = L + 1
          BY <1>7, <1>9, <3>3
        <4>2. M[t.stack[i]] = N[s.stack[i]] /\ s.stack[i] \in Met(s)
          BY <1>7, <1>9, <2>1, <3>1
        <4>3. N[s.stack[i]] \in Nat /\ N[s.stack[i]] <= L
          BY <1>6, <4>2
        <4>. QED
          BY <1>3, <4>1, <4>2, <4>3
      <3>. QED
        BY <1>9, <3>2, <3>3
    <2>4. t.stack[1] = flow.root
      <3>1. 1 \in 1 .. m
        BY <1>3, <1>5
      <3>. QED
        BY <1>9, <2>1, <3>1
    <2>. QED
      BY <1>9, <2>2, <2>3, <2>4 DEF Stacked, M
  <1>14. Up(t, y) = top /\ \A x \in Met(s) : Up(t, x) = Up(s, x)
    <2>1. t.parent_edge[y] = e /\ \A x \in Met(s) : t.parent_edge[x] = s.parent_edge[x]
      BY <1>2, <1>4, <1>6
    <2>2. top # y
      BY <1>5, <1>6
    <2>. QED
      BY <2>1, <2>2 DEF Up, top
  <1>15. \A x, z \in Met(s) : Beneath(s, z, x) <=> N[x] < N[z] /\ N[z] <= Till(s, x)
    BY DEF Beneath, N
  <1>16. \A x, z \in Met(t) : Beneath(t, z, x) <=> M[x] < M[z] /\ M[z] <= Till(t, x)
    BY DEF Beneath, M
  <1>17. ASSUME NEW x \in Met(s), NEW z \in Met(s)
         PROVE  Beneath(t, z, x) <=> Beneath(s, z, x)
    <2>1. M[x] = N[x] /\ M[z] = N[z] /\ N[z] \in Nat /\ N[z] <= L /\ x \in Met(t) /\ z \in Met(t)
      BY <1>6, <1>7
    <2>2. CASE x \in Waiting(s)
      <3>1. Till(s, x) = L /\ Till(t, x) = L + 1 /\ N[z] <= L + 1
        BY <1>3, <1>10, <1>11, <2>1, <2>2
      <3>. QED
        BY <1>15, <1>16, <2>1, <3>1
    <2>3. CASE x \notin Waiting(s)
      BY <1>10, <1>15, <1>16, <2>1, <2>3
    <2>. QED
      BY <2>2, <2>3
  <1>18. \A x \in Met(t) : ~Beneath(t, x, y)
    <2>1. \A x \in Met(t) : M[x] \in Nat /\ M[x] <= L + 1
      BY <1>3, <1>6, <1>7
    <2>. QED
      BY <1>3, <1>7, <1>16, <2>1
  <1>19. ASSUME NEW x \in Met(s)
         PROVE  Beneath(t, y, x) <=> x \in Waiting(s)
    <2>1. M[x] = N[x] /\ N[x] \in Nat /\ N[x] <= L /\ x \in Met(t) /\ y \in Met(t) /\ M[y] = L + 1
          /\ Till(s, x) \in Nat /\ Till(s, x) <= L
      BY <1>6, <1>7
    <2>2. CASE x \in Waiting(s)
      <3>1. Till(t, x) = L + 1
        BY <1>10, <2>2
      <3>. QED
        BY <1>3, <1>16, <2>1, <2>2, <3>1
    <2>3. CASE x \notin Waiting(s)
      <3>1. Till(t, x) = Till(s, x)
        BY <1>10, <2>3
      <3>2. ~(L + 1 <= Till(s, x))
        BY <1>3, <2>1
      <3>. QED
        BY <1>16, <2>1, <2>3, <3>1, <3>2
    <2>. QED
      BY <2>2, <2>3
  <1>20. Hung(t)
    <2>1. t.parent_edge[flow.root] = 0
      <3>1. t.parent_edge[flow.root] = s.parent_edge[flow.root]
        BY <1>2, <1>4, <1>6
      <3>. QED
        BY <1>1, <3>1 DEF Hung
    <2>2. ASSUME NEW x \in Met(t) \ {flow.root}
          PROVE  /\ t.parent_edge[x] \in Input
                 /\ x \in {From(t.parent_edge[x]), To(t.parent_edge[x])}
                 /\ Up(t, x) \in Met(t) /\ Beneath(t, x, Up(t, x))
      <3>1. CASE x \in Met(s)
        <4>1. t.parent_edge[x] = s.parent_edge[x]
          BY <1>2, <1>4, <1>6, <3>1
        <4>2. /\ s.parent_edge[x] \in Input
              /\ x \in {From(s.parent_edge[x]), To(s.parent_edge[x])}
              /\ Up(s, x) \in Met(s) /\ Beneath(s, x, Up(s, x))
          BY <1>1, <2>2, <3>1 DEF Hung
        <4>. QED
          BY <1>7, <1>14, <1>17, <3>1, <4>1, <4>2
      <3>2. CASE x = y
        <4>1. t.parent_edge[y] = e
          BY <1>2, <1>4
        <4>. QED
          BY <1>5, <1>6, <1>7, <1>14, <1>19, <3>2, <4>1 DEF top
      <3>. QED
        BY <1>7, <3>1, <3>2
    <2>. QED
      BY <2>1, <2>2 DEF Hung
  <1>21. Nested(t)
    <2>1. ASSUME NEW x \in Met(t)
          PROVE  M[x] <= Till(t, x) /\ Till(t, x) <= L + 1
      <3>1. CASE x \in Met(s) \ Waiting(s)
        <4>1. M[x] = N[x] /\ Till(t, x) = Till(s, x)
          BY <1>7, <1>10, <3>1
        <4>2. N[x] <= Till(s, x) /\ Till(s, x) <= L /\ Till(s, x) \in Nat
          BY <1>6, <3>1
        <4>. QED
          BY <1>3, <4>1, <4>2
      <3>2. CASE x \in Waiting(s)
        <4>1. M[x] = N[x] /\ Till(t, x) = L + 1 /\ N[x] \in Nat /\ N[x] <= L
          BY <1>6, <1>7, <1>10, <3>2
        <4>. QED
          BY <1>3, <4>1
      <3>3. CASE x = y
        BY <1>3, <1>7, <1>10, <3>3
      <3>. QED
        BY <1>7, <3>1, <3>2, <3>3
    <2>2. ASSUME NEW x \in Met(t), NEW z \in Met(t), Beneath(t, z, x)
          PROVE  /\ Till(t, z) <= Till(t, x)
                 /\ Up(t, z) = x \/ Beneath(t, Up(t, z), x)
                 /\ z \in Waiting(t) => x \in Waiting(t)
      <3>1. x \in Met(s)
        BY <1>7, <1>18, <2>2
      <3>2. CASE z \in Met(s)
        <4>1. Beneath(s, z, x)
          BY <1>17, <2>2, <3>1, <3>2
        <4>2. /\ Till(s, z) <= Till(s, x)
              /\ Up(s, z) = x \/ Beneath(s, Up(s, z), x)
              /\ z \in Waiting(s) => x \in Waiting(s)
          BY <1>1, <3>1, <3>2, <4>1 DEF Nested
        <4>3. Till(t, z) <= Till(t, x)
          <5>1. CASE x \in Waiting(s)
            BY <1>10, <2>1, <5>1
          <5>2. CASE x \notin Waiting(s)
            BY <1>10, <3>1, <3>2, <4>2, <5>2
          <5>. QED
            BY <5>1, <5>2
        <4>4. Up(s, z) \in Met(s)
          BY <3>1, <3>2, <4>1, MetFacts
        <4>5. Up(t, z) = x \/ Beneath(t, Up(t, z), x)
          BY <1>14, <1>17, <3>1, <3>2, <4>2, <4>4
        <4>6. z # y
          BY <3>2
        <4>. QED
          BY <1>9, <4>2, <4>3, <4>5, <4>6
      <3>3. CASE z = y
        <4>1. x \in Waiting(s)
          BY <1>19, <2>2, <3>1, <3>3
        <4>2. Till(t, z) = L + 1 /\ Till(t, x) = L + 1 /\ L + 1 <= L + 1
          BY <1>3, <1>10, <3>3, <4>1
        <4>3. top = x \/ Beneath(t, top, x)
          <5>1. PICK i \in 1 .. m : s.stack[i] = x
            <6>1. DOMAIN s.stack = 1 .. m
              BY <1>2 DEF m
            <6>. QED
              BY <4>1, <6>1 DEF Waiting, ToSet
          <5>2. i = m \/ N[x] < N[top]
            <6>1. m \in 1 .. m /\ (i = m \/ i < m)
              BY <1>3, <1>5
            <6>. QED
              BY <1>1, <1>5, <5>1, <6>1 DEF Stacked, N, m
          <5>3. N[x] < N[top] => Beneath(t, top, x)
            <6>1. top \in Met(s) /\ x \in Met(t) /\ top \in Met(t)
              BY <1>5, <1>6, <1>7, <3>1
            <6>2. N[top] \in Nat /\ N[top] <= L /\ M[top] = N[top] /\ M[x] = N[x]
              BY <1>6, <1>7, <3>1, <6>1
            <6>. QED
              BY <1>3, <1>16, <4>2, <6>1, <6>2
          <5>. QED
            BY <1>5, <5>1, <5>2, <5>3
        <4>. QED
          BY <1>9, <1>14, <3>3, <4>1, <4>2, <4>3
      <3>. QED
        BY <1>7, <3>2, <3>3
    <2>. QED
      BY <1>8, <2>1, <2>2 DEF Nested, M
  <1>22. Explored(t)
    BY <1>1, <1>7, <1>9 DEF Explored
  <1>23. SearchOK(t)
    BY <1>4, <1>12, <1>13, <1>20, <1>21, <1>22 DEF SearchOK
  <1>. QED
    BY <1>23 DEF t

\* The search after it has finished the last node of the stack.
Left(s) == [s EXCEPT !.stack = Front(@), !.end[Last(s.stack)] = Len(s.preorder)]

\* Finishing a node whose neighbours have numbers keeps the shape of the search, and
\* empties the stack when the node is the root.
LEMMA LeaveOK ==
    ASSUME Net, NEW s, SearchOK(s), s.stack # <<>>,
           \A e \in Input : Last(s.stack) \in {From(e), To(e)} => From(e) \in Met(s) /\ To(e) \in Met(s)
    PROVE  /\ SearchOK(Left(s)) /\ Met(Left(s)) = Met(s) /\ Left(s).preorder = s.preorder
           /\ Left(s).stack = <<>> <=> Last(s.stack) = flow.root
  <1>. DEFINE L == Len(s.preorder)
              top == Last(s.stack)
              t == Left(s)
              m == Len(s.stack)
  <1>1. s \in SearchType /\ Numbered(s) /\ Stacked(s) /\ Hung(s) /\ Nested(s) /\ Explored(s)
    BY DEF SearchOK
  <1>2. /\ s.stack \in Seq(Nodes) /\ s.end \in [Nodes -> 0 .. flow.n] /\ L \in Nat /\ m \in Nat
        /\ flow.n \in Nat /\ L <= flow.n
    BY <1>1, SearchTypes DEF Numbered
  <1>3. m >= 1 /\ top = s.stack[m] /\ DOMAIN s.stack = 1 .. m /\ m \in 1 .. m
    BY <1>2 DEF Last
  <1>4. /\ Front(s.stack) \in Seq(Nodes) /\ Len(Front(s.stack)) = m - 1
        /\ DOMAIN Front(s.stack) = 1 .. m - 1
        /\ \A i \in 1 .. m - 1 : Front(s.stack)[i] = s.stack[i] /\ i \in 1 .. m
    BY <1>2, <1>3 DEF Front
  <1>5. top \in Met(s) /\ top \in Nodes /\ top \in Waiting(s)
    BY <1>1, <1>3 DEF Stacked, Met, Waiting, ToSet
  <1>6. /\ t \in SearchType /\ t.stack = Front(s.stack) /\ t.preorder = s.preorder
        /\ t.number = s.number /\ t.parent_edge = s.parent_edge
        /\ t.end = [s.end EXCEPT ![top] = L]
    <2>1. [s.end EXCEPT ![top] = L] \in [Nodes -> 0 .. flow.n]
      BY <1>2, <1>5
    <2>. QED
      BY <1>1, <1>4, <2>1 DEF SearchType, Left
  <1>. HIDE DEF t, top, m
  <1>7. Met(t) = Met(s) /\ \A x : Up(t, x) = Up(s, x)
    BY <1>6 DEF Met, Up
  <1>8. Waiting(t) = Waiting(s) \ {top}
    <2>1. ASSUME NEW i \in 1 .. m - 1
          PROVE  s.stack[i] # top
      <3>1. i \in 1 .. m /\ i < m
        BY <1>2, <1>4
      <3>2. s.number[s.stack[i]] < s.number[top]
        BY <1>1, <1>3, <3>1 DEF Stacked, m
      <3>3. s.number[top] \in Nat
        BY <1>5, MetFacts
      <3>. QED
        BY <3>2, <3>3
    <2>2. \A i \in 1 .. m : i \in 1 .. m - 1 \/ i = m
      BY <1>2
    <2>3. Waiting(s) = {s.stack[i] : i \in 1 .. m}
      BY <1>3 DEF Waiting, ToSet
    <2>4. Waiting(t) = {s.stack[i] : i \in 1 .. m - 1}
      BY <1>4, <1>6 DEF Waiting, ToSet
    <2>5. ASSUME NEW x \in Waiting(t)
          PROVE  x \in Waiting(s) \ {top}
      BY <1>4, <2>1, <2>3, <2>4
    <2>6. ASSUME NEW x \in Waiting(s) \ {top}
          PROVE  x \in Waiting(t)
      <3>1. PICK i \in 1 .. m : x = s.stack[i]
        BY <2>3
      <3>2. i \in 1 .. m - 1
        BY <1>3, <2>2, <3>1
      <3>. QED
        BY <2>4, <3>1, <3>2
    <2>. QED
      BY <2>5, <2>6
  <1>9. \A x \in Met(s) : Till(t, x) = Till(s, x)
    <2>1. t.end[top] = L /\ \A x \in Nodes \ {top} : t.end[x] = s.end[x]
      BY <1>2, <1>5, <1>6
    <2>2. Met(s) \subseteq Nodes
      BY DEF Met
    <2>. QED
      BY <1>5, <1>6, <1>8, <2>1, <2>2 DEF Till
  <1>10. \A x \in Met(s) : \A y : Beneath(t, y, x) <=> Beneath(s, y, x)
    BY <1>6, <1>9 DEF Beneath
  <1>11. Numbered(t)
    BY <1>1, <1>6, <1>7 DEF Numbered
  <1>12. Stacked(t)
    <2>1. \A i \in 1 .. m - 1 : t.stack[i] = s.stack[i] /\ i \in 1 .. m
      BY <1>4, <1>6
    <2>2. Len(t.stack) = m - 1
      BY <1>4, <1>6
    <2>3. t.stack # <<>> => 1 \in 1 .. m - 1
      BY <1>2, <1>4, <1>6
    <2>4. /\ \A i \in 1 .. m : s.stack[i] \in Met(s)
          /\ \A i, j \in 1 .. m : i < j => s.number[s.stack[i]] < s.number[s.stack[j]]
          /\ s.stack[1] = flow.root
      BY <1>1 DEF Stacked, m
    <2>5. \A i \in 1 .. m - 1 : t.stack[i] \in Met(t)
      BY <1>7, <2>1, <2>4
    <2>6. \A i, j \in 1 .. m - 1 : i < j => t.number[t.stack[i]] < t.number[t.stack[j]]
      BY <1>6, <2>1, <2>4
    <2>7. t.stack # <<>> => t.stack[1] = flow.root
      BY <2>1, <2>3, <2>4
    <2>. QED
      BY <2>2, <2>5, <2>6, <2>7 DEF Stacked
  <1>13. Hung(t)
    <2>1. \A x \in Met(s) \ {flow.root} : Up(s, x) \in Met(s)
      BY <1>1 DEF Hung
    <2>. QED
      BY <1>1, <1>6, <1>7, <1>10, <2>1 DEF Hung
  <1>14. Nested(t)
    <2>1. \A x \in Met(t) : t.number[x] <= Till(t, x) /\ Till(t, x) <= Len(t.preorder)
      BY <1>1, <1>6, <1>7, <1>9 DEF Nested
    <2>2. ASSUME NEW x \in Met(t), NEW y \in Met(t), Beneath(t, y, x)
          PROVE  /\ Till(t, y) <= Till(t, x)
                 /\ Up(t, y) = x \/ Beneath(t, Up(t, y), x)
                 /\ y \in Waiting(t) => x \in Waiting(t)
      <3>1. Beneath(s, y, x) /\ x \in Met(s) /\ y \in Met(s)
        BY <1>7, <1>10, <2>2
      <3>2. /\ Till(s, y) <= Till(s, x)
            /\ Up(s, y) = x \/ Beneath(s, Up(s, y), x)
            /\ y \in Waiting(s) => x \in Waiting(s)
        BY <1>1, <3>1 DEF Nested
      <3>3. ASSUME y \in Waiting(s)
            PROVE  x # top
        <4>1. PICK i \in 1 .. m : y = s.stack[i]
          BY <1>3, <3>3 DEF Waiting, ToSet
        <4>2. i = m \/ s.number[y] < s.number[top]
          <5>1. i = m \/ i < m
            BY <1>2
          <5>. QED
            BY <1>1, <1>3, <4>1, <5>1 DEF Stacked, m
        <4>3. s.number[y] \in Nat /\ s.number[top] \in Nat
          BY <1>5, <3>1, MetFacts
        <4>4. ~(s.number[top] < s.number[y])
          BY <1>3, <4>1, <4>2, <4>3
        <4>. QED
          BY <3>1, <4>4 DEF Beneath
      <3>. QED
        BY <1>7, <1>8, <1>9, <1>10, <3>1, <3>2, <3>3
    <2>. QED
      BY <2>1, <2>2 DEF Nested
  <1>15. Explored(t)
    BY <1>1, <1>7, <1>8 DEF Explored, top
  <1>16. t.stack = <<>> <=> top = flow.root
    <2>1. s.stack[1] = flow.root /\ 1 \in 1 .. m
      BY <1>1, <1>2, <1>3 DEF Stacked
    <2>2. CASE m = 1
      <3>1. t.stack = <<>>
        BY <1>4, <1>6, <2>2
      <3>. QED
        BY <1>3, <2>1, <2>2, <3>1
    <2>3. CASE m # 1
      <3>1. t.stack # <<>>
        BY <1>2, <1>3, <1>4, <1>6, <2>3
      <3>2. 1 < m
        BY <1>2, <1>3, <2>3
      <3>3. s.number[flow.root] < s.number[top]
        BY <1>1, <1>3, <2>1, <3>2 DEF Stacked, m
      <3>4. s.number[top] \in Nat
        BY <1>5, MetFacts
      <3>. QED
        BY <3>1, <3>3, <3>4
    <2>. QED
      BY <2>2, <2>3
  <1>17. SearchOK(t)
    BY <1>6, <1>11, <1>12, <1>13, <1>14, <1>15 DEF SearchOK
  <1>. QED
    BY <1>6, <1>7, <1>16, <1>17 DEF t, top

\* A sequence over a set is one over each larger set.
LEMMA WiderSeq ==
    ASSUME NEW A, NEW B, A \subseteq B, NEW s \in Seq(A)
    PROVE  s \in Seq(B)
  <1>1. Len(s) \in Nat /\ s \in [1 .. Len(s) -> A]
    OBVIOUS
  <1>2. s \in [1 .. Len(s) -> B]
    BY <1>1
  <1>. QED
    BY <1>1, <1>2

\* Caps come after the edges of the input.
LEMMA EdgesAre ==
    ASSUME Net, IdsKnown, jpp.capping \in Seq([from : Nodes, to : Nodes])
    PROVE  /\ Len(jpp.capping) \in Nat /\ Len(edges) = Len(flow.edges) + Len(jpp.capping)
           /\ \A e \in Input : e \in 1 .. Len(edges) /\ edges[e] = flow.edges[e]
           /\ \A e \in 1 .. Len(edges) : edges[e].from \in Nodes /\ edges[e].to \in Nodes
           /\ \A e \in Input : \A x : Other(e, x) = IF From(e) = x THEN To(e) ELSE From(e)
           /\ Input \cap Capping = {} /\ IsFiniteSet(1 .. Len(edges))
           /\ \A x \in Nodes : \A e \in incident(x) : e \in 1 .. Len(edges) /\ Other(e, x) \in Nodes
           /\ \A x : \A e \in Input : e \in incident(x) <=> x \in {From(e), To(e)}
  <1>. DEFINE P == [from : Nodes, to : Nodes]
              A == ToSet(flow.edges) \cup P
              s == flow.edges
              t == jpp.capping
              m == Len(s)
              k == Len(t)
              u == s \o t
  <1>1. s \in Seq(A) /\ t \in Seq(A)
    <2>. DEFINE B == ToSet(flow.edges)
    <2>1. s \in Seq(B) /\ t \in Seq(P)
      BY DEF IdsKnown
    <2>2. B \subseteq A /\ P \subseteq A
      OBVIOUS
    <2>. HIDE DEF B, P, A
    <2>. QED
      BY <2>1, <2>2, WiderSeq
  <1>2. /\ m \in Nat /\ k \in Nat /\ Input = 1 .. m /\ \A i \in 1 .. k : t[i] \in P
    <2>1. t \in Seq(P)
      OBVIOUS
    <2>2. k \in Nat /\ \A i \in 1 .. k : t[i] \in P
      <3>. HIDE DEF P
      <3>. QED
        BY <2>1
    <2>. QED
      BY <2>2 DEF Net, Input
  <1>3. /\ Len(u) = m + k
        /\ \A i \in 1 .. m : u[i] = s[i]
        /\ \A i \in 1 .. k : u[m + i] = t[i]
    <2>. HIDE DEF A, s, t
    <2>. QED
      BY <1>1, JoinedSeq
  <1>4. edges = u
    BY DEF edges
  <1>. HIDE DEF m, k, u, A
  <1>5. \A e \in Input : e \in 1 .. Len(edges) /\ edges[e] = flow.edges[e]
    BY <1>2, <1>3, <1>4
  <1>6. ASSUME NEW e \in 1 .. Len(edges)
        PROVE  edges[e].from \in Nodes /\ edges[e].to \in Nodes
    <2>1. CASE e \in 1 .. m
      <3>1. edges[e] = flow.edges[e]
        BY <1>2, <1>5, <2>1
      <3>2. From(e) \in Nodes /\ To(e) \in Nodes
        BY <1>2, <2>1 DEF Net
      <3>. QED
        BY <3>1, <3>2 DEF From, To
    <2>2. CASE e > m
      <3>1. e - m \in 1 .. k /\ m + (e - m) = e
        BY <1>2, <1>3, <1>4, <2>2
      <3>2. edges[e] = t[e - m]
        BY <1>3, <1>4, <3>1
      <3>3. t[e - m] \in P
        BY <1>2, <3>1
      <3>. QED
        BY <3>2, <3>3
    <2>. QED
      BY <1>2, <1>3, <1>4, <2>1, <2>2
  <1>7. \A e \in Input : \A x : Other(e, x) = IF From(e) = x THEN To(e) ELSE From(e)
    BY <1>5 DEF Other, From, To
  <1>8. Input \cap Capping = {} /\ IsFiniteSet(1 .. Len(edges))
    <2>1. IsFiniteSet(1 .. m + k)
      <3>1. m + k \in Int
        BY <1>2
      <3>. QED
        BY <3>1, FS_Interval
    <2>2. \A e \in 1 .. m : e \notin m + 1 .. m + k
      BY <1>2
    <2>3. Capping = m + 1 .. m + k
      BY <1>3, <1>4 DEF Capping, m
    <2>. QED
      BY <1>2, <1>3, <1>4, <2>1, <2>2, <2>3
  <1>9. \A x : \A e \in Input : e \in incident(x) <=> x \in {From(e), To(e)}
    BY <1>5 DEF incident, From, To
  <1>10. \A x \in Nodes : \A e \in incident(x) : e \in 1 .. Len(edges) /\ Other(e, x) \in Nodes
    BY <1>6 DEF incident, Other
  <1>. QED
    BY <1>2, <1>3, <1>4, <1>5, <1>6, <1>7, <1>8, <1>9, <1>10 DEF m, k

\* While the search runs there are no caps.
LEMMA NoCaps ==
    ASSUME Net, IdsKnown, jpp = Blank
    PROVE  /\ jpp.capping = <<>> /\ jpp.capping \in Seq([from : Nodes, to : Nodes])
           /\ jpp.left = 0 /\ \A x \in Nodes : \A e \in incident(x) : e \in Input
           /\ 1 .. Len(edges) = Input
  <1>1. jpp.capping = <<>> /\ jpp.left = 0 /\ Len(<<>>) = 0 /\ <<>> \in Seq([from : Nodes, to : Nodes])
    BY DEF Blank
  <1>2. Len(edges) = Len(flow.edges)
    <2>1. Len(edges) = Len(flow.edges) + 0
      BY <1>1, EdgesAre
    <2>. QED
      BY <2>1 DEF Net
  <1>. QED
    BY <1>1, <1>2 DEF incident, Input

\* The shape of the search depends on the flowgraph and the search alone.
LEMMA FixedSearch ==
    ASSUME flow' = flow, SearchOK(search')
    PROVE  SearchOK(search)' /\ Met(search)' = Met(search') /\ Blank' = Blank
  <1>1. Nodes' = Nodes /\ Input' = Input /\ Unset' = Unset
    BY Fixed DEF Unset
  <1>2. SearchType' = SearchType
    BY <1>1 DEF SearchType
  <1>. DEFINE s == search
  <1>3. Met(s)' = Met(s') /\ Waiting(s)' = Waiting(s')
    BY <1>1 DEF Met, Waiting
  <1>4. Numbered(s)' /\ Stacked(s)'
    BY <1>3 DEF SearchOK, Numbered, Stacked
  <1>5. \A e : From(e)' = flow.edges[e].from /\ To(e)' = flow.edges[e].to
    BY DEF From, To
  <1>6. \A x : Up(s, x)' = Up(s', x)
    BY <1>5 DEF Up, From, To
  <1>7. \A x : Till(s, x)' = Till(s', x)
    BY <1>3 DEF Till
  <1>8. \A x, y : Beneath(s, y, x)' = Beneath(s', y, x)
    BY <1>7 DEF Beneath
  <1>9. Hung(s)' /\ Explored(s)'
    BY <1>1, <1>3, <1>5, <1>6, <1>8 DEF SearchOK, Hung, Explored, From, To
  <1>10. Nested(s)'
    BY <1>3, <1>6, <1>7, <1>8 DEF SearchOK, Nested
  <1>. QED
    BY <1>1, <1>2, <1>3, <1>4, <1>9, <1>10 DEF SearchOK, Blank

\* The search begins at the root.
LEMMA InitBracketInv == Init => BracketInv
  <1>. SUFFICES ASSUME Init
                PROVE  BracketInv
    OBVIOUS
  <1>1. PICK g \in Graphs : Call(Flowgraph(g))
    BY DEF Init
  <1>2. Net /\ IdsKnown
    BY InitSeseInv DEF SeseInv
  <1>. DEFINE n == flow.n
              r == flow.root
              b == [stack |-> <<>>, preorder |-> <<>>, number |-> [x \in 1 .. n |-> n + 1],
                    parent_edge |-> [x \in 1 .. n |-> 0], end |-> [x \in 1 .. n |-> 0]]
  <1>3. flow = Flowgraph(g) /\ phase = "search"
    BY <1>1 DEF Call
  <1>4. search = Enter(b, r, 0)
    BY <1>1, <1>3 DEF Call
  <1>5. jpp = Blank
    BY <1>1, <1>3 DEF Call, Blank, Nodes, Input, Unset
  <1>6. /\ n \in Nat /\ n # 0 /\ r \in Nodes /\ Nodes = 1 .. n /\ Unset = n + 1 /\ 1 # Unset
        /\ Len(flow.edges) \in Nat
    BY <1>2 DEF Net, Nodes, Unset
  <1>7. /\ search.stack = <<r>> /\ search.preorder = <<r>>
        /\ search.number = [[x \in Nodes |-> Unset] EXCEPT ![r] = 1]
        /\ search.parent_edge = [[x \in Nodes |-> 0] EXCEPT ![r] = 0]
        /\ search.end = [x \in Nodes |-> 0]
        /\ search = [stack |-> search.stack, preorder |-> search.preorder, number |-> search.number,
                     parent_edge |-> search.parent_edge, end |-> search.end]
    <2>1. Append(<<>>, r) = <<r>> /\ Len(<<>>) + 1 = 1
      OBVIOUS
    <2>2. search = [stack |-> Append(<<>>, r), preorder |-> Append(<<>>, r),
                    number |-> [[x \in Nodes |-> Unset] EXCEPT ![r] = Len(<<>>) + 1],
                    parent_edge |-> [[x \in Nodes |-> 0] EXCEPT ![r] = 0],
                    end |-> [x \in Nodes |-> 0]]
      BY <1>4, <1>6 DEF Enter
    <2>. QED
      BY <2>1, <2>2
  <1>8. search \in SearchType
    <2>1. search.stack \in Seq(Nodes) /\ search.preorder \in Seq(Nodes)
      BY <1>6, <1>7
    <2>2. Unset \in 1 .. Unset /\ 1 \in 1 .. Unset /\ 0 \in 0 .. Len(flow.edges) /\ 0 \in 0 .. n
      BY <1>6
    <2>3. search.number \in [Nodes -> 1 .. Unset]
      <3>. DEFINE R == 1 .. Unset
      <3>1. Unset \in R /\ 1 \in R
        BY <2>2
      <3>. HIDE DEF R
      <3>2. search.number \in [Nodes -> R]
        BY <1>6, <1>7, <3>1
      <3>. QED
        BY <3>2 DEF R
    <2>4. search.parent_edge \in [Nodes -> 0 .. Len(flow.edges)]
      BY <1>6, <1>7, <2>2
    <2>5. search.end \in [Nodes -> 0 .. n]
      BY <1>6, <1>7, <2>2
    <2>. QED
      BY <1>7, <2>1, <2>3, <2>4, <2>5 DEF SearchType
  <1>9. /\ search.number[r] = 1 /\ Met(search) = {r} /\ Waiting(search) = {r}
        /\ Len(search.preorder) = 1 /\ search.preorder[1] = r
        /\ Len(search.stack) = 1 /\ search.stack[1] = r /\ 1 .. 1 = {1}
    <2>1. \A x \in Nodes : search.number[x] = IF x = r THEN 1 ELSE Unset
      BY <1>6, <1>7
    <2>2. Met(search) = {r}
      BY <1>6, <2>1 DEF Met
    <2>3. DOMAIN <<r>> = 1 .. 1 /\ 1 .. 1 = {1} /\ Len(<<r>>) = 1 /\ <<r>>[1] = r
      OBVIOUS
    <2>4. Waiting(search) = {r}
      BY <1>7, <2>3 DEF Waiting, ToSet
    <2>. QED
      BY <1>6, <1>7, <2>1, <2>2, <2>3, <2>4
  <1>10. ~Beneath(search, r, r)
    BY <1>9 DEF Beneath
  <1>11. Numbered(search)
    <2>1. 1 <= n
      BY <1>6
    <2>. QED
      BY <1>9, <2>1 DEF Numbered
  <1>12. Stacked(search)
    <2>1. \A i, j \in {1} : ~(i < j)
      OBVIOUS
    <2>. QED
      BY <1>9, <2>1 DEF Stacked
  <1>13. Hung(search)
    <2>1. search.parent_edge[r] = 0
      BY <1>6, <1>7
    <2>. QED
      BY <1>9, <2>1 DEF Hung
  <1>14. Nested(search)
    <2>1. Till(search, r) = 1 /\ 1 <= 1
      BY <1>9 DEF Till
    <2>. QED
      BY <1>9, <1>10, <2>1 DEF Nested
  <1>15. Explored(search)
    BY <1>9 DEF Explored
  <1>16. search.stack # <<>>
    BY <1>9
  <1>. QED
    BY <1>3, <1>5, <1>8, <1>11, <1>12, <1>13, <1>14, <1>15, <1>16 DEF BracketInv, SearchOK

\* A step down the tree.
LEMMA DescendBracketInv == ASSUME SeseInv, BracketInv, Descend PROVE BracketInv'
  <1>. DEFINE x == Last(search.stack)
              U == Unvisited(x)
              e == Min(U)
              y == Other(e, x)
  <1>1. /\ Net /\ IdsKnown /\ SearchOK(search) /\ phase = "search" /\ jpp = Blank
        /\ search.stack # <<>>
    BY DEF SeseInv, BracketInv, Descend
  <1>2. /\ U # {} /\ search' = Enter(search, y, e) /\ flow' = flow /\ phase' = phase /\ jpp' = jpp
    BY DEF Descend
  <1>3. x \in Nodes
    <2>1. search.stack \in Seq(Nodes)
      BY <1>1, SearchTypes DEF SearchOK
    <2>. QED
      BY <1>1, <2>1 DEF Last
  <1>4. U \subseteq Input /\ \A d \in U : /\ search.number[Other(d, x)] = Unset
                                          /\ d \in incident(x)
    BY <1>1, <1>3, NoCaps DEF Unvisited
  <1>5. e \in U
    <2>1. U \in SUBSET Nat
      BY <1>1, <1>4 DEF Net, Input
    <2>. HIDE DEF U
    <2>2. PICK d \in U : \A c \in U : d <= c
      BY <1>2, <2>1, LeastNat
    <2>. QED
      BY <2>2 DEF Min
  <1>. HIDE DEF e, U
  <1>6. y \in Nodes \ Met(search) /\ e \in Input
    BY <1>1, <1>3, <1>4, <1>5, NoCaps, EdgesAre DEF Met
  <1>7. (From(e) = y /\ To(e) = x) \/ (From(e) = x /\ To(e) = y)
    <2>0. \A d \in Input : \A z : /\ Other(d, z) = IF From(d) = z THEN To(d) ELSE From(d)
                                  /\ d \in incident(z) <=> z \in {From(d), To(d)}
      BY <1>1, NoCaps, EdgesAre
    <2>1. y = (IF From(e) = x THEN To(e) ELSE From(e)) /\ x \in {From(e), To(e)}
      <3>. HIDE DEF x
      <3>. QED
        BY <1>4, <1>5, <1>6, <2>0
    <2>. HIDE DEF x, y
    <2>. QED
      BY <2>1
  <1>8. SearchOK(search')
    BY <1>1, <1>2, <1>6, <1>7, EnterOK
  <1>9. search'.stack # <<>>
    <2>1. search.stack \in Seq(Nodes) /\ search \in SearchType
      BY <1>1, SearchTypes DEF SearchOK
    <2>2. search'.stack = Append(search.stack, y)
      BY <1>2, <2>1 DEF Enter, SearchType
    <2>. QED
      BY <1>6, <2>1, <2>2
  <1>. QED
    BY <1>1, <1>2, <1>8, <1>9, FixedSearch DEF BracketInv

\* A step back up; from the root, the bracket pass begins.
LEMMA ReturnBracketInv == ASSUME SeseInv, BracketInv, Return PROVE BracketInv'
  <1>. DEFINE x == Last(search.stack)
  <1>1. /\ Net /\ IdsKnown /\ SearchOK(search) /\ phase = "search" /\ jpp = Blank
        /\ search.stack # <<>>
    BY DEF SeseInv, BracketInv, Return
  <1>2. /\ Unvisited(x) = {} /\ search' = Left(search) /\ flow' = flow
        /\ phase' = IF x = flow.root THEN "brackets" ELSE "search"
        /\ jpp' = [jpp EXCEPT !.left = IF x = flow.root THEN flow.n ELSE 0]
    BY DEF Return, Left
  <1>3. x \in Nodes /\ x \in Met(search)
    <2>1. search.stack \in Seq(Nodes) /\ Stacked(search)
      BY <1>1, SearchTypes DEF SearchOK
    <2>2. Len(search.stack) \in 1 .. Len(search.stack) /\ x = search.stack[Len(search.stack)]
      BY <1>1, <2>1 DEF Last
    <2>. QED
      BY <2>1, <2>2 DEF Stacked, Met
  <1>4. ASSUME NEW e \in Input, x \in {From(e), To(e)}
        PROVE  From(e) \in Met(search) /\ To(e) \in Met(search)
    <2>1. e \in incident(x) /\ Other(e, x) = (IF From(e) = x THEN To(e) ELSE From(e))
      BY <1>1, <1>4, NoCaps, EdgesAre
    <2>2. search.number[Other(e, x)] # Unset
      BY <1>2, <2>1 DEF Unvisited
    <2>3. From(e) \in Nodes /\ To(e) \in Nodes
      BY <1>1 DEF Net
    <2>. QED
      BY <1>3, <1>4, <2>1, <2>2, <2>3 DEF Met
  <1>5. /\ SearchOK(search') /\ Met(search') = Met(search) /\ search'.preorder = search.preorder
        /\ search'.stack = <<>> <=> x = flow.root
    BY <1>1, <1>2, <1>4, LeaveOK
  <1>. HIDE DEF x
  <1>6. CASE x # flow.root
    <2>1. jpp' = jpp
      BY <1>1, <1>2, <1>6 DEF Blank
    <2>. QED
      BY <1>1, <1>2, <1>5, <1>6, <2>1, FixedSearch DEF BracketInv
  <1>7. CASE x = flow.root
    <2>1. Met(search') = Nodes
      <3>1. Waiting(search') = {}
        <4>1. DOMAIN <<>> = {}
          OBVIOUS
        <4>. QED
          BY <1>5, <1>7, <4>1 DEF Waiting, ToSet
      <3>2. \A e \in Input : From(e) \in Met(search') => To(e) \in Met(search')
        BY <1>5, <3>1 DEF SearchOK, Explored
      <3>3. flow.root \in Met(search') /\ Met(search') \in SUBSET Nodes
        BY <1>3, <1>5, <1>7 DEF Met
      <3>4. ASSUME NEW y \in Nodes
            PROVE  y \in Met(search')
        <4>1. Path({}, flow.root, y)
          <5>1. Input \ {} = Input /\ y \in Reached(flow.n, Input, Froms({}), Tos({}), flow.root)
            BY <1>1 DEF Net
          <5>. QED
            BY <5>1 DEF Path
        <4>2. flow.root \in Nodes /\ \A e \in Input \ {} : e \in Input
          BY <3>3
        <4>. QED
          BY <1>1, <3>2, <3>3, <4>1, <4>2, PathInside
      <3>. QED
        BY <3>3, <3>4
    <2>2. Len(search'.preorder) = flow.n
      BY <1>1, <1>5, <2>1, NumbersFit DEF SearchOK
    <2>3. /\ jpp'.left = flow.n /\ jpp'.capping = <<>> /\ jpp'.hi = [y \in Nodes |-> Unset]
          /\ jpp'.brackets = [y \in Nodes |-> <<>>]
      BY <1>1, <1>2, <1>7 DEF Blank
    <2>4. phase' = "brackets" /\ search'.stack = <<>>
      BY <1>2, <1>5, <1>7
    <2>5. Nodes' = Nodes /\ Unset' = Unset /\ flow.n \in Nat
      BY <1>1, <1>2, Fixed DEF Unset, Net
    <2>6. jpp'.hi \in [Nodes -> 1 .. Unset]
      <3>1. Unset \in 1 .. Unset
        BY <2>5 DEF Unset
      <3>. QED
        BY <2>3, <3>1
    <2>7. jpp'.brackets \in [Nodes -> Seq(1 .. Len(edges)')]
      <3>. DEFINE R == 1 .. Len(edges)'
      <3>1. <<>> \in Seq(R)
        OBVIOUS
      <3>. HIDE DEF R
      <3>2. jpp'.brackets \in [Nodes -> Seq(R)]
        BY <2>3, <3>1
      <3>. QED
        BY <3>2 DEF R
    <2>8. jpp'.left \in 0 .. flow.n /\ jpp'.capping \in Seq([from : Nodes, to : Nodes])
      BY <2>3, <2>5
    <2>9. \A y \in Nodes \ {flow.root} : ~(search'.number[y] > jpp'.left)
      <3>1. ASSUME NEW y \in Nodes
            PROVE  ~(search'.number[y] > flow.n)
        <4>1. search'.number[y] \in Nat /\ search'.number[y] <= flow.n
          BY <1>1, <1>5, <2>1, <2>2, MetFacts
        <4>. QED
          BY <2>5, <4>1
      <3>. QED
        BY <2>3, <3>1
    <2>10. Met(search)' = Nodes
      BY <1>2, <1>5, <2>1, FixedSearch
    <2>. QED
      BY <1>2, <1>5, <2>2, <2>4, <2>5, <2>6, <2>7, <2>8, <2>9, <2>10, FixedSearch DEF BracketInv
  <1>. QED
    BY <1>6, <1>7

-----------------------------------------------------------------------------
(* The tree of the search: who is below whom.                              *)

\* Below is transitive.
LEMMA BeneathOn ==
    ASSUME Net, NEW s, SearchOK(s), NEW x \in Met(s), NEW y \in Met(s), NEW z \in Met(s),
           Beneath(s, z, y), Beneath(s, y, x)
    PROVE  Beneath(s, z, x)
  <1>1. Till(s, y) <= Till(s, x)
    BY DEF SearchOK, Nested
  <1>2. /\ s.number[x] \in Nat /\ s.number[y] \in Nat /\ s.number[z] \in Nat
        /\ Till(s, x) \in Nat /\ Till(s, y) \in Nat
    BY MetFacts
  <1>. QED
    BY <1>1, <1>2 DEF Beneath

\* What is below x is a child of x or below one.
LEMMA BeneathChild ==
    ASSUME Net, NEW s, SearchOK(s), NEW x \in Met(s), NEW y \in Met(s), Beneath(s, y, x)
    PROVE  \E c \in Met(s) \ {flow.root} : Up(s, c) = x /\ (y = c \/ Beneath(s, y, c))
  <1>. DEFINE Has(z) == \E c \in Met(s) \ {flow.root} : Up(s, c) = x /\ (z = c \/ Beneath(s, z, c))
              Bad == {z \in Met(s) : Beneath(s, z, x) /\ ~Has(z)}
              T == {s.number[z] : z \in Bad}
  <1>. SUFFICES ASSUME y \in Bad
                PROVE  FALSE
    OBVIOUS
  <1>1. \A z \in Met(s) : s.number[z] \in Nat
    BY MetFacts
  <1>2. T \in SUBSET Nat /\ T # {}
    BY <1>1
  <1>3. PICK k \in T : \A i \in T : k <= i
    <2>. HIDE DEF T
    <2>. QED
      BY <1>2, LeastNat
  <1>4. PICK z \in Bad : s.number[z] = k
    OBVIOUS
  <1>5. Beneath(s, z, x) /\ ~Has(z) /\ z \in Met(s)
    BY <1>4
  <1>. HIDE DEF Bad
  <1>6. z # flow.root /\ Up(s, z) \in Met(s)
    BY <1>5, MetFacts
  <1>7. Beneath(s, z, Up(s, z))
    BY <1>5, <1>6 DEF SearchOK, Hung
  <1>8. Up(s, z) # x
    BY <1>5, <1>6
  <1>9. Beneath(s, Up(s, z), x)
    BY <1>5, <1>8 DEF SearchOK, Nested
  <1>10. Up(s, z) \notin Bad
    <2>1. s.number[Up(s, z)] < s.number[z]
      BY <1>7 DEF Beneath
    <2>2. s.number[Up(s, z)] \in Nat /\ s.number[z] \in Nat
      BY <1>1, <1>5, <1>6
    <2>. SUFFICES ASSUME Up(s, z) \in Bad
                  PROVE  FALSE
      OBVIOUS
    <2>3. k <= s.number[Up(s, z)]
      BY <1>3
    <2>. QED
      BY <1>4, <2>1, <2>2, <2>3
  <1>11. Has(Up(s, z))
    BY <1>6, <1>9, <1>10 DEF Bad
  <1>12. PICK c \in Met(s) \ {flow.root} : Up(s, c) = x /\ (Up(s, z) = c \/ Beneath(s, Up(s, z), c))
    BY <1>11
  <1>13. Beneath(s, z, c)
    BY <1>5, <1>6, <1>7, <1>12, BeneathOn
  <1>. QED
    BY <1>5, <1>12, <1>13

\* Nothing is in the subtrees of two children of a node.
LEMMA ChildrenApart ==
    ASSUME Net, NEW s, SearchOK(s), NEW c \in Met(s) \ {flow.root}, NEW d \in Met(s) \ {flow.root},
           Up(s, c) = Up(s, d), c # d, NEW y \in Met(s), y = c \/ Beneath(s, y, c)
    PROVE  ~(y = d \/ Beneath(s, y, d))
  <1>1. ASSUME NEW a \in Met(s) \ {flow.root}, NEW b \in Met(s) \ {flow.root},
               Up(s, a) = Up(s, b), s.number[a] < s.number[b],
               y = a \/ Beneath(s, y, a), y = b \/ Beneath(s, y, b)
        PROVE  FALSE
    <2>1. /\ s.number[a] \in Nat /\ s.number[b] \in Nat /\ s.number[y] \in Nat
          /\ Till(s, a) \in Nat /\ Till(s, b) \in Nat
      BY MetFacts
    <2>2. s.number[b] <= s.number[y]
      BY <1>1, <2>1 DEF Beneath
    <2>3. s.number[y] <= Till(s, a)
      BY <1>1, <2>1, <2>2 DEF Beneath
    <2>4. Beneath(s, b, a)
      BY <1>1, <2>1, <2>2, <2>3 DEF Beneath
    <2>5. Up(s, b) = a \/ Beneath(s, Up(s, b), a)
      BY <2>4 DEF SearchOK, Nested
    <2>6. Up(s, a) \in Met(s) /\ Beneath(s, a, Up(s, a))
      BY DEF SearchOK, Hung
    <2>7. s.number[Up(s, a)] < s.number[a] /\ s.number[Up(s, a)] \in Nat
      BY <2>6, MetFacts DEF Beneath
    <2>. QED
      BY <1>1, <2>1, <2>5, <2>7 DEF Beneath
  <1>2. s.number[c] # s.number[d]
    BY NumbersTell DEF SearchOK
  <1>3. s.number[c] \in Nat /\ s.number[d] \in Nat
    BY MetFacts
  <1>4. s.number[c] < s.number[d] \/ s.number[d] < s.number[c]
    BY <1>2, <1>3
  <1>. QED
    BY <1>1, <1>4

-----------------------------------------------------------------------------
(* One node of the bracket pass.                                           *)

\* The search is over, and caps are edges.
Searched ==
    /\ Net /\ IdsKnown /\ SearchOK(search) /\ search.stack = <<>> /\ Met(search) = Nodes
    /\ Len(search.preorder) = flow.n /\ jpp.capping \in Seq([from : Nodes, to : Nodes])
    /\ jpp.hi \in [Nodes -> 1 .. Unset] /\ jpp.brackets \in [Nodes -> Seq(1 .. Len(edges))]

Kids(x) == {y \in Nodes \ {flow.root} : Up(search, y) = x}

\* is_descendant is what it says.
LEMMA DescendantIs ==
    ASSUME Searched, NEW x \in Nodes, NEW a \in Nodes
    PROVE  is_descendant(x, a) <=> Beneath(search, x, a)
  <1>1. Till(search, a) = search.end[a]
    <2>1. DOMAIN <<>> = {}
      OBVIOUS
    <2>. QED
      BY <2>1 DEF Searched, Till, Waiting, ToSet
  <1>2. search.number[x] \in Nat /\ search.number[a] \in Nat
    BY MetFacts DEF Searched
  <1>3. search.number[x] = search.number[a] => x = a
    BY NumbersTell DEF Searched, SearchOK
  <1>. QED
    BY <1>1, <1>2, <1>3 DEF is_descendant, Beneath

\* The children of a node, each once.
LEMMA ChildrenAre ==
    ASSUME Searched, NEW x \in Nodes
    PROVE  /\ children(x) \in Seq(Nodes) /\ ToSet(children(x)) = Kids(x)
           /\ Once(children(x), Nodes)
  <1>. DEFINE K == {y \in Nodes : search.parent_edge[y] # 0 /\ Other(search.parent_edge[y], y) = x}
  <1>1. search.preorder \in Seq(Nodes)
    BY SearchTypes DEF Searched, SearchOK
  <1>2. /\ search.parent_edge[flow.root] = 0
        /\ \A y \in Nodes \ {flow.root} : search.parent_edge[y] \in Input
    BY DEF Searched, SearchOK, Hung
  <1>3. \A e \in Input : e # 0
    BY DEF Searched, Net, Input
  <1>4. \A y \in Nodes \ {flow.root} : Other(search.parent_edge[y], y) = Up(search, y)
    BY <1>2, EdgesAre DEF Searched, Up
  <1>5. K = Kids(x)
    BY <1>2, <1>3, <1>4 DEF Kids
  <1>6. ToSet(search.preorder) = Nodes
    <2>1. DOMAIN search.preorder = 1 .. flow.n
      BY <1>1 DEF Searched
    <2>2. ASSUME NEW y \in Nodes
          PROVE  y \in ToSet(search.preorder)
      <3>1. /\ search.number[y] \in Nat /\ 1 <= search.number[y] /\ search.number[y] <= flow.n
            /\ search.preorder[search.number[y]] = y
        BY MetFacts DEF Searched
      <3>2. search.number[y] \in 1 .. flow.n
        BY <3>1 DEF Searched, Net
      <3>. QED
        BY <2>1, <3>1, <3>2 DEF ToSet
    <2>3. \A i \in 1 .. flow.n : search.preorder[i] \in Nodes
      <3>1. \A i \in 1 .. Len(search.preorder) : search.preorder[i] \in Nodes
        BY <1>1
      <3>. QED
        BY <3>1 DEF Searched
    <2>. QED
      BY <2>1, <2>2, <2>3 DEF ToSet
  <1>7. Once(search.preorder, Nodes)
    <2>1. DOMAIN search.preorder = 1 .. Len(search.preorder)
      BY <1>1
    <2>2. \A i \in 1 .. Len(search.preorder) : search.number[search.preorder[i]] = i
      BY DEF Searched, SearchOK, Numbered
    <2>. QED
      BY <2>1, <2>2 DEF Once
  <1>8. children(x) = Filtered(search.preorder, K)
    BY DEF children
  <1>. HIDE DEF K
  <1>9. /\ children(x) \in Seq(Nodes) /\ ToSet(children(x)) = Nodes \cap K
        /\ Once(children(x), Nodes)
    BY <1>1, <1>6, <1>7, <1>8, FilteredFacts
  <1>10. Kids(x) \subseteq Nodes
    BY DEF Kids
  <1>. QED
    BY <1>5, <1>9, <1>10

\* What starts or ends at x, among the edges of the input.
LEMMA AtNode ==
    ASSUME Searched, NEW x \in Nodes, NEW e \in Input
    PROVE  /\ e \in Upward(x) <=> /\ ~tree(e) /\ x \in {From(e), To(e)}
                                  /\ \E z \in {From(e), To(e)} : Beneath(search, x, z)
           /\ e \in Downward(x) <=> /\ ~tree(e) /\ x \in {From(e), To(e)}
                                    /\ \E y \in {From(e), To(e)} : Beneath(search, y, x)
  <1>1. /\ Other(e, x) = IF From(e) = x THEN To(e) ELSE From(e)
        /\ e \in incident(x) <=> x \in {From(e), To(e)}
        /\ Other(e, x) \in Nodes
    <2>1. Net
      BY DEF Searched
    <2>2. From(e) \in Nodes /\ To(e) \in Nodes
      BY <2>1 DEF Net
    <2>. QED
      BY <2>2, EdgesAre DEF Searched
  <1>2. /\ is_descendant(x, Other(e, x)) <=> Beneath(search, x, Other(e, x))
        /\ is_descendant(Other(e, x), x) <=> Beneath(search, Other(e, x), x)
    BY <1>1, DescendantIs
  <1>3. ~Beneath(search, x, x)
    <2>1. search.number[x] \in Nat
      BY MetFacts DEF Searched
    <2>. QED
      BY <2>1 DEF Beneath
  <1>4. x \in {From(e), To(e)} => /\ Other(e, x) \in {From(e), To(e)}
                                  /\ \A z \in {From(e), To(e)} : z = x \/ z = Other(e, x)
    BY <1>1
  <1>5. e \in Upward(x) <=> e \in incident(x) /\ ~tree(e) /\ is_descendant(x, Other(e, x))
    BY DEF Upward, incident
  <1>6. e \in Downward(x) <=> e \in incident(x) /\ ~tree(e) /\ is_descendant(Other(e, x), x)
    BY DEF Downward, incident
  <1>7. x \in {From(e), To(e)} =>
          /\ Beneath(search, x, Other(e, x)) <=> \E z \in {From(e), To(e)} : Beneath(search, x, z)
          /\ Beneath(search, Other(e, x), x) <=> \E y \in {From(e), To(e)} : Beneath(search, y, x)
    BY <1>3, <1>4
  <1>. QED
    BY <1>1, <1>2, <1>5, <1>6, <1>7

\* What spans x: what spans its children and does not end at x, and what starts there.
LEMMA SpanningStep ==
    ASSUME Searched, NEW x \in Nodes
    PROVE  /\ \A e \in Input :
                e \in Spanning(search, x) <=>
                  \/ e \in Upward(x)
                  \/ e \notin Downward(x) /\ \E c \in Kids(x) : e \in Spanning(search, c)
           /\ \A c \in Kids(x) : Spanning(search, c) \cap Upward(x) = {}
           /\ \A c, d \in Kids(x) : c # d => Spanning(search, c) \cap Spanning(search, d) = {}
  <1>. DEFINE B(y, z) == Beneath(search, y, z)
              N == search.number
  <1>1. Net /\ SearchOK(search) /\ Met(search) = Nodes
    BY DEF Searched
  <1>2. \A e \in Input : From(e) \in Nodes /\ To(e) \in Nodes
    BY <1>1 DEF Net
  <1>3. /\ \A y \in Nodes : N[y] \in Nat
        /\ \A y, z \in Nodes : B(y, z) => N[z] < N[y]
    BY <1>1, MetFacts DEF Beneath
  <1>4. \A c \in Kids(x) : c \in Nodes /\ c # flow.root /\ Up(search, c) = x /\ B(c, x)
    BY <1>1 DEF Kids, SearchOK, Hung
  <1>5. \A c \in Kids(x) : \A z \in Nodes : B(c, z) => z = x \/ B(x, z)
    BY <1>1, <1>4 DEF SearchOK, Nested
  <1>6. \A y, z, u \in Nodes : B(y, z) /\ B(z, u) => B(y, u)
    BY <1>1, BeneathOn
  <1>7. \A y \in Nodes : B(y, x) => \E c \in Kids(x) : y = c \/ B(y, c)
    <2>1. SUFFICES ASSUME NEW y \in Nodes, B(y, x)
                   PROVE  \E c \in Kids(x) : y = c \/ B(y, c)
      OBVIOUS
    <2>2. PICK c \in Met(search) \ {flow.root} : Up(search, c) = x /\ (y = c \/ Beneath(search, y, c))
      BY <1>1, <2>1, BeneathChild
    <2>3. c \in Kids(x)
      BY <1>1, <2>2 DEF Kids
    <2>. QED
      BY <2>2, <2>3
  <1>8. \A c, d \in Kids(x) : c # d => \A y \in Nodes : ~((y = c \/ B(y, c)) /\ (y = d \/ B(y, d)))
    BY <1>1, <1>4, ChildrenApart
  <1>9. \A e \in Input : \A y :
          e \in Spanning(search, y) <=>
            ~tree(e) /\ \E u, z \in {From(e), To(e)} : (u = y \/ B(u, y)) /\ B(y, z)
    BY DEF Spanning
  <1>. HIDE DEF B, N
  <1>10. ASSUME NEW e \in Input, e \in Spanning(search, x)
         PROVE  \/ e \in Upward(x)
                \/ e \notin Downward(x) /\ \E c \in Kids(x) : e \in Spanning(search, c)
    <2>1. PICK u, z \in {From(e), To(e)} : (u = x \/ B(u, x)) /\ B(x, z) /\ ~tree(e)
      BY <1>9, <1>10
    <2>2. u \in Nodes /\ z \in Nodes
      BY <1>2, <2>1
    <2>3. CASE u = x
      BY <2>1, <2>3, AtNode DEF B
    <2>4. CASE B(u, x)
      <3>1. N[z] < N[x] /\ N[x] < N[u] /\ N[x] \in Nat /\ N[u] \in Nat /\ N[z] \in Nat
        BY <1>3, <2>1, <2>2, <2>4
      <3>2. x \notin {u, z} /\ u # z
        BY <3>1
      <3>3. {From(e), To(e)} = {u, z}
        BY <2>1, <3>2
      <3>4. e \notin Downward(x)
        BY <3>2, <3>3, AtNode
      <3>5. PICK c \in Kids(x) : u = c \/ B(u, c)
        BY <1>7, <2>2, <2>4
      <3>6. B(c, z)
        BY <1>4, <1>6, <2>1, <2>2, <3>5
      <3>7. e \in Spanning(search, c)
        BY <1>9, <2>1, <3>5, <3>6
      <3>. QED
        BY <3>4, <3>5, <3>7
    <2>. QED
      BY <2>1, <2>3, <2>4
  <1>11. ASSUME NEW e \in Input, e \in Upward(x)
         PROVE  e \in Spanning(search, x)
    BY <1>9, <1>11, AtNode DEF B
  <1>12. ASSUME NEW e \in Input, e \notin Downward(x), NEW c \in Kids(x), e \in Spanning(search, c)
         PROVE  e \in Spanning(search, x)
    <2>1. PICK u, z \in {From(e), To(e)} : (u = c \/ B(u, c)) /\ B(c, z) /\ ~tree(e)
      BY <1>9, <1>12
    <2>2. u \in Nodes /\ z \in Nodes
      BY <1>2, <2>1
    <2>3. B(u, x)
      BY <1>4, <1>6, <2>1, <2>2
    <2>4. z = x \/ B(x, z)
      BY <1>5, <2>1, <2>2
    <2>5. z # x
      <3>. SUFFICES ASSUME z = x
                    PROVE  FALSE
        OBVIOUS
      <3>1. e \in Downward(x)
        BY <2>1, <2>3, AtNode DEF B
      <3>. QED
        BY <1>12, <3>1
    <2>. QED
      BY <1>9, <2>1, <2>3, <2>4, <2>5
  <1>13. ASSUME NEW c \in Kids(x), NEW e \in Spanning(search, c)
         PROVE  /\ e \in Input
                /\ \E u, z \in {From(e), To(e)} : /\ (u = c \/ B(u, c)) /\ u \in Nodes /\ z \in Nodes
                                                  /\ {From(e), To(e)} = {u, z}
                                                  /\ N[x] < N[u] /\ N[z] <= N[x]
    <2>1. e \in Input
      BY DEF Spanning
    <2>2. PICK u, z \in {From(e), To(e)} : (u = c \/ B(u, c)) /\ B(c, z)
      BY <1>9, <2>1
    <2>3. u \in Nodes /\ z \in Nodes
      BY <1>2, <2>1, <2>2
    <2>4. B(u, x) /\ (z = x \/ B(x, z))
      BY <1>4, <1>5, <1>6, <2>2, <2>3
    <2>5. N[x] < N[u] /\ N[z] <= N[x] /\ N[x] \in Nat /\ N[u] \in Nat /\ N[z] \in Nat
      BY <1>3, <2>3, <2>4
    <2>6. {From(e), To(e)} = {u, z}
      BY <2>2, <2>5
    <2>. QED
      BY <2>1, <2>2, <2>3, <2>5, <2>6
  <1>14. ASSUME NEW c \in Kids(x), NEW e \in Spanning(search, c), e \in Upward(x)
         PROVE  FALSE
    <2>1. PICK u, z \in {From(e), To(e)} : /\ u \in Nodes /\ z \in Nodes /\ {From(e), To(e)} = {u, z}
                                           /\ N[x] < N[u] /\ N[z] <= N[x]
      BY <1>13
    <2>2. e \in Input
      BY <1>13
    <2>3. /\ x \in {u, z}
          /\ \E w \in {u, z} : B(x, w)
      BY <1>14, <2>1, <2>2, AtNode DEF B
    <2>4. N[x] \in Nat /\ N[u] \in Nat /\ N[z] \in Nat
      BY <1>3, <2>1
    <2>5. x = z
      BY <2>1, <2>3, <2>4
    <2>6. ~B(x, x) /\ ~B(x, u)
      BY <1>3, <2>1, <2>4
    <2>. QED
      BY <2>3, <2>5, <2>6
  <1>15. ASSUME NEW c \in Kids(x), NEW d \in Kids(x), c # d,
                NEW e \in Spanning(search, c), e \in Spanning(search, d)
         PROVE  FALSE
    <2>1. PICK u, z \in {From(e), To(e)} : /\ (u = c \/ B(u, c)) /\ u \in Nodes /\ z \in Nodes
                                           /\ {From(e), To(e)} = {u, z}
                                           /\ N[x] < N[u] /\ N[z] <= N[x]
      BY <1>13
    <2>2. PICK v, w \in {From(e), To(e)} : /\ (v = d \/ B(v, d)) /\ v \in Nodes /\ w \in Nodes
                                           /\ {From(e), To(e)} = {v, w}
                                           /\ N[x] < N[v] /\ N[w] <= N[x]
      BY <1>13, <1>15
    <2>3. N[x] \in Nat /\ N[u] \in Nat /\ N[z] \in Nat /\ N[v] \in Nat
      BY <1>3, <2>1, <2>2
    <2>4. v = u
      <3>1. v \in {u, z}
        BY <2>1, <2>2
      <3>2. v # z
        BY <2>1, <2>2, <2>3
      <3>. QED
        BY <3>1, <3>2
    <2>. QED
      BY <1>8, <1>15, <2>1, <2>2, <2>4
  <1>. QED
    BY <1>10, <1>11, <1>12, <1>14, <1>15

\* The edges and the caps are counted by a number.
LEMMA EdgeCount ==
    ASSUME Searched
    PROVE  Len(edges) \in Nat
  <1>. DEFINE m == Len(edges)
              l == Len(flow.edges)
              c == Len(jpp.capping)
  <1>1. c \in Nat /\ m = l + c
    BY EdgesAre DEF Searched
  <1>2. l \in Nat
    BY SearchTypes DEF Searched, SearchOK, Net
  <1>. HIDE DEF m, l, c
  <1>3. m \in Nat
    BY <1>1, <1>2
  <1>. QED
    BY <1>3 DEF m

\* The merged lists of the children, without what ends at x, and what starts there.
LEMMA MergedIs ==
    ASSUME Searched, NEW x \in Nodes
    PROVE  /\ Merged(x) \in Seq(1 .. Len(edges))
           /\ (\A c \in Kids(x) : Exact(jpp.brackets[c], c)) => Exact(Merged(x), x)
  <1>. DEFINE A == 1 .. Len(edges)
              kids == children(x)
              lists == [i \in DOMAIN kids |-> jpp.brackets[kids[i]]]
              F == FlattenSeq(lists)
              kept == Filtered(F, Open(x))
              up == Ascending(Upward(x))
  <1>1. Merged(x) = kept \o up
    BY DEF Merged
  <1>2. /\ Len(edges) \in Nat /\ Input \subseteq A /\ Input \cap Capping = {} /\ IsFiniteSet(A)
        /\ \A e \in incident(x) : e \in A
    <2>1. Len(edges) \in Nat
      BY EdgeCount
    <2>. QED
      BY <2>1, EdgesAre DEF Searched
  <1>3. Upward(x) \in SUBSET A
    BY <1>2 DEF Upward
  <1>4. up \in Seq(A) /\ ToSet(up) = Upward(x) /\ \A U : Once(up, U)
    <2>1. Upward(x) \in SUBSET Nat
      BY <1>2, <1>3
    <2>2. IsFiniteSet(Upward(x))
      BY <1>2, <1>3, FS_Subset
    <2>3. Lists(up, Upward(x))
      BY <2>1, <2>2, AscendingLists
    <2>. HIDE DEF up
    <2>4. /\ up \in Seq(Upward(x)) /\ DOMAIN up = 1 .. Cardinality(Upward(x))
          /\ ToSet(up) = Upward(x)
      BY <2>2, <2>3, ListSeq
    <2>5. up \in Seq(A)
      BY <1>3, <2>4, WiderSeq
    <2>. QED
      BY <2>3, <2>4, <2>5 DEF Lists, Once
  <1>5. /\ kids \in Seq(Nodes) /\ ToSet(kids) = Kids(x) /\ Once(kids, Nodes)
    BY ChildrenAre
  <1>. HIDE DEF kids
  <1>6. /\ Len(kids) \in Nat /\ DOMAIN kids = 1 .. Len(kids)
        /\ \A i \in 1 .. Len(kids) : kids[i] \in Nodes
    BY <1>5
  <1>7. /\ lists \in Seq(Seq(A)) /\ DOMAIN lists = DOMAIN kids
        /\ \A i \in DOMAIN kids : lists[i] = jpp.brackets[kids[i]]
    <2>. DEFINE B == Seq(A)
    <2>1. \A y \in Nodes : jpp.brackets[y] \in B
      BY DEF Searched
    <2>. HIDE DEF B
    <2>2. lists \in [1 .. Len(kids) -> B]
      BY <1>6, <2>1
    <2>3. lists \in Seq(B)
      BY <1>6, <2>2, FunctionIsSeq
    <2>. QED
      BY <2>3 DEF B
  <1>. HIDE DEF lists
  <1>8. /\ F \in Seq(A) /\ ToSet(F) = UNION {ToSet(lists[i]) : i \in DOMAIN lists}
        /\ \A U : /\ \A i \in DOMAIN lists : Once(lists[i], U)
                  /\ \A i, j \in DOMAIN lists :
                        i # j => ToSet(lists[i]) \cap ToSet(lists[j]) \cap U = {}
                  => Once(F, U)
    <2>. HIDE DEF A
    <2>. QED
      BY <1>7, FlattenFacts
  <1>9. ToSet(F) = UNION {ToSet(jpp.brackets[c]) : c \in Kids(x)}
    <2>1. \A c \in Kids(x) : \E i \in DOMAIN lists : lists[i] = jpp.brackets[c]
      BY <1>5, <1>7 DEF ToSet
    <2>2. \A i \in DOMAIN lists : \E c \in Kids(x) : lists[i] = jpp.brackets[c]
      BY <1>5, <1>7 DEF ToSet
    <2>. QED
      BY <1>8, <2>1, <2>2
  <1>. HIDE DEF F
  <1>10. /\ kept \in Seq(A) /\ ToSet(kept) = ToSet(F) \cap Open(x)
         /\ \A U : Once(F, U) => Once(kept, U)
    <2>. HIDE DEF A
    <2>. QED
      BY <1>8, FilteredFacts
  <1>. HIDE DEF kept, up
  <1>11. /\ Merged(x) \in Seq(A) /\ ToSet(Merged(x)) = ToSet(kept) \cup ToSet(up)
         /\ \A U : Once(kept, U) /\ Once(up, U) /\ ToSet(kept) \cap ToSet(up) \cap U = {}
                     => Once(Merged(x), U)
    <2>. HIDE DEF A
    <2>. QED
      BY <1>1, <1>4, <1>10, JoinedOnce
  <1>12. ASSUME \A c \in Kids(x) : Exact(jpp.brackets[c], c)
         PROVE  Exact(Merged(x), x)
    <2>1. \A c \in Kids(x) : /\ Once(jpp.brackets[c], Input)
                             /\ ToSet(jpp.brackets[c]) \cap Input = Spanning(search, c)
      BY <1>12 DEF Exact
    <2>2. \A e \in Input : e \in Open(x) <=> e \notin Downward(x)
      BY <1>2 DEF Open, Stale
    <2>3. \A e \in Input : e \in ToSet(kept) <=>
                             e \notin Downward(x) /\ \E c \in Kids(x) : e \in Spanning(search, c)
      BY <1>9, <1>10, <2>1, <2>2
    <2>4. ToSet(Merged(x)) \cap Input = Spanning(search, x)
      <3>1. \A e \in Input : e \in Spanning(search, x) <=>
                               \/ e \in Upward(x)
                               \/ e \notin Downward(x) /\ \E c \in Kids(x) : e \in Spanning(search, c)
        BY SpanningStep
      <3>2. Spanning(search, x) \subseteq Input
        BY DEF Spanning
      <3>. QED
        BY <1>4, <1>11, <2>3, <3>1, <3>2
    <2>5. ToSet(kept) \cap ToSet(up) \cap Input = {}
      <3>1. \A c \in Kids(x) : Spanning(search, c) \cap Upward(x) = {}
        BY SpanningStep
      <3>. QED
        BY <1>4, <2>3, <3>1
    <2>6. Once(F, Input)
      <3>1. \A i \in DOMAIN lists : kids[i] \in Kids(x) /\ lists[i] = jpp.brackets[kids[i]]
        BY <1>5, <1>7 DEF ToSet
      <3>2. \A i \in DOMAIN lists : Once(lists[i], Input)
        BY <2>1, <3>1
      <3>3. ASSUME NEW i \in DOMAIN lists, NEW j \in DOMAIN lists, i # j
            PROVE  ToSet(lists[i]) \cap ToSet(lists[j]) \cap Input = {}
        <4>1. kids[i] # kids[j]
          BY <1>5, <1>6, <1>7, <3>3 DEF Once
        <4>2. Spanning(search, kids[i]) \cap Spanning(search, kids[j]) = {}
          BY <3>1, <4>1, SpanningStep
        <4>. QED
          BY <2>1, <3>1, <4>2
      <3>. QED
        BY <1>8, <3>2, <3>3
    <2>7. Once(Merged(x), Input)
      BY <1>4, <1>10, <1>11, <2>5, <2>6
    <2>. QED
      BY <2>4, <2>7 DEF Exact
  <1>. QED
    BY <1>11, <1>12

\* The lowest of some numbers is a number, or Unset.
LEMMA LowestIs ==
    ASSUME Net, NEW S \in SUBSET (1 .. Unset)
    PROVE  Lowest(S) \in 1 .. Unset
  <1>. DEFINE T == S \cup {Unset}
  <1>. DEFINE u == Unset
  <1>1. u \in Nat /\ u \in 1 .. u
    BY DEF Net, Unset
  <1>2. T \in SUBSET (1 .. Unset) /\ T \in SUBSET Nat /\ T # {}
    <2>1. S \subseteq 1 .. u
      OBVIOUS
    <2>2. T = S \cup {u}
      OBVIOUS
    <2>. HIDE DEF u, T
    <2>3. T \subseteq 1 .. u /\ T \subseteq Nat /\ T # {}
      BY <1>1, <2>1, <2>2
    <2>. QED
      BY <2>3 DEF u
  <1>. HIDE DEF T
  <1>3. PICK l \in T : \A y \in T : l <= y
    BY <1>2, LeastNat
  <1>4. Min(T) \in T
    BY <1>3 DEF Min
  <1>. QED
    BY <1>2, <1>4 DEF Lowest, T

\* The fields of the arrays after the lists of x are merged.
LEMMA ListedShape ==
    ASSUME NEW x
    PROVE  LET cap == IF Capped(x) THEN <<[from |-> x, to |-> search.preorder[hi2(x)]]>> ELSE <<>>
           IN \E next, cls, rec :
                Listed(x) =
                  [capping |-> jpp.capping \o cap, left |-> jpp.left - 1, next_class |-> next,
                   hi |-> [jpp.hi EXCEPT ![x] = Lowest({hi0(x), hi1(x)})],
                   brackets |-> [y \in Nodes |->
                                   IF y = x THEN Merged(x) \o [i \in DOMAIN cap |-> Len(edges) + 1]
                                   ELSE IF Contains(children(x), y) THEN <<>> ELSE jpp.brackets[y]],
                   classes |-> cls, recent |-> rec]
  BY DEF Listed

\* What the lists and hi are after one node.
LEMMA BracketedIs ==
    ASSUME Searched, NEW x \in Nodes
    PROVE  /\ Listed(x).left = jpp.left - 1
           /\ Listed(x).capping \in Seq([from : Nodes, to : Nodes])
           /\ Listed(x).hi \in [Nodes -> 1 .. Unset]
           /\ Listed(x).brackets \in [Nodes -> Seq(1 .. Len(flow.edges \o Listed(x).capping))]
           /\ \A y \in Nodes \ {x} : y \notin Kids(x) => Listed(x).brackets[y] = jpp.brackets[y]
           /\ (\A c \in Kids(x) : Exact(jpp.brackets[c], c)) => Exact(Listed(x).brackets[x], x)
           /\ \E next, cls, rec :
                Listed(x) = [capping |-> Listed(x).capping, left |-> Listed(x).left,
                             next_class |-> next, hi |-> Listed(x).hi,
                             brackets |-> Listed(x).brackets, classes |-> cls, recent |-> rec]
  <1>. DEFINE P == [from : Nodes, to : Nodes]
              A == 1 .. Len(edges)
              cap == IF Capped(x) THEN <<[from |-> x, to |-> search.preorder[hi2(x)]]>> ELSE <<>>
              own == [i \in DOMAIN cap |-> Len(edges) + 1]
              br == [y \in Nodes |-> IF y = x THEN Merged(x) \o own
                                     ELSE IF Contains(children(x), y) THEN <<>> ELSE jpp.brackets[y]]
              high == [jpp.hi EXCEPT ![x] = Lowest({hi0(x), hi1(x)})]
  <1>1. PICK next, cls, rec :
           Listed(x) = [capping |-> jpp.capping \o cap, left |-> jpp.left - 1, next_class |-> next,
                        hi |-> high, brackets |-> br, classes |-> cls, recent |-> rec]
    BY ListedShape
  <1>2. /\ Listed(x).capping = jpp.capping \o cap /\ Listed(x).left = jpp.left - 1
        /\ Listed(x).hi = high /\ Listed(x).brackets = br
    <2>. HIDE DEF cap, high, br
    <2>. QED
      BY <1>1
  <1>3. \E nc, cs, rc :
          Listed(x) = [capping |-> Listed(x).capping, left |-> Listed(x).left,
                       next_class |-> nc, hi |-> Listed(x).hi,
                       brackets |-> Listed(x).brackets, classes |-> cs, recent |-> rc]
    <2>. HIDE DEF cap, high, br
    <2>. QED
      BY <1>1, <1>2
  <1>4. Net /\ search.number \in [Nodes -> 1 .. Unset] /\ search.preorder \in Seq(Nodes)
    BY SearchTypes DEF Searched, SearchOK
  <1>5. hi0(x) \in 1 .. Unset /\ hi1(x) \in 1 .. Unset /\ hi2(x) \in 1 .. Unset
    <2>1. {search.number[Other(e, x)] : e \in Upward(x)} \in SUBSET (1 .. Unset)
      <3>1. \A e \in Upward(x) : Other(e, x) \in Nodes
        <4>1. \A e \in incident(x) : Other(e, x) \in Nodes
          BY EdgesAre DEF Searched
        <4>. QED
          BY <4>1 DEF Upward
      <3>. QED
        BY <1>4, <3>1
    <2>. DEFINE C == ToSet(children(x))
                twice == {c \in C : \E d \in C \ {c} : jpp.hi[d] <= jpp.hi[c]}
    <2>2. C \subseteq Nodes
      BY ChildrenAre DEF Kids
    <2>3. {jpp.hi[y] : y \in C} \in SUBSET (1 .. Unset)
      BY <2>2 DEF Searched
    <2>4. {jpp.hi[y] : y \in twice} \in SUBSET (1 .. Unset)
      BY <2>2 DEF Searched
    <2>5. hi0(x) \in 1 .. Unset
      BY <1>4, <2>1, LowestIs DEF hi0
    <2>6. hi1(x) \in 1 .. Unset
      BY <1>4, <2>3, LowestIs DEF hi1
    <2>7. hi2(x) \in 1 .. Unset
      BY <1>4, <2>4, LowestIs DEF hi2
    <2>. QED
      BY <2>5, <2>6, <2>7
  <1>6. high \in [Nodes -> 1 .. Unset]
    <2>1. Lowest({hi0(x), hi1(x)}) \in 1 .. Unset
      BY <1>4, <1>5, LowestIs
    <2>. QED
      BY <2>1 DEF Searched
  <1>7. cap \in Seq(P) /\ Len(cap) \in Nat /\ Len(cap) <= 1 /\ DOMAIN cap = 1 .. Len(cap)
    <2>1. CASE Capped(x)
      <3>1. hi2(x) \in 1 .. flow.n
        <4>1. flow.n \in Nat /\ Unset = flow.n + 1
          BY <1>4 DEF Net, Unset
        <4>. QED
          BY <1>5, <2>1, <4>1 DEF Capped
      <3>2. search.preorder[hi2(x)] \in Nodes
        BY <1>4, <3>1 DEF Searched
      <3>. DEFINE p == [from |-> x, to |-> search.preorder[hi2(x)]]
      <3>3. p \in P
        BY <3>2
      <3>4. cap = <<p>>
        BY <2>1
      <3>. HIDE DEF p, P
      <3>5. <<p>> \in Seq(P) /\ Len(<<p>>) = 1 /\ DOMAIN <<p>> = 1 .. 1
        BY <3>3
      <3>. HIDE DEF cap
      <3>. QED
        BY <3>4, <3>5
    <2>2. CASE ~Capped(x)
      <3>1. cap = <<>>
        BY <2>2
      <3>. HIDE DEF cap, P
      <3>. QED
        BY <3>1
    <2>. QED
      BY <2>1, <2>2
  <1>. HIDE DEF cap
  <1>8. /\ jpp.capping \o cap \in Seq(P)
        /\ Len(flow.edges \o (jpp.capping \o cap)) = Len(edges) + Len(cap)
        /\ Len(edges) \in Nat
    <2>1. jpp.capping \in Seq(P)
      BY DEF Searched
    <2>2. jpp.capping \o cap \in Seq(P) /\ Len(jpp.capping \o cap) = Len(jpp.capping) + Len(cap)
      <3>. HIDE DEF P
      <3>. QED
        BY <1>7, <2>1, JoinedSeq
    <2>. DEFINE B == ToSet(flow.edges) \cup P
                t == jpp.capping \o cap
    <2>3. flow.edges \in Seq(B) /\ t \in Seq(B)
      <3>1. flow.edges \in Seq(ToSet(flow.edges))
        BY DEF Searched, IdsKnown
      <3>2. ToSet(flow.edges) \subseteq B /\ P \subseteq B
        OBVIOUS
      <3>. HIDE DEF B, P
      <3>. QED
        BY <2>2, <3>1, <3>2, WiderSeq
    <2>. HIDE DEF B, P
    <2>4. Len(flow.edges \o t) = Len(flow.edges) + Len(t)
      <3>. HIDE DEF t
      <3>. QED
        BY <2>3, JoinedSeq
    <2>5. Len(edges) = Len(flow.edges) + Len(jpp.capping) /\ Len(jpp.capping) \in Nat
      BY EdgesAre DEF Searched
    <2>6. Len(flow.edges) \in Nat
      BY <1>4 DEF Net
    <2>7. Len(edges) \in Nat
      BY EdgeCount
    <2>. DEFINE l == Len(flow.edges)
                c == Len(jpp.capping)
                d == Len(cap)
                k == Len(edges)
    <2>8. Len(t) = c + d /\ l \in Nat /\ c \in Nat /\ d \in Nat /\ k = l + c
      BY <1>7, <2>2, <2>5, <2>6
    <2>9. Len(flow.edges \o t) = l + Len(t)
      BY <2>4
    <2>. HIDE DEF l, c, d, k, t
    <2>10. Len(flow.edges \o t) = k + d
      BY <2>8, <2>9
    <2>. QED
      BY <2>2, <2>7, <2>10 DEF k, d, t
  <1>. DEFINE m == Len(edges)
              R == 1 .. m + Len(cap)
  <1>9. A \subseteq R /\ \A i \in 1 .. Len(cap) : m + 1 \in R
    BY <1>7, <1>8
  <1>10. own \in Seq(R) /\ ToSet(own) \subseteq {m + 1} /\ \A U : m + 1 \notin U => Once(own, U)
    <2>1. /\ own \in [1 .. Len(cap) -> R] /\ DOMAIN own = 1 .. Len(cap)
          /\ \A i \in 1 .. Len(cap) : own[i] = m + 1
      BY <1>7, <1>9
    <2>. HIDE DEF own, R
    <2>2. own \in Seq(R)
      BY <1>7, <2>1, FunctionIsSeq
    <2>. QED
      BY <2>1, <2>2 DEF ToSet, Once
  <1>11. /\ Merged(x) \in Seq(A)
         /\ (\A c \in Kids(x) : Exact(jpp.brackets[c], c)) => Exact(Merged(x), x)
    BY MergedIs
  <1>12. Merged(x) \in Seq(R)
    <2>. HIDE DEF A, R
    <2>. QED
      BY <1>9, <1>11, WiderSeq
  <1>. DEFINE list == Merged(x) \o own
  <1>13. /\ list \in Seq(R) /\ ToSet(list) = ToSet(Merged(x)) \cup ToSet(own)
         /\ \A U : Once(Merged(x), U) /\ Once(own, U) /\ ToSet(Merged(x)) \cap ToSet(own) \cap U = {}
                     => Once(list, U)
    <2>. HIDE DEF R, own
    <2>. QED
      BY <1>10, <1>12, JoinedOnce
  <1>14. /\ br[x] = list
         /\ \A y \in Nodes \ {x} : br[y] = IF Contains(children(x), y) THEN <<>> ELSE jpp.brackets[y]
    <2>. HIDE DEF own
    <2>. QED
      OBVIOUS
  <1>15. m + 1 \notin Input
    <2>1. Input \subseteq A
      BY EdgesAre DEF Searched
    <2>2. m + 1 \notin A
      BY <1>8
    <2>. QED
      BY <2>1, <2>2
  <1>16. ASSUME \A c \in Kids(x) : Exact(jpp.brackets[c], c)
         PROVE  Exact(br[x], x)
    <2>1. Once(Merged(x), Input) /\ ToSet(Merged(x)) \cap Input = Spanning(search, x)
      BY <1>11, <1>16 DEF Exact
    <2>2. Once(own, Input) /\ ToSet(own) \cap Input = {}
      BY <1>10, <1>15
    <2>. HIDE DEF own, list
    <2>3. Once(list, Input) /\ ToSet(list) \cap Input = Spanning(search, x)
      BY <1>13, <2>1, <2>2
    <2>. QED
      BY <1>14, <2>3 DEF Exact
  <1>17. br \in [Nodes -> Seq(R)]
    <2>. DEFINE S == Seq(R)
    <2>1. \A y \in Nodes : jpp.brackets[y] \in Seq(A)
      BY DEF Searched
    <2>2. \A y \in Nodes : jpp.brackets[y] \in S
      <3>. HIDE DEF A, R
      <3>. QED
        BY <1>9, <2>1, WiderSeq
    <2>3. <<>> \in S
      <3>. HIDE DEF R
      <3>. QED
        OBVIOUS
    <2>4. list \in S
      BY <1>13
    <2>. HIDE DEF S, list, own
    <2>5. \A y \in Nodes : br[y] \in S
      BY <1>14, <2>2, <2>3, <2>4 DEF list
    <2>6. br = [y \in Nodes |-> br[y]]
      OBVIOUS
    <2>. HIDE DEF br
    <2>7. br \in [Nodes -> S]
      BY <2>5, <2>6
    <2>. QED
      BY <2>7 DEF S
  <1>18. \A y \in Nodes \ {x} : y \notin Kids(x) => br[y] = jpp.brackets[y]
    <2>1. \A y : Contains(children(x), y) => y \in Kids(x)
      <3>1. children(x) \in Seq(Nodes) /\ ToSet(children(x)) = Kids(x)
        BY ChildrenAre
      <3>2. DOMAIN children(x) = 1 .. Len(children(x))
        BY <3>1
      <3>. QED
        BY <3>1, <3>2 DEF Contains, ToSet
    <2>. HIDE DEF br
    <2>. QED
      BY <1>14, <2>1
  <1>. DEFINE L == Listed(x)
  <1>. HIDE DEF br, high
  <1>19. L.capping = jpp.capping \o cap /\ L.left = jpp.left - 1 /\ L.hi = high /\ L.brackets = br
    BY <1>2
  <1>20. Len(flow.edges \o L.capping) = m + Len(cap)
    BY <1>8, <1>19
  <1>. HIDE DEF L
  <1>21. L.brackets \in [Nodes -> Seq(1 .. Len(flow.edges \o L.capping))]
    BY <1>17, <1>19, <1>20
  <1>22. L.capping \in Seq([from : Nodes, to : Nodes])
    BY <1>8, <1>19
  <1>23. L.hi \in [Nodes -> 1 .. Unset]
    BY <1>6, <1>19
  <1>24. \A y \in Nodes \ {x} : y \notin Kids(x) => L.brackets[y] = jpp.brackets[y]
    BY <1>18, <1>19
  <1>25. (\A c \in Kids(x) : Exact(jpp.brackets[c], c)) => Exact(L.brackets[x], x)
    BY <1>16, <1>19
  <1>26. \E nc, cs, rc :
           L = [capping |-> L.capping, left |-> L.left, next_class |-> nc, hi |-> L.hi,
                brackets |-> L.brackets, classes |-> cs, recent |-> rc]
    BY <1>3 DEF L
  <1>. QED
    BY <1>19, <1>21, <1>22, <1>23, <1>24, <1>25, <1>26 DEF L

\* The naming of classes leaves the lists alone.
LEMMA ClassifiedKeeps ==
    ASSUME NEW c, NEW l, NEW k, NEW h, NEW b, NEW cs, NEW rc, NEW x
    PROVE  LET j == [capping |-> c, left |-> l, next_class |-> k, hi |-> h, brackets |-> b,
                     classes |-> cs, recent |-> rc]
           IN /\ Classified(j, x).capping = c /\ Classified(j, x).left = l
              /\ Classified(j, x).hi = h /\ Classified(j, x).brackets = b
  BY DEF Classified

\* A list is exact or not, whatever the pass changes elsewhere.
LEMMA FixedExact ==
    ASSUME flow' = flow, search' = search, NEW list, NEW x
    PROVE  Exact(list, x)' <=> Exact(list', x)
  <1>1. Input' = Input
    BY Fixed
  <1>2. \A e : From(e)' = From(e) /\ To(e)' = To(e)
    BY DEF From, To
  <1>3. \A e : tree(e)' <=> tree(e)
    BY Fixed DEF tree
  <1>4. \A y, z : Beneath(search, y, z)' <=> Beneath(search, y, z)
    BY DEF Beneath, Till, Waiting
  <1>5. Spanning(search, x)' = Spanning(search, x)
    BY <1>1, <1>2, <1>3, <1>4 DEF Spanning
  <1>. QED
    BY <1>1, <1>5 DEF Exact

\* One node of the bracket pass.
LEMMA BracketBracketInv == ASSUME SeseInv, BracketInv, Bracket PROVE BracketInv'
  <1>. DEFINE x == Node
              l == jpp.left
              s == search
  <1>1. Searched /\ phase = "brackets" /\ l \in 1 .. flow.n
    <2>1. Net /\ IdsKnown /\ phase = "brackets" /\ l > 0
      BY DEF SeseInv, Bracket
    <2>. QED
      BY <2>1 DEF Searched, BracketInv, Net
  <1>2. /\ x = flow.root \/ Listed(x).brackets[x] # <<>>
        /\ jpp' = IF x = flow.root THEN Listed(x) ELSE Classified(Listed(x), x)
        /\ flow' = flow /\ phase' = phase /\ search' = search
    BY DEF Bracket
  <1>3. x \in Nodes /\ s.number[x] = l
    <2>1. s.preorder \in Seq(Nodes) /\ Len(s.preorder) = flow.n
      BY <1>1, SearchTypes DEF Searched, SearchOK
    <2>2. \A i \in 1 .. Len(s.preorder) : s.number[s.preorder[i]] = i
      BY <1>1 DEF Searched, SearchOK, Numbered
    <2>. QED
      BY <1>1, <2>1, <2>2 DEF Node
  <1>. HIDE DEF x
  <1>4. \A y \in Nodes : s.number[y] \in Nat /\ (s.number[y] = l => y = x)
    <2>1. \A y \in Nodes : s.number[y] \in Nat
      BY <1>1, MetFacts DEF Searched
    <2>2. \A y \in Nodes : s.number[y] = s.number[x] => y = x
      BY <1>1, <1>3, NumbersTell DEF Searched, SearchOK
    <2>. QED
      BY <1>3, <2>1, <2>2
  <1>5. /\ jpp'.capping = Listed(x).capping /\ jpp'.left = Listed(x).left
        /\ jpp'.hi = Listed(x).hi /\ jpp'.brackets = Listed(x).brackets
    <2>1. CASE x = flow.root
      BY <1>2, <2>1
    <2>2. CASE x # flow.root
      <3>. DEFINE L == Listed(x)
      <3>1. PICK nc, cs, rc :
              L = [capping |-> L.capping, left |-> L.left, next_class |-> nc, hi |-> L.hi,
                   brackets |-> L.brackets, classes |-> cs, recent |-> rc]
        BY <1>1, <1>3, BracketedIs
      <3>2. jpp' = Classified(L, x)
        BY <1>2, <2>2
      <3>. HIDE DEF L
      <3>. DEFINE j == [capping |-> L.capping, left |-> L.left, next_class |-> nc, hi |-> L.hi,
                        brackets |-> L.brackets, classes |-> cs, recent |-> rc]
      <3>3. jpp' = Classified(j, x)
        BY <3>1, <3>2
      <3>4. /\ Classified(j, x).capping = L.capping /\ Classified(j, x).left = L.left
            /\ Classified(j, x).hi = L.hi /\ Classified(j, x).brackets = L.brackets
        BY ClassifiedKeeps
      <3>. HIDE DEF j
      <3>. QED
        BY <3>3, <3>4 DEF L
    <2>. QED
      BY <2>1, <2>2
  <1>6. \A c \in Kids(x) : Exact(jpp.brackets[c], c)
    <2>. SUFFICES ASSUME NEW c \in Kids(x)
                  PROVE  Exact(jpp.brackets[c], c)
      OBVIOUS
    <2>1. c \in Nodes \ {flow.root} /\ Up(s, c) = x
      BY DEF Kids
    <2>2. Beneath(s, c, x)
      BY <1>1, <2>1 DEF Searched, SearchOK, Hung
    <2>3. s.number[c] > l /\ s.number[Up(s, c)] <= l
      BY <1>1, <1>3, <1>4, <2>1, <2>2 DEF Beneath
    <2>. QED
      BY <1>1, <2>1, <2>3 DEF BracketInv
  <1>7. /\ jpp'.left = l - 1 /\ jpp'.capping \in Seq([from : Nodes, to : Nodes])
        /\ jpp'.hi \in [Nodes -> 1 .. Unset]
        /\ jpp'.brackets \in [Nodes -> Seq(1 .. Len(flow.edges \o jpp'.capping))]
        /\ \A y \in Nodes \ {x} : y \notin Kids(x) => jpp'.brackets[y] = jpp.brackets[y]
        /\ Exact(jpp'.brackets[x], x)
    BY <1>1, <1>3, <1>5, <1>6, BracketedIs
  <1>8. ASSUME NEW y \in Nodes \ {flow.root},
               s.number[y] > jpp'.left, s.number[Up(s, y)] <= jpp'.left
        PROVE  Exact(jpp'.brackets[y], y)
    <2>1. CASE y = x
      BY <1>7, <2>1
    <2>2. CASE y # x
      <3>1. Up(s, y) \in Nodes
        BY <1>1 DEF Searched, SearchOK, Hung
      <3>2. s.number[y] > l /\ s.number[Up(s, y)] <= l /\ Up(s, y) # x
        BY <1>1, <1>3, <1>4, <1>7, <1>8, <2>2, <3>1
      <3>3. Exact(jpp.brackets[y], y)
        BY <1>1, <3>2 DEF BracketInv
      <3>4. jpp'.brackets[y] = jpp.brackets[y]
        BY <1>7, <2>2, <3>2 DEF Kids
      <3>. QED
        BY <3>3, <3>4
    <2>. QED
      BY <2>1, <2>2
  <1>9. SearchOK(search)' /\ Met(search)' = Met(search) /\ Nodes' = Nodes /\ Unset' = Unset
    <2>1. SearchOK(search') /\ Met(search') = Met(search)
      BY <1>1, <1>2 DEF Searched
    <2>2. Nodes' = Nodes
      BY <1>2, Fixed
    <2>. QED
      BY <1>2, <2>1, <2>2, FixedSearch DEF Unset
  <1>10. \A y : Up(search, y)' = Up(search, y)
    BY <1>2 DEF Up, From, To
  <1>11. edges' = flow.edges \o jpp'.capping
    BY <1>2 DEF edges
  <1>12. \A y \in Nodes : Exact(jpp'.brackets[y], y) => Exact(jpp.brackets[y], y)'
    BY <1>2, FixedExact
  <1>13. jpp'.left \in 0 .. flow.n
    BY <1>1, <1>7 DEF Searched, Net
  <1>14. search'.stack = <<>> /\ Len(search'.preorder) = flow'.n /\ Met(search)' = Nodes'
         /\ phase' = "brackets"
    BY <1>1, <1>2, <1>9 DEF Searched
  <1>15. \A y \in Nodes \ {flow.root} :
            search'.number[y] > jpp'.left /\ search'.number[Up(search, y)'] <= jpp'.left
              => Exact(jpp.brackets[y], y)'
    BY <1>2, <1>8, <1>10, <1>12
  <1>. QED
    BY <1>2, <1>7, <1>9, <1>11, <1>13, <1>14, <1>15 DEF BracketInv

\* Every step keeps the lists right.
LEMMA StepBracketInv == SeseInv /\ BracketInv /\ [Next]_vars => BracketInv'
  <1>. SUFFICES ASSUME SeseInv, BracketInv, [Next]_vars
                PROVE  BracketInv'
    OBVIOUS
  <1>1. ASSUME flow' = flow, search' = search, jpp' = jpp, phase # "search",
               phase' \notin {"search", "brackets"}
        PROVE  BracketInv'
    <2>1. SearchOK(search)' /\ Met(search)' = Met(search) /\ Nodes' = Nodes /\ Unset' = Unset
      <3>1. SearchOK(search')
        BY <1>1 DEF BracketInv
      <3>2. Nodes' = Nodes
        BY <1>1, Fixed
      <3>. QED
        BY <1>1, <3>1, <3>2, FixedSearch DEF Unset
    <2>2. edges' = edges
      BY <1>1 DEF edges
    <2>. QED
      BY <1>1, <2>1, <2>2 DEF BracketInv
  <1>2. CASE Descend
    BY <1>2, DescendBracketInv
  <1>3. CASE Return
    BY <1>3, ReturnBracketInv
  <1>4. CASE Bracket
    BY <1>4, BracketBracketInv
  <1>5. CASE NoBracket
    BY <1>1, <1>5 DEF NoBracket, ClassifyDirectly
  <1>6. CASE Validate
    BY <1>1, <1>6 DEF Validate, ClassifyDirectly
  <1>7. CASE Join
    BY <1>1, <1>7 DEF Join
  <1>8. CASE Label
    BY <1>1, <1>8 DEF Label
  <1>9. CASE Select
    BY <1>1, <1>9 DEF Select
  <1>10. CASE AddRegion
    BY <1>1, <1>10 DEF AddRegion, cycleVars
  <1>11. CASE AssignNodes
    BY <1>1, <1>11 DEF AssignNodes
  <1>12. CASE UNCHANGED vars
    <2>1. flow' = flow /\ search' = search /\ jpp' = jpp /\ phase' = phase
      BY <1>12 DEF vars, cycleVars
    <2>2. SearchOK(search)' /\ Met(search)' = Met(search) /\ Nodes' = Nodes /\ Unset' = Unset
          /\ Blank' = Blank
      <3>1. SearchOK(search')
        BY <2>1 DEF BracketInv
      <3>2. Nodes' = Nodes
        BY <2>1, Fixed
      <3>. QED
        BY <2>1, <3>1, <3>2, FixedSearch DEF Unset
    <2>3. edges' = edges
      BY <2>1 DEF edges
    <2>4. \A y : Up(search, y)' = Up(search, y)
      BY <2>1 DEF Up, From, To
    <2>5. \A y : Exact(jpp.brackets[y], y)' <=> Exact(jpp.brackets[y], y)
      BY <2>1, FixedExact
    <2>. QED
      BY <2>1, <2>2, <2>3, <2>4, <2>5 DEF BracketInv
  <1>13. CASE Done
    BY <1>12, <1>13 DEF Done
  <1>. QED
    BY <1>2, <1>3, <1>4, <1>5, <1>6, <1>7, <1>8, <1>9, <1>10, <1>11, <1>12, <1>13
       DEF Next, Classify, CycleNext

\* The search numbers the nodes in preorder, and the bracket pass keeps for every
\* finished subtree what spans it (Descend, Return and Bracket are the loops of
\* jpp_cycle_classes).
THEOREM BracketInvariant == Spec => [](SeseInv /\ BracketInv)
  <1>1. Init => BracketInv
    BY InitBracketInv
  <1>2. SeseInv /\ BracketInv /\ [Next]_vars => BracketInv'
    BY StepBracketInv
  <1>3. SeseInv /\ [Next]_vars => SeseInv'
    BY StepSeseInv
  <1>4. Init => SeseInv
    BY InitSeseInv
  <1>. QED
    BY <1>1, <1>2, <1>3, <1>4, PTL DEF Spec

\* The lists of the invariant are those of the property.
LEMMA InvBracketsExact == SeseInv /\ BracketInv => BracketsExact
  <1>. SUFFICES ASSUME SeseInv, BracketInv, phase = "brackets",
                       NEW x \in Nodes \ {flow.root}
                PROVE  LET parent == Other(search.parent_edge[x], x)
                           real == Filtered(jpp.brackets[x], Input)
                       IN search.number[x] > jpp.left /\ search.number[parent] <= jpp.left =>
                            /\ IsInjective(real)
                            /\ ToSet(real) =
                                 {e \in Input :
                                    /\ ~tree(e)
                                    /\ \E y, z \in {flow.edges[e].from, flow.edges[e].to} :
                                          (y = x \/ is_descendant(y, x)) /\ is_descendant(x, z)}
    BY DEF BracketsExact
  <1>. DEFINE parent == Other(search.parent_edge[x], x)
              list == jpp.brackets[x]
              real == Filtered(list, Input)
  <1>1. Searched
    BY DEF Searched, SeseInv, BracketInv
  <1>2. parent = Up(search, x)
    <2>1. search.parent_edge[x] \in Input
      BY <1>1 DEF Searched, SearchOK, Hung
    <2>. QED
      BY <1>1, <2>1, EdgesAre DEF Searched, Up
  <1>. SUFFICES ASSUME search.number[x] > jpp.left, search.number[parent] <= jpp.left
                PROVE  /\ IsInjective(real)
                       /\ ToSet(real) =
                            {e \in Input :
                               /\ ~tree(e)
                               /\ \E y, z \in {flow.edges[e].from, flow.edges[e].to} :
                                     (y = x \/ is_descendant(y, x)) /\ is_descendant(x, z)}
    OBVIOUS
  <1>3. Exact(list, x)
    BY <1>2 DEF BracketInv
  <1>4. list \in Seq(1 .. Len(edges))
    BY <1>1 DEF Searched
  <1>. HIDE DEF list
  <1>5. /\ real \in Seq(1 .. Len(edges)) /\ ToSet(real) = ToSet(list) \cap Input
        /\ \A U : Once(list, U) => Once(real, U)
    BY <1>4, FilteredFacts
  <1>6. IsInjective(real)
    <2>. HIDE DEF real
    <2>1. Once(real, Input) /\ \A i \in DOMAIN real : real[i] \in Input
      BY <1>3, <1>5 DEF Exact, ToSet
    <2>. QED
      BY <2>1 DEF Once, IsInjective
  <1>7. \A e \in Input : From(e) \in Nodes /\ To(e) \in Nodes
    BY <1>1 DEF Searched, Net
  <1>8. \A y, z \in Nodes : is_descendant(y, z) <=> Beneath(search, y, z)
    BY <1>1, DescendantIs
  <1>9. Spanning(search, x) =
           {e \in Input :
              /\ ~tree(e)
              /\ \E y, z \in {flow.edges[e].from, flow.edges[e].to} :
                    (y = x \/ is_descendant(y, x)) /\ is_descendant(x, z)}
    BY <1>7, <1>8 DEF Spanning, From, To
  <1>. QED
    BY <1>3, <1>5, <1>6, <1>9 DEF Exact

\* Each back edge out of a finished subtree is in its list once, for every flowgraph
\* (what jpp_cycle_classes concatenates, removes and pushes).
THEOREM BracketsExactAlways == Spec => []BracketsExact
  <1>1. SeseInv /\ BracketInv => BracketsExact
    BY InvBracketsExact
  <1>. QED
    BY <1>1, BracketInvariant, PTL

-----------------------------------------------------------------------------
(* The types of everything a call keeps.                                   *)

\* The forest is on the edges; classes and regions are there from their phase on,
\* and the first region has no parent.
TypeInv ==
    /\ joining.parent \in [Input -> Input] /\ joining.left \subseteq Input \X Input
    /\ phase \in {"search", "brackets", "direct"} => classes = <<>>
    /\ phase \notin {"tree", "done"} => regions = <<>>
    /\ phase \in {"tree", "done"} => regions[1].parent = None

\* Until the classes are there, the forest is known.
LEMMA JoiningTypes ==
    SeseInv /\ phase \in {"search", "brackets", "direct"} =>
      joining.parent \in [Input -> Input] /\ joining.left \subseteq Input \X Input
  <1>. SUFFICES ASSUME SeseInv, phase \in {"search", "brackets", "direct"}
                PROVE  joining.parent \in [Input -> Input] /\ joining.left \subseteq Input \X Input
    OBVIOUS
  <1>1. CASE phase = "direct"
    <2>1. Flat(joining.parent, joining.left)
      BY <1>1 DEF SeseInv
    <2>. QED
      BY <2>1 DEF Flat, Pairs
  <1>2. CASE phase \in {"search", "brackets"}
    BY <1>2 DEF SeseInv
  <1>. QED
    BY <1>1, <1>2

\* The other regions do not disturb the first.
LEMMA FirstParent ==
    ASSUME SeseInv, TreeInv, phase = "tree", regions[1].parent = None,
           AddRegion \/ AssignNodes
    PROVE  regions'[1].parent = None
  <1>1. /\ Shape(regions, todo) /\ Net /\ ClassInv /\ IdsKnown
    BY DEF TreeInv, SeseInv
  <1>2. /\ DOMAIN regions = 1 .. Len(regions) /\ Len(regions) \in Nat /\ 1 \in 1 .. Len(regions)
        /\ regions \in Seq(RegionType)
    BY <1>1, ShapeParts DEF Shape
  <1>3. CASE AddRegion
    <2>. DEFINE c == Head(todo)
                contained == Ids(c.nodes)
                p == Innermost(LAMBDA S : contained \subseteq S)
                k == Len(regions) + 1
                mid == [regions EXCEPT ![p].children = @ \cup {k}]
                r == RegionNamed(p, flow.edges[c.entry].original,
                                 flow.edges[c.exit].original, contained)
    <2>1. regions' = Append(mid, r)
      BY <1>3 DEF AddRegion
    <2>. HIDE DEF r, p, k
    <2>2. mid[1] = IF p = 1 THEN [regions[1] EXCEPT !.children = @ \cup {k}] ELSE regions[1]
      BY <1>2
    <2>3. mid[1].parent = regions[1].parent
      <3>1. regions[1] \in RegionType
        BY <1>2
      <3>2. [regions[1] EXCEPT !.children = @ \cup {k}].parent = regions[1].parent
        BY <3>1 DEF RegionType
      <3>. QED
        BY <2>2, <3>2
    <2>4. Append(mid, r)[1] = mid[1]
      <3>1. DOMAIN mid = 1 .. Len(regions) /\ mid = [i \in 1 .. Len(regions) |-> mid[i]]
        BY <1>2
      <3>. DEFINE T == {mid[i] : i \in 1 .. Len(regions)} \cup {r}
      <3>. HIDE DEF mid
      <3>2. mid \in [1 .. Len(regions) -> T]
        BY <3>1
      <3>. HIDE DEF T
      <3>3. mid \in Seq(T)
        BY <1>2, <3>2, FunctionIsSeq
      <3>4. r \in T
        BY DEF T
      <3>5. Len(mid) = Len(regions)
        BY <1>2, <3>1, <3>3
      <3>. QED
        BY <1>2, <3>3, <3>4, <3>5
    <2>. QED
      BY <2>1, <2>3, <2>4
  <1>4. CASE AssignNodes
    <2>1. regions' = [i \in DOMAIN regions |->
                        [regions[i] EXCEPT !.nodes = {id \in ToSet(flow.ids) : Owner(id) = i}]]
      BY <1>4 DEF AssignNodes
    <2>2. regions[1] \in RegionType
      BY <1>2
    <2>. DEFINE own == {id \in ToSet(flow.ids) : Owner(id) = 1}
    <2>3. regions'[1] = [regions[1] EXCEPT !.nodes = own]
      BY <1>2, <2>1
    <2>. HIDE DEF own
    <2>. QED
      BY <2>2, <2>3 DEF RegionType
  <1>. QED
    BY <1>3, <1>4

\* Every step keeps them.
LEMMA StepTypeInv == SeseInv /\ TreeInv /\ TypeInv /\ [Next]_vars => TypeInv'
  <1>. SUFFICES ASSUME SeseInv, TreeInv, TypeInv, [Next]_vars
                PROVE  TypeInv'
    OBVIOUS
  <1>1. SeseInv' /\ Input' = Input
    <2>1. SeseInv'
      BY StepSeseInv
    <2>2. flow' = flow
      BY DEF Next, Classify, CycleNext, Descend, Return, Bracket, NoBracket, Validate, Join,
             Label, Select, AddRegion, AssignNodes, Done, vars, cycleVars
    <2>. QED
      BY <2>1, <2>2, Fixed
  <1>2. (joining.parent \in [Input -> Input] /\ joining.left \subseteq Input \X Input)'
    <2>1. phase' \in {"search", "brackets", "direct"} \/ joining' = joining
      BY DEF Next, Classify, CycleNext, Descend, Return, Bracket, NoBracket, Validate, Join,
             ClassifyDirectly, Label, Select, AddRegion, AssignNodes, Done, vars, cycleVars
    <2>2. CASE joining' = joining
      BY <1>1, <2>2 DEF TypeInv
    <2>3. CASE phase' \in {"search", "brackets", "direct"}
      <3>1. (SeseInv /\ phase \in {"search", "brackets", "direct"} =>
              joining.parent \in [Input -> Input] /\ joining.left \subseteq Input \X Input)'
        BY JoiningTypes, PTL
      <3>. QED
        BY <1>1, <2>3, <3>1
    <2>. QED
      BY <2>1, <2>2, <2>3
  <1>3. CASE Classify
    BY <1>2, <1>3 DEF TypeInv, Classify, CycleNext, Descend, Return, Bracket, NoBracket, Validate,
                      ClassifyDirectly, Join, Label
  <1>4. CASE Select
    <2>. DEFINE r == RegionNamed(None, None, None, ToSet(flow.ids))
    <2>1. regions' = <<r>> /\ phase' = "tree"
      BY <1>4 DEF Select
    <2>2. r.parent = None
      BY DEF RegionNamed
    <2>. HIDE DEF r
    <2>. QED
      BY <1>2, <2>1, <2>2 DEF TypeInv
  <1>5. CASE AddRegion \/ AssignNodes
    <2>1. phase = "tree" /\ phase' \in {"tree", "done"}
      BY <1>5 DEF AddRegion, AssignNodes, cycleVars
    <2>2. regions'[1].parent = None
      BY <1>5, <2>1, FirstParent DEF TypeInv
    <2>. QED
      BY <1>2, <2>1, <2>2 DEF TypeInv
  <1>6. CASE UNCHANGED vars
    BY <1>2, <1>6 DEF TypeInv, vars, cycleVars
  <1>. QED
    BY <1>3, <1>4, <1>5, <1>6 DEF Next, Done

\* The types follow from the invariants.
LEMMA InvTypeOK == SeseInv /\ BracketInv /\ TreeInv /\ TypeInv => TypeOK
  <1>. SUFFICES ASSUME SeseInv, BracketInv, TreeInv, TypeInv
                PROVE  TypeOK
    OBVIOUS
  <1>1. Net /\ IdsKnown
    BY DEF SeseInv
  <1>2. /\ search.stack \in Seq(Nodes) /\ search.preorder \in Seq(Nodes)
        /\ search.number \in [Nodes -> 1 .. Unset]
        /\ search.parent_edge \in [Nodes -> 0 .. Len(flow.edges)]
    <2>1. Net /\ search \in SearchType
      BY <1>1 DEF BracketInv, SearchOK
    <2>. QED
      BY <2>1, SearchTypes
  <1>3. /\ jpp.left \in 0 .. flow.n /\ jpp.hi \in [Nodes -> 1 .. Unset]
        /\ \A x \in Nodes : jpp.brackets[x] \in Seq(1 .. Len(edges))
    <2>1. CASE phase = "search"
      <3>1. jpp = Blank
        BY <2>1 DEF BracketInv
      <3>2. flow.n \in Nat /\ Unset \in 1 .. Unset
        BY <1>1 DEF Net, Unset
      <3>3. /\ jpp.left = 0 /\ jpp.hi = [x \in Nodes |-> Unset]
            /\ jpp.brackets = [x \in Nodes |-> <<>>]
        BY <3>1 DEF Blank
      <3>. DEFINE A == 1 .. Len(edges)
      <3>4. <<>> \in Seq(A)
        <4>. HIDE DEF A
        <4>. QED
          OBVIOUS
      <3>. QED
        BY <3>2, <3>3, <3>4
    <2>2. CASE phase # "search"
      BY <2>2 DEF BracketInv
    <2>. QED
      BY <2>1, <2>2
  <1>4. classes \in {<<>>} \cup [Input -> Nat \ {0}]
    BY DEF SeseInv, TypeInv, ClassInv
  <1>5. \A i \in DOMAIN regions : regions[i].parent \in (1 .. i - 1) \cup {None}
    <2>1. CASE phase \in {"tree", "done"}
      <3>1. Shape(regions, todo) /\ regions[1].parent = None
        BY <2>1 DEF TreeInv, TypeInv
      <3>2. DOMAIN regions = 1 .. Len(regions) /\ Len(regions) \in Nat
        BY <3>1 DEF Shape
      <3>3. \A i \in 2 .. Len(regions) : regions[i].parent \in 1 .. i - 1
        BY <3>1 DEF Shape, Parented
      <3>. QED
        BY <3>1, <3>2, <3>3
    <2>2. CASE phase \notin {"tree", "done"}
      <3>1. regions = <<>> /\ DOMAIN <<>> = {}
        BY <2>2 DEF TypeInv
      <3>. QED
        BY <3>1
    <2>. QED
      BY <2>1, <2>2
  <1>6. phase \in {"search", "brackets", "direct", "classified", "tree", "done"}
    BY DEF SeseInv
  <1>7. joining.parent \in [Input -> Input] /\ joining.left \subseteq Input \X Input
    BY DEF TypeInv
  <1>. QED
    BY <1>2, <1>3, <1>4, <1>5, <1>6, <1>7 DEF TypeOK

\* Everything keeps its type through a call of compute_sese.
THEOREM TypeOKAlways == Spec => []TypeOK
  <1>1. Init => TypeInv
    <2>. SUFFICES ASSUME Init
                  PROVE  TypeInv
      OBVIOUS
    <2>1. PICK g \in Graphs : Call(Flowgraph(g)) /\ todo = <<>> /\ regions = <<>>
      BY DEF Init
    <2>2. phase = "search" /\ classes = <<>>
      BY <2>1 DEF Call
    <2>. QED
      BY <2>1, <2>2, InitSeseInv, JoiningTypes DEF TypeInv
  <1>2. SeseInv /\ TreeInv /\ TypeInv /\ [Next]_vars => TypeInv'
    BY StepTypeInv
  <1>3. SeseInv /\ BracketInv /\ TreeInv /\ TypeInv => TypeOK
    BY InvTypeOK
  <1>. QED
    BY <1>1, <1>2, <1>3, BracketInvariant, TreeInvariant, PTL DEF Spec

=============================================================================
