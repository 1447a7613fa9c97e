-------------------------- MODULE DominatorsProofs --------------------------
(***************************************************************************)
(* compute_dominators is correct for every graph: the semidominators, the  *)
(* dominator tree and the frontiers are the ones the paths define.         *)
(*                                                                         *)
(* The proof goes in three parts.  The first is about a graph whose nodes  *)
(* are numbered by a depth-first search, and about no algorithm: what      *)
(* semidominators say of dominators.  The second follows one state of the  *)
(* algorithm through the operators of Dominators: path compression, the    *)
(* loop over predecessors, the buckets.  The third is the inductive        *)
(* invariant of the specification, and what it says of the nodes.          *)
(***************************************************************************)
EXTENDS Dominators, VecsProofs

-----------------------------------------------------------------------------
(***************************************************************************)
(* Part 1: a graph numbered depth first.                                   *)
(***************************************************************************)

\* The descendants of u in the tree of the search.
Desc(n, par, u) ==
    {v \in 1 .. n : \A S \in SUBSET (1 .. n) :
        u \in S /\ (\A c \in 2 .. n : par[c] \in S => c \in S) => v \in S}

\* What is reached from the numbers in A through numbers in T.
Reach(n, out, A, T) ==
    {v \in 1 .. n : \A S \in SUBSET (1 .. n) :
        A \subseteq S /\ (\A m \in S \cap T : out[m] \subseteq S) => v \in S}

\* A depth-first search numbered the graph: an edge to a larger number leads
\* to a descendant, past nothing but descendants.
Tree(n, par, out) ==
    /\ out \in [1 .. n -> SUBSET (1 .. n)]
    /\ \A c \in 2 .. n : par[c] \in 1 .. c - 1 /\ c \in out[par[c]]
    /\ \A x \in 1 .. n : \A y \in out[x] : \A c \in x + 1 .. y : c \in Desc(n, par, x)

-----------------------------------------------------------------------------
(* The tree of the search. *)

\* The descendants of u are a set of numbers that holds u and the children of
\* its members.
LEMMA DescFacts ==
    ASSUME NEW n \in Nat, NEW par, NEW u \in 1 .. n
    PROVE  /\ Desc(n, par, u) \subseteq 1 .. n
           /\ u \in Desc(n, par, u)
           /\ \A c \in 2 .. n : par[c] \in Desc(n, par, u) => c \in Desc(n, par, u)
  <1>1. \A c \in 2 .. n : c \in 1 .. n
    OBVIOUS
  <1>. QED
    BY <1>1 DEF Desc

\* They are the least such set.
LEMMA DescLeast ==
    ASSUME NEW n \in Nat, NEW par, NEW u \in 1 .. n, NEW S \in SUBSET (1 .. n),
           u \in S, \A c \in 2 .. n : par[c] \in S => c \in S
    PROVE  Desc(n, par, u) \subseteq S
  BY DEF Desc

\* A descendant other than u has its parent among the descendants.
LEMMA DescParent ==
    ASSUME NEW n \in Nat, NEW par, NEW u \in 1 .. n, NEW v \in Desc(n, par, u), v # u
    PROVE  v \in 2 .. n /\ par[v] \in Desc(n, par, u)
  <1>. DEFINE D == Desc(n, par, u)
              S == {x \in D : x = u \/ (x \in 2 .. n /\ par[x] \in D)}
  <1>1. D \subseteq 1 .. n /\ u \in D /\ \A c \in 2 .. n : par[c] \in D => c \in D
    BY DescFacts
  <1>2. S \in SUBSET (1 .. n) /\ u \in S
    BY <1>1
  <1>3. \A c \in 2 .. n : par[c] \in S => c \in S
    BY <1>1
  <1>. HIDE DEF S
  <1>4. D \subseteq S
    BY <1>2, <1>3, DescLeast
  <1>. QED
    BY <1>4 DEF S

\* Descent is transitive.
LEMMA DescTrans ==
    ASSUME NEW n \in Nat, NEW par, NEW u \in 1 .. n, NEW v \in Desc(n, par, u)
    PROVE  Desc(n, par, v) \subseteq Desc(n, par, u)
  <1>1. Desc(n, par, u) \in SUBSET (1 .. n) /\ v \in 1 .. n
        /\ \A c \in 2 .. n : par[c] \in Desc(n, par, u) => c \in Desc(n, par, u)
    BY DescFacts
  <1>. QED
    BY <1>1, DescLeast

\* A descendant other than r descends from a child of r.
LEMMA ChildOnPath ==
    ASSUME NEW n \in Nat, NEW par, NEW r \in 1 .. n, NEW v \in Desc(n, par, r), v # r
    PROVE  \E x \in 2 .. n : par[x] = r /\ v \in Desc(n, par, x)
  <1>. DEFINE D == Desc(n, par, r)
              S == {y \in D : y = r \/ \E x \in 2 .. n : par[x] = r /\ y \in Desc(n, par, x)}
  <1>1. D \subseteq 1 .. n /\ r \in D /\ \A c \in 2 .. n : par[c] \in D => c \in D
    BY DescFacts
  <1>2. S \in SUBSET (1 .. n) /\ r \in S
    BY <1>1
  <1>3. ASSUME NEW c \in 2 .. n, par[c] \in S
        PROVE  c \in S
    <2>1. c \in D
      BY <1>1, <1>3
    <2>2. CASE par[c] = r
      <3>1. c \in 1 .. n
        OBVIOUS
      <3>2. c \in Desc(n, par, c)
        BY <3>1, DescFacts
      <3>. QED
        BY <2>1, <2>2, <3>2
    <2>3. CASE par[c] # r
      <3>1. PICK x \in 2 .. n : par[x] = r /\ par[c] \in Desc(n, par, x)
        BY <1>3, <2>3
      <3>2. x \in 1 .. n
        OBVIOUS
      <3>3. c \in Desc(n, par, x)
        BY <3>1, <3>2, DescFacts
      <3>. QED
        BY <2>1, <3>1, <3>3
    <2>. QED
      BY <2>2, <2>3
  <1>. HIDE DEF S
  <1>4. D \subseteq S
    BY <1>2, <1>3, DescLeast
  <1>. QED
    BY <1>4 DEF S

\* A descendant has a larger number.
LEMMA DescAbove ==
    ASSUME NEW n \in Nat, NEW par, \A c \in 2 .. n : par[c] \in 1 .. c - 1,
           NEW u \in 1 .. n
    PROVE  Desc(n, par, u) \subseteq u .. n
  <1>1. u .. n \in SUBSET (1 .. n) /\ u \in u .. n
    OBVIOUS
  <1>2. \A c \in 2 .. n : par[c] \in u .. n => c \in u .. n
    OBVIOUS
  <1>. QED
    BY <1>1, <1>2, DescLeast

\* Everything descends from the root.
LEMMA AllFromRoot ==
    ASSUME NEW n \in Nat, NEW par, \A c \in 2 .. n : par[c] \in 1 .. c - 1,
           NEW v \in 1 .. n
    PROVE  v \in Desc(n, par, 1)
  <1>. DEFINE D == Desc(n, par, 1)
              Out == (1 .. n) \ D
  <1>0. 1 \in 1 .. n
    OBVIOUS
  <1>1. 1 \in D /\ \A c \in 2 .. n : par[c] \in D => c \in D
    BY <1>0, DescFacts
  <1>. SUFFICES ASSUME v \notin D PROVE FALSE
    OBVIOUS
  <1>2. Out \in SUBSET Nat /\ Out # {}
    OBVIOUS
  <1>. HIDE DEF Out
  <1>3. PICK x \in Out : \A y \in Out : x <= y
    BY <1>2, LeastNat
  <1>. HIDE DEF D
  <1>4. x \in 1 .. n /\ x \notin D /\ x # 1
    BY <1>1, <1>3 DEF Out
  <1>5. x \in 2 .. n
    BY <1>4
  <1>6. par[x] \in 1 .. x - 1 /\ par[x] \notin D
    BY <1>1, <1>4, <1>5
  <1>7. par[x] \in Out
    BY <1>6, <1>5 DEF Out
  <1>. QED
    BY <1>3, <1>5, <1>6, <1>7

\* The numbers between a node and its descendant are descendants.
LEMMA Interval ==
    ASSUME NEW n \in Nat, NEW par, NEW out, Tree(n, par, out),
           NEW u \in 1 .. n, NEW v \in Desc(n, par, u), NEW c \in u .. v
    PROVE  c \in Desc(n, par, u)
  <1>. DEFINE D == Desc(n, par, u)
              S == {y \in D : u .. y \subseteq D}
  <1>1. D \subseteq 1 .. n /\ u \in D /\ \A k \in 2 .. n : par[k] \in D => k \in D
    BY DescFacts
  <1>2. S \in SUBSET (1 .. n) /\ u \in S
    BY <1>1
  <1>3. ASSUME NEW k \in 2 .. n, par[k] \in S
        PROVE  k \in S
    <2>1. par[k] \in D /\ par[k] \in 1 .. n /\ k \in 1 .. n /\ k \in D /\ k \in Nat
      BY <1>1, <1>3
    <2>2. k \in out[par[k]]
      BY DEF Tree
    <2>3. \A m \in par[k] + 1 .. k : m \in Desc(n, par, par[k])
      BY <2>1, <2>2 DEF Tree
    <2>4. Desc(n, par, par[k]) \subseteq D
      BY <2>1, DescTrans
    <2>5. par[k] \in Nat /\ \A m \in u .. par[k] : m \in D
      BY <1>3, <2>1
    <2>6. ASSUME NEW m \in u .. k
          PROVE  m \in D
      <3>1. m \in u .. par[k] \/ m \in par[k] + 1 .. k
        BY <2>5, <2>1
      <3>. QED
        BY <3>1, <2>3, <2>4, <2>5
    <2>. QED
      BY <2>1, <2>6
  <1>. HIDE DEF S
  <1>4. D \subseteq S
    BY <1>2, <1>3, DescLeast
  <1>. QED
    BY <1>4 DEF S

\* Vertex s starts a path to x that passes only through numbers above x.
SP(n, out, s, x) == x \in Reach(n, out, out[s], x + 1 .. n)

\* The numbers reached from the root, 1, without passing through d.
Beside(n, out, d) == Reach(n, out, {1} \ {d}, (1 .. n) \ {d})

\* Every path from the root to x passes through d.
DomN(n, out, d, x) == d = x \/ x \notin Beside(n, out, d)

\* d is the closest of the strict dominators of x.
IsIdom(n, out, d, x) ==
    /\ d # x /\ DomN(n, out, d, x)
    /\ \A e \in 1 .. n : e # x /\ DomN(n, out, e, x) => DomN(n, out, e, d)

-----------------------------------------------------------------------------
(* Reachability. *)

\* What is reached holds the start and the successors of what is passed.
LEMMA ReachFacts ==
    ASSUME NEW n \in Nat, NEW out \in [1 .. n -> SUBSET (1 .. n)],
           NEW A \in SUBSET (1 .. n), NEW T
    PROVE  /\ Reach(n, out, A, T) \subseteq 1 .. n
           /\ A \subseteq Reach(n, out, A, T)
           /\ \A m \in Reach(n, out, A, T) \cap T : out[m] \subseteq Reach(n, out, A, T)
  <1>1. \A m \in 1 .. n : out[m] \subseteq 1 .. n
    OBVIOUS
  <1>. QED
    BY <1>1 DEF Reach

\* It is the least such set.
LEMMA ReachLeast ==
    ASSUME NEW n \in Nat, NEW out, NEW A, NEW T,
           NEW S \in SUBSET (1 .. n), A \subseteq S, \A m \in S \cap T : out[m] \subseteq S
    PROVE  Reach(n, out, A, T) \subseteq S
  BY DEF Reach

\* A larger start and more to pass reach more.
LEMMA ReachMono ==
    ASSUME NEW n \in Nat, NEW out \in [1 .. n -> SUBSET (1 .. n)],
           NEW A \in SUBSET (1 .. n), NEW T, NEW B \in SUBSET A, NEW U \in SUBSET T
    PROVE  Reach(n, out, B, U) \subseteq Reach(n, out, A, T)
  <1>. DEFINE S == Reach(n, out, A, T)
  <1>1. S \in SUBSET (1 .. n) /\ A \subseteq S /\ \A m \in S \cap T : out[m] \subseteq S
    BY ReachFacts
  <1>2. B \subseteq S /\ \A m \in S \cap U : out[m] \subseteq S
    BY <1>1
  <1>. HIDE DEF S
  <1>3. Reach(n, out, B, U) \subseteq S
    BY <1>1, <1>2, ReachLeast
  <1>. QED
    BY <1>3 DEF S

\* A set that holds x, and the successors of its members from x on, holds the
\* descendants of x.
LEMMA ReachDown ==
    ASSUME NEW n \in Nat, NEW par, NEW out, Tree(n, par, out),
           NEW Z, NEW x \in 1 .. n, x \in Z,
           \A y \in Z \cap (x .. n) : out[y] \subseteq Z
    PROVE  Desc(n, par, x) \subseteq Z
  <1>. DEFINE D == Desc(n, par, x)
              S == Z \cap D
  <1>1. D \subseteq 1 .. n /\ x \in D /\ \A c \in 2 .. n : par[c] \in D => c \in D
    BY DescFacts
  <1>2. D \subseteq x .. n
    BY DescAbove DEF Tree
  <1>3. \A c \in 2 .. n : c \in out[par[c]]
    BY DEF Tree
  <1>4. S \in SUBSET (1 .. n) /\ x \in S
    BY <1>1
  <1>5. \A c \in 2 .. n : par[c] \in S => c \in S
    BY <1>1, <1>2, <1>3
  <1>. HIDE DEF S
  <1>6. D \subseteq S
    BY <1>4, <1>5, DescLeast
  <1>. QED
    BY <1>6 DEF S

-----------------------------------------------------------------------------
(* Paths through larger numbers. *)

\* The end of such a path from a smaller number is a descendant.
LEMMA SemiAncestor ==
    ASSUME NEW n \in Nat, NEW par, NEW out, Tree(n, par, out),
           NEW x \in 1 .. n, NEW s \in 1 .. n, s < x, SP(n, out, s, x)
    PROVE  x \in Desc(n, par, s)
  <1>. DEFINE S == 1 .. x - 1
  <1>0. out \in [1 .. n -> SUBSET (1 .. n)] /\ out[s] \subseteq 1 .. n
    BY DEF Tree
  <1>1. PICK y \in out[s] : y \notin S
    <2>1. SUFFICES ASSUME out[s] \subseteq S PROVE FALSE
      OBVIOUS
    <2>2. S \in SUBSET (1 .. n) /\ S \cap (x + 1 .. n) = {} /\ x \notin S
      OBVIOUS
    <2>. HIDE DEF S
    <2>3. Reach(n, out, out[s], x + 1 .. n) \subseteq S
      BY <2>1, <2>2, ReachLeast
    <2>. QED
      BY <2>2, <2>3 DEF SP
  <1>2. y \in 1 .. n
    BY <1>0
  <1>3. x \in s + 1 .. y
    BY <1>1, <1>2
  <1>. QED
    BY <1>3 DEF Tree

\* An edge is such a path.
LEMMA SemiEdge ==
    ASSUME NEW n \in Nat, NEW out \in [1 .. n -> SUBSET (1 .. n)],
           NEW s \in 1 .. n, NEW x \in out[s]
    PROVE  SP(n, out, s, x)
  <1>1. out[s] \in SUBSET (1 .. n)
    OBVIOUS
  <1>. QED
    BY <1>1, ReachFacts DEF SP

\* A path to u above x, down the tree to v and over an edge to x.
LEMMA SemiSound ==
    ASSUME NEW n \in Nat, NEW par, NEW out, Tree(n, par, out),
           NEW x \in 1 .. n, NEW s \in 1 .. n, NEW u \in 1 .. n, u > x,
           SP(n, out, s, u), NEW v \in Desc(n, par, u), x \in out[v]
    PROVE  SP(n, out, s, x)
  <1>. DEFINE R == Reach(n, out, out[s], x + 1 .. n)
  <1>0. out \in [1 .. n -> SUBSET (1 .. n)] /\ out[s] \in SUBSET (1 .. n)
    BY DEF Tree
  <1>1. R \subseteq 1 .. n /\ \A m \in R \cap (x + 1 .. n) : out[m] \subseteq R
    BY <1>0, ReachFacts
  <1>2. u \in R
    <2>1. u + 1 .. n \in SUBSET (x + 1 .. n) /\ out[s] \in SUBSET out[s]
      OBVIOUS
    <2>2. Reach(n, out, out[s], u + 1 .. n) \subseteq R
      BY <1>0, <2>1, ReachMono
    <2>. QED
      BY <2>2 DEF SP
  <1>. HIDE DEF R
  <1>3. \A y \in R \cap (u .. n) : out[y] \subseteq R
    <2>1. u .. n \subseteq x + 1 .. n
      OBVIOUS
    <2>. QED
      BY <1>1, <2>1
  <1>4. Desc(n, par, u) \subseteq R
    BY <1>2, <1>3, ReachDown
  <1>5. v \in x + 1 .. n
    <2>1. v \in u .. n
      BY DescAbove DEF Tree
    <2>. QED
      BY <2>1
  <1>6. x \in R
    BY <1>1, <1>4, <1>5
  <1>. QED
    BY <1>6 DEF R, SP

\* P is closed upwards above b: the member of P with the smallest number on a
\* path above b is reached above itself.
LEMMA FirstCrossing ==
    ASSUME NEW n \in Nat, NEW par, NEW out, Tree(n, par, out),
           NEW A \in SUBSET (1 .. n), NEW b \in Nat, NEW P \in SUBSET (b + 1 .. n),
           \A y \in P : \A m \in b + 1 .. n : y \in Desc(n, par, m) => m \in P,
           NEW u \in P, u \in Reach(n, out, A, (b + 1 .. n) \ P)
    PROVE  u \in Reach(n, out, A, u + 1 .. n)
  <1>. DEFINE Above == u + 1 .. n
              Free == (b + 1 .. n) \ P
              R == Reach(n, out, A, Above)
              S == R \cup (1 .. u - 1)
  <1>0. out \in [1 .. n -> SUBSET (1 .. n)] /\ u \in 1 .. n /\ u \in Nat
    BY DEF Tree
  <1>1. R \subseteq 1 .. n /\ A \subseteq R /\ \A m \in R \cap Above : out[m] \subseteq R
    <2>. HIDE DEF Above
    <2>. QED
      BY <1>0, ReachFacts
  <1>2. S \in SUBSET (1 .. n) /\ A \subseteq S
    BY <1>0, <1>1
  <1>3. ASSUME NEW m \in S \cap Free
        PROVE  out[m] \subseteq S
    <2>1. m \in 1 .. n /\ m # u
      BY <1>2
    <2>2. CASE m > u
      <3>1. m \in u + 1 .. n /\ m \notin 1 .. u - 1
        BY <1>0, <2>1, <2>2
      <3>. QED
        BY <1>1, <3>1
    <2>3. CASE m < u
      <3>1. ASSUME NEW y \in out[m], y \notin 1 .. u - 1
            PROVE  FALSE
        <4>1. y \in 1 .. n
          BY <1>0, <2>1
        <4>2. u \in m + 1 .. y
          BY <1>0, <2>1, <2>3, <3>1, <4>1
        <4>3. u \in Desc(n, par, m)
          BY <2>1, <4>2 DEF Tree
        <4>. QED
          BY <1>3, <4>3
      <3>. QED
        BY <3>1
    <2>. QED
      BY <1>0, <2>1, <2>2, <2>3
  <1>4. u \in Reach(n, out, A, Free)
    OBVIOUS
  <1>. HIDE DEF S, Free
  <1>5. Reach(n, out, A, Free) \subseteq S
    BY <1>2, <1>3, ReachLeast
  <1>6. u \notin 1 .. u - 1
    BY <1>0
  <1>. QED
    BY <1>4, <1>5, <1>6 DEF S

\* The last part of a path to x that is not an edge: down the tree from some u
\* above x, reached above itself.
LEMMA SemiComplete ==
    ASSUME NEW n \in Nat, NEW par, NEW out, Tree(n, par, out),
           NEW x \in 1 .. n, NEW s \in 1 .. n, SP(n, out, s, x)
    PROVE  \/ x \in out[s]
           \/ \E v \in 1 .. n : \E u \in x + 1 .. n :
                 x \in out[v] /\ v \in Desc(n, par, u) /\ SP(n, out, s, u)
  <1>. DEFINE T == x + 1 .. n
              R == Reach(n, out, out[s], T)
  <1>. SUFFICES ASSUME x \notin out[s]
                PROVE  \E v \in 1 .. n : \E u \in x + 1 .. n :
                          x \in out[v] /\ v \in Desc(n, par, u) /\ SP(n, out, s, u)
    OBVIOUS
  <1>0. out \in [1 .. n -> SUBSET (1 .. n)] /\ out[s] \in SUBSET (1 .. n)
    BY DEF Tree
  <1>1. R \subseteq 1 .. n /\ out[s] \subseteq R /\ \A m \in R \cap T : out[m] \subseteq R
    BY <1>0, ReachFacts
  <1>2. x \in R
    BY DEF SP
  <1>3. PICK v \in R \cap T : x \in out[v]
    <2>1. SUFFICES ASSUME \A v \in R \cap T : x \notin out[v] PROVE FALSE
      OBVIOUS
    <2>. DEFINE S == R \ {x}
    <2>2. S \in SUBSET (1 .. n) /\ out[s] \subseteq S
      BY <1>1
    <2>3. \A m \in S \cap T : out[m] \subseteq S
      BY <1>1, <2>1
    <2>. HIDE DEF S, T
    <2>4. Reach(n, out, out[s], T) \subseteq S
      BY <2>2, <2>3, ReachLeast
    <2>. QED
      BY <1>2, <2>4 DEF S
  <1>. DEFINE P == {m \in T : v \in Desc(n, par, m)}
              Free == T \ P
              Q == Reach(n, out, out[s], Free)
  <1>4. v \in 1 .. n /\ v \in P
    <2>1. v \in 1 .. n /\ v \in T
      BY <1>1
    <2>. QED
      BY <2>1, DescFacts
  <1>5. Q \subseteq 1 .. n /\ out[s] \subseteq Q /\ \A m \in Q \cap Free : out[m] \subseteq Q
    <2>. HIDE DEF Free
    <2>. QED
      BY <1>0, ReachFacts
  <1>6. PICK u \in P : u \in Q
    <2>1. SUFFICES ASSUME P \cap Q = {} PROVE FALSE
      OBVIOUS
    <2>2. \A m \in Q \cap T : out[m] \subseteq Q
      BY <1>5, <2>1
    <2>. HIDE DEF Q, T, P
    <2>3. Reach(n, out, out[s], T) \subseteq Q
      BY <1>5, <2>2, ReachLeast
    <2>. QED
      BY <1>3, <1>4, <2>1, <2>3
  <1>7. \A y \in P : \A m \in x + 1 .. n : y \in Desc(n, par, m) => m \in P
    <2>1. \A y \in P, m \in x + 1 .. n : m \in 1 .. n
      OBVIOUS
    <2>. QED
      BY <2>1, DescTrans
  <1>8. P \in SUBSET (x + 1 .. n) /\ x \in Nat
    OBVIOUS
  <1>9. u \in Reach(n, out, out[s], (x + 1 .. n) \ P)
    BY <1>6
  <1>10. v \in Desc(n, par, u) /\ u \in x + 1 .. n
    OBVIOUS
  <1>. HIDE DEF P, Q
  <1>11. SP(n, out, s, u)
    BY <1>0, <1>7, <1>8, <1>9, FirstCrossing DEF SP
  <1>. QED
    BY <1>3, <1>4, <1>10, <1>11

-----------------------------------------------------------------------------
(* Dominance. *)

\* What is reached beside d.
LEMMA BesideFacts ==
    ASSUME NEW n \in Nat, NEW out \in [1 .. n -> SUBSET (1 .. n)], NEW d
    PROVE  /\ Beside(n, out, d) \subseteq 1 .. n
           /\ n > 0 /\ d # 1 => 1 \in Beside(n, out, d)
           /\ \A m \in Beside(n, out, d) : m # d => out[m] \subseteq Beside(n, out, d)
  <1>. DEFINE A == {1} \ {d}
              T == (1 .. n) \ {d}
  <1>1. CASE n = 0
    BY <1>1 DEF Beside, Reach
  <1>2. CASE n # 0
    <2>1. A \in SUBSET (1 .. n)
      BY <1>2
    <2>. DEFINE R == Reach(n, out, A, T)
    <2>2. R \subseteq 1 .. n /\ A \subseteq R /\ \A m \in R \cap T : out[m] \subseteq R
      <3>. HIDE DEF A, T
      <3>. QED
        BY <2>1, ReachFacts
    <2>3. R = Beside(n, out, d)
      BY DEF Beside
    <2>. HIDE DEF R
    <2>. QED
      BY <2>2, <2>3
  <1>. QED
    BY <1>1, <1>2

\* It is the least such set.
LEMMA BesideLeast ==
    ASSUME NEW n \in Nat, NEW out, NEW d,
           NEW S \in SUBSET (1 .. n), 1 # d => 1 \in S, \A m \in S : m # d => out[m] \subseteq S
    PROVE  Beside(n, out, d) \subseteq S
  <1>. DEFINE A == {1} \ {d}
              T == (1 .. n) \ {d}
  <1>1. A \subseteq S /\ \A m \in S \cap T : out[m] \subseteq S
    OBVIOUS
  <1>2. Beside(n, out, d) = Reach(n, out, A, T)
    BY DEF Beside
  <1>. HIDE DEF A, T
  <1>3. Reach(n, out, A, T) \subseteq S
    BY <1>1, ReachLeast
  <1>. QED
    BY <1>2, <1>3

\* The root is not reached beside itself.
LEMMA BesideRoot ==
    ASSUME NEW n \in Nat, NEW out
    PROVE  Beside(n, out, 1) = {}
  <1>. DEFINE S == {}
  <1>1. S \in SUBSET (1 .. n) /\ \A m \in S : m # 1 => out[m] \subseteq S
    OBVIOUS
  <1>. HIDE DEF S
  <1>2. Beside(n, out, 1) \subseteq S
    BY <1>1, BesideLeast
  <1>. QED
    BY <1>2 DEF S

\* What does not descend from d is reached beside it.
LEMMA BesideTree ==
    ASSUME NEW n \in Nat, NEW par, NEW out, Tree(n, par, out),
           NEW d \in 1 .. n, NEW y \in 1 .. n, y \notin Desc(n, par, d)
    PROVE  y \in Beside(n, out, d)
  <1>. DEFINE D == Desc(n, par, d)
              Z == Beside(n, out, d)
              Missed == {x \in 1 .. n : x \notin D /\ x \notin Z}
  <1>0. out \in [1 .. n -> SUBSET (1 .. n)]
    BY DEF Tree
  <1>1. d \in D /\ \A c \in 2 .. n : par[c] \in D => c \in D
    BY DescFacts
  <1>2. (d # 1 => 1 \in Z) /\ \A m \in Z : m # d => out[m] \subseteq Z
    BY <1>0, BesideFacts
  <1>. SUFFICES ASSUME Missed # {} PROVE FALSE
    OBVIOUS
  <1>3. Missed \in SUBSET Nat
    OBVIOUS
  <1>. HIDE DEF Missed
  <1>4. PICK x \in Missed : \A k \in Missed : x <= k
    BY <1>3, LeastNat
  <1>. HIDE DEF D, Z
  <1>5. x \in 1 .. n /\ x \notin D /\ x \notin Z /\ x # 1
    BY <1>1, <1>2, <1>4 DEF Missed
  <1>6. x \in 2 .. n
    BY <1>5
  <1>7. par[x] \in 1 .. x - 1 /\ x \in out[par[x]]
    BY <1>6 DEF Tree
  <1>8. par[x] \notin D /\ par[x] \notin Z
    BY <1>1, <1>2, <1>5, <1>6, <1>7
  <1>9. par[x] \in 1 .. n /\ ~(x <= par[x])
    BY <1>6, <1>7
  <1>. QED
    BY <1>4, <1>8, <1>9 DEF Missed

\* A strict dominator is a proper ancestor.
LEMMA DomAncestor ==
    ASSUME NEW n \in Nat, NEW par, NEW out, Tree(n, par, out),
           NEW d \in 1 .. n, NEW x \in 1 .. n, DomN(n, out, d, x)
    PROVE  x \in Desc(n, par, d) /\ d <= x
  <1>1. x \in Desc(n, par, d)
    BY BesideTree, DescFacts DEF DomN
  <1>2. x \in d .. n
    BY <1>1, DescAbove DEF Tree
  <1>. QED
    BY <1>1, <1>2

\* A strict dominator of z dominates the ancestors of z below itself.
LEMMA DomPath ==
    ASSUME NEW n \in Nat, NEW par, NEW out, Tree(n, par, out),
           NEW d \in 1 .. n, NEW x \in 1 .. n, d < x, NEW z \in Desc(n, par, x),
           DomN(n, out, d, z)
    PROVE  DomN(n, out, d, x)
  <1>. DEFINE Z == Beside(n, out, d)
  <1>0. out \in [1 .. n -> SUBSET (1 .. n)]
    BY DEF Tree
  <1>1. \A m \in Z : m # d => out[m] \subseteq Z
    BY <1>0, BesideFacts
  <1>2. z # d
    <2>1. z \in x .. n
      BY DescAbove DEF Tree
    <2>. QED
      BY <2>1
  <1>3. z \notin Z
    BY <1>2 DEF DomN
  <1>. HIDE DEF Z
  <1>4. \A y \in Z \cap (x .. n) : out[y] \subseteq Z
    <2>1. \A y \in x .. n : y # d
      OBVIOUS
    <2>. QED
      BY <1>1, <2>1
  <1>5. x \in Z => FALSE
    BY <1>3, <1>4, ReachDown
  <1>. QED
    BY <1>5 DEF DomN, Z

\* A path through larger numbers avoids what lies between its ends.
LEMMA SemiBeside ==
    ASSUME NEW n \in Nat, NEW par, NEW out, Tree(n, par, out),
           NEW x \in 1 .. n, NEW s \in 1 .. n, SP(n, out, s, x),
           NEW d \in s + 1 .. x - 1
    PROVE  ~DomN(n, out, d, x)
  <1>. DEFINE Z == Beside(n, out, d)
              Above == x + 1 .. n
  <1>0. out \in [1 .. n -> SUBSET (1 .. n)] /\ d \in 1 .. n /\ s # d /\ d # x /\ d \notin Above
    BY DEF Tree
  <1>1. \A m \in Z : m # d => out[m] \subseteq Z
    BY <1>0, BesideFacts
  <1>2. Z \in SUBSET (1 .. n)
    BY <1>0, BesideFacts
  <1>3. s \in Z
    <2>1. Desc(n, par, d) \subseteq d .. n
      BY <1>0, DescAbove DEF Tree
    <2>2. s \notin Desc(n, par, d)
      BY <2>1
    <2>. QED
      BY <1>0, <2>2, BesideTree
  <1>4. x \in Reach(n, out, out[s], Above)
    BY DEF SP
  <1>. HIDE DEF Z, Above
  <1>5. Reach(n, out, out[s], Above) \subseteq Z
    BY <1>0, <1>1, <1>2, <1>3, ReachLeast
  <1>. QED
    BY <1>0, <1>4, <1>5 DEF DomN, Z

\* A strict dominator is no larger than what starts a path through larger
\* numbers.
LEMMA DomBelowSemi ==
    ASSUME NEW n \in Nat, NEW par, NEW out, Tree(n, par, out),
           NEW x \in 1 .. n, NEW s \in 1 .. n, s < x, SP(n, out, s, x),
           NEW d \in 1 .. n, d # x, DomN(n, out, d, x)
    PROVE  d <= s
  <1>1. d <= x
    BY DomAncestor
  <1>2. d \notin s + 1 .. x - 1
    BY SemiBeside
  <1>. QED
    BY <1>1, <1>2

\* s dominates its descendant z when no path from below s enters the tree path
\* between them.
LEMMA DomFromSemi ==
    ASSUME NEW n \in Nat, NEW par, NEW out, Tree(n, par, out),
           NEW s \in 1 .. n, NEW z \in Desc(n, par, s),
           \A u \in s + 1 .. n : z \in Desc(n, par, u) =>
               \A x \in 1 .. s - 1 : ~SP(n, out, x, u)
    PROVE  DomN(n, out, s, z)
  <1>. SUFFICES ASSUME z # s PROVE z \notin Beside(n, out, s)
    BY DEF DomN
  <1>. DEFINE Above == s + 1 .. n
              P == {u \in Above : z \in Desc(n, par, u)}
              Free == Above \ P
              R(x) == Reach(n, out, out[x], Free)
              S == (1 .. s) \cup {y \in Above : \E x \in 1 .. s - 1 : y \in R(x)}
  <1>0. out \in [1 .. n -> SUBSET (1 .. n)] /\ z \in s .. n
    BY DescAbove DEF Tree
  <1>1. z \in P /\ z \notin 1 .. s
    BY <1>0, DescFacts
  <1>2. \A x \in 1 .. n : /\ R(x) \subseteq 1 .. n /\ out[x] \subseteq R(x)
                          /\ \A m \in R(x) \cap Free : out[m] \subseteq R(x)
    <2>1. \A x \in 1 .. n : out[x] \in SUBSET (1 .. n)
      BY <1>0
    <2>. HIDE DEF Free
    <2>. QED
      BY <1>0, <2>1, ReachFacts
  <1>3. ASSUME NEW x \in 1 .. s - 1, NEW u \in P, u \in R(x)
        PROVE  FALSE
    <2>1. \A y \in P : \A m \in s + 1 .. n : y \in Desc(n, par, m) => m \in P
      <3>1. \A y \in P, m \in s + 1 .. n : m \in 1 .. n
        OBVIOUS
      <3>. QED
        BY <3>1, DescTrans
    <2>2. P \in SUBSET (s + 1 .. n) /\ s \in Nat /\ x \in 1 .. n
      OBVIOUS
    <2>3. out[x] \in SUBSET (1 .. n) /\ u \in Reach(n, out, out[x], (s + 1 .. n) \ P)
      BY <1>0, <1>3, <2>2
    <2>4. u \in s + 1 .. n /\ z \in Desc(n, par, u)
      OBVIOUS
    <2>. HIDE DEF P, Free
    <2>5. u \in Reach(n, out, out[x], u + 1 .. n)
      BY <2>1, <2>2, <2>3, FirstCrossing
    <2>. QED
      BY <2>4, <2>5 DEF SP
  <1>4. S \in SUBSET (1 .. n) /\ 1 \in S
    OBVIOUS
  <1>5. S \cap P = {}
    <2>1. (1 .. s) \cap Above = {}
      OBVIOUS
    <2>. HIDE DEF R
    <2>. QED
      BY <1>3, <2>1
  <1>6. ASSUME NEW m \in S, m # s
        PROVE  out[m] \subseteq S
    <2>1. m \in 1 .. n /\ out[m] \subseteq 1 .. n /\ 1 .. n = (1 .. s) \cup Above
      BY <1>0, <1>4
    <2>2. CASE m \in 1 .. s
      <3>1. m \in 1 .. s - 1
        BY <1>6, <2>2
      <3>2. out[m] \subseteq R(m)
        BY <1>2, <2>1
      <3>. HIDE DEF R, Above
      <3>. QED
        BY <2>1, <3>1, <3>2
    <2>3. CASE m \notin 1 .. s
      <3>1. PICK x \in 1 .. s - 1 : m \in R(x)
        BY <2>3
      <3>2. m \in Free
        BY <1>5, <2>3
      <3>3. x \in 1 .. n
        OBVIOUS
      <3>4. out[m] \subseteq R(x)
        BY <1>2, <3>1, <3>2, <3>3
      <3>. HIDE DEF R, Above
      <3>. QED
        BY <2>1, <3>1, <3>4
    <2>. QED
      BY <2>2, <2>3
  <1>. HIDE DEF S
  <1>7. Beside(n, out, s) \subseteq S
    BY <1>4, <1>6, BesideLeast
  <1>. QED
    BY <1>1, <1>5, <1>7

\* Dominance is transitive.
LEMMA DomTrans ==
    ASSUME NEW n \in Nat, NEW out \in [1 .. n -> SUBSET (1 .. n)],
           NEW a \in 1 .. n, NEW b \in 1 .. n, NEW c \in 1 .. n,
           DomN(n, out, a, b), DomN(n, out, b, c)
    PROVE  DomN(n, out, a, c)
  <1>. DEFINE ZA == Beside(n, out, a)
              ZB == Beside(n, out, b)
              S == ZA \cap ZB
  <1>. SUFFICES ASSUME a # b, b # c, c \in ZA PROVE FALSE
    BY DEF DomN
  <1>1. b \notin ZA /\ c \notin ZB
    BY DEF DomN
  <1>2. /\ ZA \subseteq 1 .. n /\ (a # 1 => 1 \in ZA)
        /\ \A m \in ZA : m # a => out[m] \subseteq ZA
    BY BesideFacts
  <1>3. /\ ZB \subseteq 1 .. n /\ (b # 1 => 1 \in ZB)
        /\ \A m \in ZB : m # b => out[m] \subseteq ZB
    BY BesideFacts
  <1>4. a = 1 => ZA = {}
    BY BesideRoot
  <1>5. b # 1
    BY <1>1, <1>2, <1>4
  <1>. HIDE DEF ZA, ZB
  <1>6. S \in SUBSET (1 .. n) /\ (1 # a => 1 \in S) /\ \A m \in S : m # a => out[m] \subseteq S
    BY <1>1, <1>2, <1>3, <1>5
  <1>. HIDE DEF S
  <1>7. ZA \subseteq S
    BY <1>6, BesideLeast DEF ZA
  <1>. QED
    BY <1>1, <1>7 DEF S

\* Two numbers that dominate each other are one.
LEMMA DomAntisymmetric ==
    ASSUME NEW n \in Nat, NEW par, NEW out, Tree(n, par, out),
           NEW a \in 1 .. n, NEW b \in 1 .. n, DomN(n, out, a, b), DomN(n, out, b, a)
    PROVE  a = b
  <1>1. a <= b /\ b <= a
    BY DomAncestor
  <1>. QED
    BY <1>1

\* s is the semidominator of x.
IsSemi(n, out, s, x) ==
    s \in 1 .. x - 1 /\ SP(n, out, s, x) /\ \A v \in 1 .. s - 1 : ~SP(n, out, v, x)

\* No vertex between s and z has a smaller semidominator: s is the immediate
\* dominator.
LEMMA IdomIsSemi ==
    ASSUME NEW n \in Nat, NEW par, NEW out, Tree(n, par, out),
           NEW z \in 1 .. n, NEW s \in 1 .. n, IsSemi(n, out, s, z),
           \A u \in s + 1 .. n : z \in Desc(n, par, u) =>
               \A x \in 1 .. s - 1 : ~SP(n, out, x, u)
    PROVE  IsIdom(n, out, s, z)
  <1>1. s < z /\ SP(n, out, s, z)
    BY DEF IsSemi
  <1>2. z \in Desc(n, par, s)
    BY <1>1, SemiAncestor
  <1>3. DomN(n, out, s, z)
    BY <1>2, DomFromSemi
  <1>4. ASSUME NEW e \in 1 .. n, e # z, DomN(n, out, e, z)
        PROVE  DomN(n, out, e, s)
    <2>1. e <= s
      BY <1>1, <1>4, DomBelowSemi
    <2>2. CASE e = s
      BY <2>2 DEF DomN
    <2>3. CASE e < s
      BY <1>2, <1>4, <2>3, DomPath
    <2>. QED
      BY <2>1, <2>2, <2>3
  <1>. QED
    BY <1>1, <1>3, <1>4 DEF IsIdom

\* Otherwise the vertex with the smallest one shares its immediate dominator.
LEMMA IdomIsShared ==
    ASSUME NEW n \in Nat, NEW par, NEW out, Tree(n, par, out),
           NEW z \in 1 .. n, NEW s \in 1 .. n, IsSemi(n, out, s, z),
           NEW u \in s + 1 .. z - 1, z \in Desc(n, par, u),
           NEW t \in 1 .. n, IsSemi(n, out, t, u), t < s,
           \A y \in s + 1 .. n : z \in Desc(n, par, y) =>
               \A x \in 1 .. t - 1 : ~SP(n, out, x, y),
           NEW d \in 1 .. n, IsIdom(n, out, d, u)
    PROVE  IsIdom(n, out, d, z)
  <1>0. out \in [1 .. n -> SUBSET (1 .. n)]
    BY DEF Tree
  <1>1. s < z /\ SP(n, out, s, z) /\ u \in 1 .. n /\ u < z
        /\ t < u /\ SP(n, out, t, u)
    BY DEF IsSemi
  <1>2. d # u /\ DomN(n, out, d, u)
    BY DEF IsIdom
  <1>3. d <= t /\ d < s /\ d < u
    <2>1. d <= t
      BY <1>1, <1>2, DomBelowSemi
    <2>. QED
      BY <1>1, <2>1
  <1>4. u \in Desc(n, par, d) /\ z \in Desc(n, par, d)
    <2>1. u \in Desc(n, par, d)
      BY <1>1, <1>2, DomAncestor
    <2>. QED
      BY <1>1, <2>1, DescTrans
  <1>5. ASSUME NEW y \in d + 1 .. n, z \in Desc(n, par, y), NEW x \in 1 .. d - 1,
               SP(n, out, x, y)
        PROVE  FALSE
    <2>1. CASE y > s
      <3>1. y \in s + 1 .. n /\ x \in 1 .. t - 1
        BY <1>3, <2>1
      <3>. QED
        BY <1>5, <3>1
    <2>2. CASE y <= s
      <3>1. y \in 1 .. n /\ u \in y .. z /\ d < y /\ x \in 1 .. n
        BY <1>1, <2>2
      <3>2. u \in Desc(n, par, y)
        BY <1>5, <3>1, Interval
      <3>3. DomN(n, out, d, y)
        BY <1>2, <3>1, <3>2, DomPath
      <3>4. d \in x + 1 .. y - 1
        BY <3>1
      <3>. QED
        BY <1>5, <3>1, <3>3, <3>4, SemiBeside
    <2>. QED
      BY <1>1, <2>1, <2>2
  <1>6. DomN(n, out, d, z)
    BY <1>4, <1>5, DomFromSemi
  <1>7. ASSUME NEW e \in 1 .. n, e # z, DomN(n, out, e, z)
        PROVE  DomN(n, out, e, d)
    <2>1. e <= s
      BY <1>1, <1>7, DomBelowSemi
    <2>2. e < u /\ e # u
      BY <1>1, <2>1
    <2>3. DomN(n, out, e, u)
      BY <1>1, <1>7, <2>2, DomPath
    <2>. QED
      BY <2>2, <2>3 DEF IsIdom
  <1>. QED
    BY <1>1, <1>3, <1>6, <1>7 DEF IsIdom

\* An immediate dominator dominates every predecessor.
LEMMA IdomOfPred ==
    ASSUME NEW n \in Nat, NEW out \in [1 .. n -> SUBSET (1 .. n)],
           NEW d \in 1 .. n, NEW x \in 1 .. n, d # x, DomN(n, out, d, x),
           NEW p \in 1 .. n, x \in out[p]
    PROVE  DomN(n, out, d, p)
  BY BesideFacts DEF DomN

\* The only predecessor of a number dominates it.
LEMMA OnlyPredDominates ==
    ASSUME NEW n \in Nat, NEW out \in [1 .. n -> SUBSET (1 .. n)],
           NEW x \in 2 .. n, NEW p \in 1 .. n, p # x,
           \A m \in 1 .. n : x \in out[m] => m = p
    PROVE  DomN(n, out, p, x)
  <1>. DEFINE Z == Beside(n, out, p)
              S == Z \ {x}
  <1>1. /\ Z \subseteq 1 .. n /\ (p # 1 => 1 \in Z)
        /\ \A m \in Z : m # p => out[m] \subseteq Z
    BY BesideFacts
  <1>. HIDE DEF Z
  <1>2. S \in SUBSET (1 .. n) /\ (1 # p => 1 \in S) /\ \A m \in S : m # p => out[m] \subseteq S
    BY <1>1
  <1>. HIDE DEF S
  <1>3. Z \subseteq S
    BY <1>2, BesideLeast DEF Z
  <1>. QED
    BY <1>3 DEF DomN, S, Z

-----------------------------------------------------------------------------
(***************************************************************************)
(* Part 2: the operators of the algorithm.                                 *)
(***************************************************************************)

-----------------------------------------------------------------------------
(* Path compression. *)

\* The state of the algorithm once n vertices are numbered.
LtStates(n) ==
    [vertex : [1 .. n -> Nodes], parent : [1 .. n -> 0 .. n], semi : [1 .. n -> 1 .. n],
     idom : [1 .. n -> 0 .. n], ancestor : [1 .. n -> 0 .. n], label : [1 .. n -> 1 .. n],
     bucket : [1 .. n -> Seq(1 .. n)], pred : [1 .. n -> Seq(1 .. n)]]

\* Two states that differ in the forest only.
Alike(s, t) == /\ t.vertex = s.vertex /\ t.parent = s.parent /\ t.semi = s.semi
               /\ t.idom = s.idom /\ t.bucket = s.bucket /\ t.pred = s.pred

\* The tree path from a down to x, without a.
Path(n, s, a, x) == {y \in a + 1 .. n : x \in Desc(n, s.parent, y)}

\* The forest entries of x when the vertices above b are linked: the label is
\* on the path from the ancestor, and no semidominator below it is smaller.
Linked(n, s, b, x) ==
    LET a == s.ancestor[x]
    IN /\ a \in 1 .. x - 1 /\ x \in Desc(n, s.parent, a)
       /\ s.label[x] >= a /\ x \in Desc(n, s.parent, s.label[x])
       /\ \A y \in Path(n, s, a, x) : y > b /\ s.semi[s.label[x]] <= s.semi[y]

\* The vertices above b are linked, the others are roots.
Forest(n, s, b) ==
    \A x \in 1 .. n : IF x > b THEN Linked(n, s, b, x)
                               ELSE s.ancestor[x] = 0 /\ s.label[x] = x

\* A write to the two entries of x in the forest.
Rewritten(s, x, l, a) == [s EXCEPT !.label[x] = l, !.ancestor[x] = a]

\* The entries that such a write leaves.
ForestWrites(n, s, t, x, l, a) ==
    /\ t \in LtStates(n) /\ Alike(s, t) /\ t.ancestor[x] = a /\ t.label[x] = l
    /\ \A y \in 1 .. n : y # x => t.label[y] = s.label[y] /\ t.ancestor[y] = s.ancestor[y]

\* The entry of x skips its ancestor a, whose own path is compressed.
Skipped(s, x, a) == Rewritten(s, x, Better(s, a, x), s.ancestor[a])

-----------------------------------------------------------------------------
\* What it leaves alone.
LEMMA ForestWrite ==
    ASSUME NEW n \in Nat, NEW s \in LtStates(n), NEW x \in 1 .. n,
           NEW l \in 1 .. n, NEW a \in 0 .. n,
           NEW t, t = Rewritten(s, x, l, a)
    PROVE  ForestWrites(n, s, t, x, l, a)
  <1>1. Alike(s, t)
    BY DEF LtStates, Alike, Rewritten
  <1>2. t.label = [s.label EXCEPT ![x] = l] /\ t.ancestor = [s.ancestor EXCEPT ![x] = a]
    BY DEF LtStates, Rewritten
  <1>3. t \in LtStates(n)
    BY DEF LtStates, Rewritten
  <1>4. s.label \in [1 .. n -> 1 .. n] /\ s.ancestor \in [1 .. n -> 0 .. n]
    BY DEF LtStates
  <1>5. /\ t.ancestor[x] = a /\ t.label[x] = l
        /\ \A y \in 1 .. n : y # x => t.label[y] = s.label[y] /\ t.ancestor[y] = s.ancestor[y]
    BY <1>2, <1>4
  <1>. QED
    BY <1>1, <1>3, <1>5 DEF ForestWrites

\* The forest entries of x after it skips its ancestor a.
Skips(n, s, t, b, x, a) ==
    /\ t \in LtStates(n) /\ Alike(s, t) /\ Forest(n, t, b)
    /\ t.ancestor[x] = s.ancestor[a]
    /\ \A y \in 1 .. n : y # x => t.label[y] = s.label[y] /\ t.ancestor[y] = s.ancestor[y]

\* The step of compress from the ancestor to x.
LEMMA CompressStep ==
    ASSUME NEW n \in Nat, NEW out, NEW b \in Nat, NEW s \in LtStates(n),
           Tree(n, s.parent, out), Forest(n, s, b),
           NEW x \in b + 1 .. n, NEW a \in b + 1 .. n, a = s.ancestor[x]
    PROVE  Skips(n, s, Skipped(s, x, a), b, x, a)
  <1>. DEFINE t == Skipped(s, x, a)
              aa == s.ancestor[a]
              l == Better(s, a, x)
  <1>1. x \in 1 .. n /\ a \in 1 .. n /\ x > b /\ a > b
    OBVIOUS
  <1>2. Linked(n, s, b, x) /\ Linked(n, s, b, a)
    BY <1>1 DEF Forest
  <1>3. /\ a \in 1 .. x - 1 /\ x \in Desc(n, s.parent, a)
        /\ s.label[x] >= a /\ x \in Desc(n, s.parent, s.label[x])
        /\ \A y \in Path(n, s, a, x) : y > b /\ s.semi[s.label[x]] <= s.semi[y]
    BY <1>2 DEF Linked
  <1>4. /\ aa \in 1 .. a - 1 /\ a \in Desc(n, s.parent, aa)
        /\ s.label[a] >= aa /\ a \in Desc(n, s.parent, s.label[a])
        /\ \A y \in Path(n, s, aa, a) : y > b /\ s.semi[s.label[a]] <= s.semi[y]
    BY <1>2 DEF Linked
  <1>5. /\ s.label \in [1 .. n -> 1 .. n] /\ s.ancestor \in [1 .. n -> 0 .. n]
        /\ s.semi \in [1 .. n -> 1 .. n]
    BY DEF LtStates
  <1>6. /\ s.label[a] \in 1 .. n /\ s.label[x] \in 1 .. n
        /\ s.semi[s.label[a]] \in 1 .. n /\ s.semi[s.label[x]] \in 1 .. n /\ aa \in 0 .. n
    BY <1>1, <1>5
  <1>7. /\ l = s.label[a] \/ l = s.label[x]
        /\ s.semi[l] <= s.semi[s.label[a]] /\ s.semi[l] <= s.semi[s.label[x]]
    BY <1>6 DEF Better
  <1>8. l \in 1 .. n /\ s.semi[l] \in 1 .. n
    BY <1>6, <1>7
  <1>. HIDE DEF l, aa
  <1>9. t = Rewritten(s, x, l, aa)
    BY DEF Skipped, l, aa
  <1>. HIDE DEF t
  <1>11. /\ t \in LtStates(n) /\ Alike(s, t) /\ t.ancestor[x] = aa /\ t.label[x] = l
         /\ \A y \in 1 .. n : y # x => t.label[y] = s.label[y] /\ t.ancestor[y] = s.ancestor[y]
    <2>1. x \in 1 .. n /\ l \in 1 .. n /\ aa \in 0 .. n
      BY <1>1, <1>6, <1>8
    <2>2. s \in LtStates(n)
      OBVIOUS
    <2>. QED
      <3>1. ForestWrites(n, s, t, x, l, aa)
        BY ONLY <2>1, <2>2, <1>9, n \in Nat, ForestWrite, Zenon
      <3>. QED
        BY <3>1 DEF ForestWrites
  <1>12. t.parent = s.parent /\ t.semi = s.semi
    BY <1>11 DEF Alike
  <1>13. \A k, y : Path(n, t, k, y) = Path(n, s, k, y)
    BY <1>12 DEF Path
  <1>14. Linked(n, t, b, x)
    <2>1. aa \in 1 .. x - 1 /\ aa \in 1 .. n
      BY <1>1, <1>3, <1>4
    <2>2. x \in Desc(n, s.parent, aa)
      BY <1>3, <1>4, <2>1, DescTrans
    <2>3. x \in Desc(n, s.parent, s.label[a])
      BY <1>3, <1>4, <1>6, DescTrans
    <2>4. s.label[x] >= aa
      BY <1>1, <1>3, <1>4, <1>6
    <2>5. l >= aa /\ x \in Desc(n, s.parent, l)
      BY <1>3, <1>4, <1>7, <2>3, <2>4
    <2>6. ASSUME NEW y \in Path(n, s, aa, x)
          PROVE  y > b /\ s.semi[l] <= s.semi[y]
      <3>1. y \in aa + 1 .. n /\ x \in Desc(n, s.parent, y) /\ y \in 1 .. n
        BY <2>1 DEF Path
      <3>2. s.semi[y] \in 1 .. n
        BY <1>5, <3>1
      <3>3. CASE y > a
        <4>1. y \in Path(n, s, a, x)
          BY <1>1, <3>1, <3>3 DEF Path
        <4>2. y > b /\ s.semi[s.label[x]] <= s.semi[y]
          BY <1>3, <4>1
        <4>. QED
          BY <1>6, <1>7, <1>8, <3>2, <4>2
      <3>4. CASE y <= a
        <4>1. a \in y .. x
          BY <1>1, <1>3, <3>1, <3>4
        <4>2. a \in Desc(n, s.parent, y)
          BY <3>1, <4>1, Interval
        <4>3. y \in Path(n, s, aa, a)
          BY <3>1, <4>2 DEF Path
        <4>4. y > b /\ s.semi[s.label[a]] <= s.semi[y]
          BY <1>4, <4>3
        <4>. QED
          BY <1>6, <1>7, <1>8, <3>2, <4>4
      <3>. QED
        BY <1>1, <3>1, <3>3, <3>4
    <2>. QED
      BY <1>11, <1>12, <1>13, <2>1, <2>2, <2>5, <2>6 DEF Linked
  <1>15. ASSUME NEW y \in 1 .. n, y # x
         PROVE  IF y > b THEN Linked(n, t, b, y) ELSE t.ancestor[y] = 0 /\ t.label[y] = y
    <2>1. IF y > b THEN Linked(n, s, b, y) ELSE s.ancestor[y] = 0 /\ s.label[y] = y
      BY DEF Forest
    <2>2. t.label[y] = s.label[y] /\ t.ancestor[y] = s.ancestor[y]
      BY <1>11, <1>15
    <2>. QED
      BY <2>1, <2>2, <1>12, <1>13 DEF Linked
  <1>16. Forest(n, t, b)
    BY <1>1, <1>14, <1>15 DEF Forest
  <1>. QED
    BY <1>11, <1>16 DEF t, aa, Skips

\* The recursion of compress up to x.
CompressBody(s, c, x) ==
    LET a == s.ancestor[x]
    IN IF a # 0 /\ s.ancestor[a] # 0
       THEN [c[a] EXCEPT !.label[x] = Better(c[a], a, x), !.ancestor[x] = c[a].ancestor[a]]
       ELSE s

\* c solves the recursion of compress.
Compresses(s, v, c) == c = [x \in 1 .. v |-> CompressBody(s, c, x)]

\* Such a function exists: an ancestor has a smaller number.
LEMMA CompressExists ==
    ASSUME NEW n \in Nat, NEW s, \A x \in 1 .. n : s.ancestor[x] \in 0 .. x - 1
    PROVE  \A v \in 0 .. n : \E c : Compresses(s, v, c)
  <1>. DEFINE T == {v \in Nat : v <= n => \E c : Compresses(s, v, c)}
  <1>1. 0 \in T
    <2>1. Compresses(s, 0, [x \in 1 .. 0 |-> s])
      BY DEF Compresses
    <2>. QED
      BY <2>1
  <1>2. ASSUME NEW v \in Nat, v \in T
        PROVE  v + 1 \in T
    <2>. SUFFICES ASSUME v + 1 <= n PROVE \E c : Compresses(s, v + 1, c)
      OBVIOUS
    <2>1. PICK c : Compresses(s, v, c)
      BY <1>2
    <2>. DEFINE z == CompressBody(s, c, v + 1)
                g == [x \in 1 .. v + 1 |-> IF x = v + 1 THEN z ELSE c[x]]
    <2>2. \A x \in 1 .. v : c[x] = CompressBody(s, c, x)
      BY <2>1 DEF Compresses
    <2>3. /\ g = [x \in 1 .. v + 1 |-> g[x]] /\ g[v + 1] = z
          /\ \A x \in 1 .. v : g[x] = c[x]
      <3>. HIDE DEF z
      <3>1. g = [x \in 1 .. v + 1 |-> g[x]] /\ g[v + 1] = z
        OBVIOUS
      <3>2. \A x \in 1 .. v : x \in 1 .. v + 1 /\ x # v + 1
        OBVIOUS
      <3>3. \A x \in 1 .. v : g[x] = c[x]
        BY <3>2
      <3>. QED
        BY <3>1, <3>3
    <2>. HIDE DEF g, z
    <2>4. ASSUME NEW x \in 1 .. v + 1
          PROVE  g[x] = CompressBody(s, g, x)
      <3>1. x \in 1 .. n /\ (s.ancestor[x] # 0 => s.ancestor[x] \in 1 .. v)
        <4>1. x \in 1 .. n
          OBVIOUS
        <4>2. s.ancestor[x] \in 0 .. x - 1
          BY <4>1
        <4>. QED
          BY <4>1, <4>2
      <3>2. CompressBody(s, g, x) = CompressBody(s, c, x)
        <4>. DEFINE a == s.ancestor[x]
        <4>1. CASE a = 0
          BY <4>1 DEF CompressBody
        <4>2. CASE a # 0
          <5>1. g[a] = c[a]
            BY <2>3, <3>1, <4>2
          <5>. QED
            BY <5>1 DEF CompressBody
        <4>. QED
          BY <4>1, <4>2
      <3>3. CASE x = v + 1
        BY <2>3, <3>2, <3>3 DEF z
      <3>4. CASE x # v + 1
        <4>1. x \in 1 .. v
          BY <3>4
        <4>. QED
          BY <2>2, <2>3, <3>2, <4>1
      <3>. QED
        BY <3>3, <3>4
    <2>5. Compresses(s, v + 1, g)
      BY <2>3, <2>4 DEF Compresses
    <2>. QED
      BY <2>5
  <1>3. Nat \subseteq T
    <2>. HIDE DEF T
    <2>. QED
      BY <1>1, <1>2, NatCovered
  <1>. QED
    BY <1>3

\* The state after the path of x is compressed.
Compressed(n, s, t, b, x) ==
    /\ t \in LtStates(n) /\ Alike(s, t) /\ Forest(n, t, b)
    /\ t.ancestor[x] <= b
    /\ \A y \in x + 1 .. n : t.label[y] = s.label[y] /\ t.ancestor[y] = s.ancestor[y]

\* What the types say of one entry.
LEMMA LtTypes ==
    ASSUME NEW n \in Nat, NEW s \in LtStates(n), NEW x \in 1 .. n
    PROVE  /\ s.vertex[x] \in Nodes /\ s.parent[x] \in 0 .. n /\ s.semi[x] \in 1 .. n
           /\ s.idom[x] \in 0 .. n /\ s.ancestor[x] \in 0 .. n /\ s.label[x] \in 1 .. n
           /\ s.bucket[x] \in Seq(1 .. n) /\ s.pred[x] \in Seq(1 .. n)
           /\ s.semi[s.label[x]] \in 1 .. n
  BY DEF LtStates

\* Being alike is transitive.
LEMMA AlikeTrans ==
    ASSUME NEW s, NEW t, NEW r, Alike(s, t), Alike(t, r)
    PROVE  Alike(s, r)
  BY DEF Alike

\* compress keeps the forest and leads x to the root of its tree.
LEMMA CompressFacts ==
    ASSUME NEW n \in Nat, NEW out, NEW b \in Nat, NEW s \in LtStates(n),
           Tree(n, s.parent, out), Forest(n, s, b), NEW v \in b + 1 .. n
    PROVE  Compressed(n, s, compress(s, v), b, v)
  <1>. DEFINE c == CHOOSE c : Compresses(s, v, c)
              Wrong == {x \in b + 1 .. v : ~Compressed(n, s, c[x], b, x)}
  <1>1. \A x \in 1 .. n : s.ancestor[x] \in 0 .. x - 1
    BY DEF Forest, Linked
  <1>2. Compresses(s, v, c)
    <2>1. v \in 0 .. n
      OBVIOUS
    <2>2. \E f : Compresses(s, v, f)
      BY <1>1, <2>1, CompressExists
    <2>. QED
      BY <2>2
  <1>3. compress(s, v) = c[v]
    BY DEF compress, Compresses, CompressBody
  <1>. HIDE DEF c
  <1>4. \A x \in 1 .. v : c[x] = CompressBody(s, c, x)
    BY <1>2 DEF Compresses
  <1>5. Wrong = {}
    <2>. SUFFICES ASSUME Wrong # {} PROVE FALSE
      OBVIOUS
    <2>1. Wrong \in SUBSET Nat
      OBVIOUS
    <2>. HIDE DEF Wrong
    <2>2. PICK x \in Wrong : \A y \in Wrong : x <= y
      BY <2>1, LeastNat
    <2>3. x \in b + 1 .. v /\ x \in 1 .. v /\ x \in b + 1 .. n /\ x \in 1 .. n /\ x > b
          /\ ~Compressed(n, s, c[x], b, x)
      BY <2>2 DEF Wrong
    <2>. DEFINE a == s.ancestor[x]
    <2>4. a \in 1 .. x - 1
      BY <2>3 DEF Forest, Linked
    <2>5. a \in 1 .. n /\ a \in Nat /\ a # 0
      BY <2>3, <2>4
    <2>6. c[x] = CompressBody(s, c, x)
      BY <1>4, <2>3
    <2>7. CASE a <= b
      <3>1. s.ancestor[a] = 0
        BY <2>5, <2>7 DEF Forest
      <3>2. c[x] = s
        BY <2>6, <3>1 DEF CompressBody
      <3>3. Compressed(n, s, s, b, x)
        BY <2>7 DEF Compressed, Alike
      <3>. QED
        BY <2>3, <3>2, <3>3
    <2>8. CASE a > b
      <3>1. a \in b + 1 .. v /\ a \in b + 1 .. n /\ ~(x <= a)
        BY <2>3, <2>4, <2>8
      <3>2. s.ancestor[a] # 0
        BY <2>5, <2>8 DEF Forest, Linked
      <3>3. Compressed(n, s, c[a], b, a)
        BY <2>2, <3>1 DEF Wrong
      <3>. DEFINE r == c[a]
      <3>4. /\ r \in LtStates(n) /\ Alike(s, r) /\ Forest(n, r, b) /\ r.ancestor[a] <= b
            /\ \A y \in a + 1 .. n : r.label[y] = s.label[y] /\ r.ancestor[y] = s.ancestor[y]
        BY <3>3 DEF Compressed
      <3>5. x \in a + 1 .. n
        BY <2>3, <2>4
      <3>6. a = r.ancestor[x]
        BY <3>4, <3>5
      <3>7. Tree(n, r.parent, out)
        BY <3>4 DEF Alike
      <3>8. c[x] = Skipped(r, x, a)
        BY <2>5, <2>6, <3>2 DEF CompressBody, Skipped, Rewritten
      <3>. DEFINE t == Skipped(r, x, a)
      <3>. HIDE DEF r, a
      <3>9. /\ t \in LtStates(n) /\ Alike(r, t) /\ Forest(n, t, b)
            /\ t.ancestor[x] = r.ancestor[a]
            /\ \A y \in 1 .. n : y # x => t.label[y] = r.label[y] /\ t.ancestor[y] = r.ancestor[y]
        <4>1. Skips(n, r, t, b, x, a)
          BY <2>3, <3>1, <3>4, <3>6, <3>7, CompressStep, Zenon
        <4>. QED
          BY <4>1 DEF Skips
      <3>. HIDE DEF t
      <3>10. \A y \in x + 1 .. n : t.label[y] = s.label[y] /\ t.ancestor[y] = s.ancestor[y]
        <4>1. \A y \in x + 1 .. n : y \in 1 .. n /\ y # x /\ y \in a + 1 .. n
          BY <2>3, <2>4, <2>5 DEF a
        <4>. QED
          BY <3>4, <3>9, <4>1
      <3>11. Alike(s, t)
        BY <3>4, <3>9, AlikeTrans
      <3>12. t.ancestor[x] <= b
        BY <3>4, <3>9
      <3>13. Compressed(n, s, t, b, x)
        BY <3>9, <3>10, <3>11, <3>12 DEF Compressed
      <3>. QED
        BY <2>3, <3>8, <3>13 DEF t
    <2>. QED
      BY <2>5, <2>7, <2>8
  <1>. QED
    BY <1>3, <1>5

-----------------------------------------------------------------------------
(* eval. *)

\* A write to the label of x.
Relabelled(s, x, l) == [s EXCEPT !.label[x] = l]

\* A write to one label.
LEMMA LabelWrite ==
    ASSUME NEW n \in Nat, NEW s \in LtStates(n), NEW x \in 1 .. n, NEW l \in 1 .. n
    PROVE  ForestWrites(n, s, Relabelled(s, x, l), x, l, s.ancestor[x])
  <1>. DEFINE t == Relabelled(s, x, l)
  <1>1. Alike(s, t) /\ t.ancestor = s.ancestor
    BY DEF LtStates, Alike, Relabelled
  <1>2. t.label = [s.label EXCEPT ![x] = l]
    BY DEF LtStates, Relabelled
  <1>3. t \in LtStates(n)
    BY DEF LtStates, Relabelled
  <1>4. s.label \in [1 .. n -> 1 .. n]
    BY DEF LtStates
  <1>. HIDE DEF t
  <1>5. /\ t.ancestor[x] = s.ancestor[x] /\ t.label[x] = l
        /\ \A y \in 1 .. n : y # x => t.label[y] = s.label[y] /\ t.ancestor[y] = s.ancestor[y]
    BY <1>1, <1>2, <1>4
  <1>6. ForestWrites(n, s, t, x, l, s.ancestor[x])
    BY <1>1, <1>3, <1>5 DEF ForestWrites
  <1>. QED
    BY <1>6 DEF t

\* The state after eval(v) and the label u it returns: of a linked vertex, the
\* smallest semidominator among the linked vertices above it; u may be the
\* root of its tree, which is not linked.
Evaluated(n, s, t, b, v) ==
    /\ t \in LtStates(n) /\ Alike(s, t) /\ Forest(n, t, b)
    /\ LET u == t.label[v]
       IN /\ v \in Desc(n, s.parent, u)
          /\ v <= b => u = v
          /\ v > b /\ u <= b => \A y \in u + 1 .. n : v \in Desc(n, s.parent, y) => y > b
          /\ \A y \in b + 1 .. n : v \in Desc(n, s.parent, y) => s.semi[u] <= s.semi[y]

\* eval leaves a forest in which the label of v is best up to its ancestor.
LEMMA EvalFacts ==
    ASSUME NEW n \in Nat, NEW out, NEW b \in Nat, NEW s \in LtStates(n),
           Tree(n, s.parent, out), Forest(n, s, b), NEW v \in 1 .. n
    PROVE  Evaluated(n, s, eval(s, v), b, v)
  <1>1. CASE v <= b
    <2>1. s.ancestor[v] = 0 /\ s.label[v] = v
      BY <1>1 DEF Forest
    <2>2. eval(s, v) = s
      BY <2>1 DEF eval
    <2>3. v \in Desc(n, s.parent, v)
      BY DescFacts
    <2>4. \A y \in b + 1 .. n : v \notin Desc(n, s.parent, y)
      <3>1. \A y \in b + 1 .. n : y \in 1 .. n /\ v \notin y .. n
        BY <1>1
      <3>2. \A c \in 2 .. n : s.parent[c] \in 1 .. c - 1
        BY DEF Tree
      <3>. QED
        BY <3>1, <3>2, DescAbove
    <2>. QED
      BY <1>1, <2>1, <2>2, <2>3, <2>4 DEF Evaluated, Alike
  <1>2. CASE v > b
    <2>. DEFINE r == compress(s, v)
                a == r.ancestor[v]
                l == Better(r, a, v)
    <2>0. v \in b + 1 .. n
      BY <1>2
    <2>1. Compressed(n, s, r, b, v)
      BY <2>0, CompressFacts
    <2>2. s.ancestor[v] # 0
      BY <1>2 DEF Forest, Linked
    <2>3. eval(s, v) = Relabelled(r, v, l)
      BY <2>2 DEF eval, Relabelled
    <2>. HIDE DEF r
    <2>4. r \in LtStates(n) /\ Alike(s, r) /\ Forest(n, r, b) /\ a <= b
      BY <2>1 DEF Compressed
    <2>5. Linked(n, r, b, v)
      BY <1>2, <2>4 DEF Forest
    <2>6. /\ a \in 1 .. v - 1 /\ v \in Desc(n, r.parent, a)
          /\ r.label[v] >= a /\ v \in Desc(n, r.parent, r.label[v])
          /\ \A y \in Path(n, r, a, v) : y > b /\ r.semi[r.label[v]] <= r.semi[y]
      BY <2>5 DEF Linked
    <2>7. a \in 1 .. n /\ a \in Nat
      BY <2>6
    <2>8. r.label[a] = a
      BY <2>4, <2>7 DEF Forest
    <2>9. r.label[v] \in 1 .. n /\ r.semi[r.label[v]] \in 1 .. n /\ r.semi[a] \in 1 .. n
      BY <2>4, <2>7, LtTypes
    <2>10. /\ l = a \/ l = r.label[v]
           /\ r.semi[l] <= r.semi[r.label[v]]
      BY <2>8, <2>9 DEF Better
    <2>11. l \in 1 .. n /\ l >= a /\ v \in Desc(n, r.parent, l) /\ r.semi[l] \in 1 .. n
      BY <2>6, <2>7, <2>9, <2>10
    <2>12. \A y \in Path(n, r, a, v) : y > b /\ r.semi[l] <= r.semi[y]
      <3>1. ASSUME NEW y \in Path(n, r, a, v)
            PROVE  y > b /\ r.semi[l] <= r.semi[y]
        <4>1. y > b /\ r.semi[r.label[v]] <= r.semi[y]
          BY <2>6
        <4>2. y \in 1 .. n
          BY <2>7 DEF Path
        <4>3. r.semi[y] \in 1 .. n
          BY <2>4, <4>2, LtTypes
        <4>. QED
          BY <2>9, <2>10, <2>11, <4>1, <4>3
      <3>. QED
        BY <3>1
    <2>. DEFINE t == Relabelled(r, v, l)
    <2>. HIDE DEF l, a
    <2>13. ForestWrites(n, r, t, v, l, r.ancestor[v])
      BY <2>4, <2>11, LabelWrite
    <2>. HIDE DEF t
    <2>14. /\ t \in LtStates(n) /\ Alike(r, t) /\ t.ancestor[v] = a /\ t.label[v] = l
           /\ \A y \in 1 .. n : y # v => t.label[y] = r.label[y] /\ t.ancestor[y] = r.ancestor[y]
      BY <2>13 DEF ForestWrites, a
    <2>15. t.parent = r.parent /\ t.semi = r.semi /\ \A k, y : Path(n, t, k, y) = Path(n, r, k, y)
      BY <2>14 DEF Alike, Path
    <2>16. Linked(n, t, b, v)
      BY <2>6, <2>11, <2>12, <2>14, <2>15 DEF Linked
    <2>17. ASSUME NEW y \in 1 .. n, y # v
           PROVE  IF y > b THEN Linked(n, t, b, y) ELSE t.ancestor[y] = 0 /\ t.label[y] = y
      <3>1. IF y > b THEN Linked(n, r, b, y) ELSE r.ancestor[y] = 0 /\ r.label[y] = y
        BY <2>4 DEF Forest
      <3>2. t.label[y] = r.label[y] /\ t.ancestor[y] = r.ancestor[y]
        BY <2>14, <2>17
      <3>. QED
        BY <2>15, <3>1, <3>2 DEF Linked
    <2>18. Forest(n, t, b)
      BY <1>2, <2>16, <2>17 DEF Forest
    <2>19. Alike(s, t) /\ s.parent = r.parent /\ s.semi = r.semi
      BY <2>4, <2>14, AlikeTrans DEF Alike
    <2>20. l <= b => \A y \in l + 1 .. n : v \in Desc(n, s.parent, y) => y > b
      <3>1. \A y \in l + 1 .. n : y \in a + 1 .. n
        BY <2>7, <2>11
      <3>. QED
        BY <2>12, <2>19, <3>1 DEF Path
    <2>21. \A y \in b + 1 .. n : v \in Desc(n, s.parent, y) => s.semi[l] <= s.semi[y]
      <3>1. \A y \in b + 1 .. n : y \in a + 1 .. n
        BY <2>4, <2>7
      <3>. QED
        BY <2>12, <2>19, <3>1 DEF Path
    <2>22. Evaluated(n, s, t, b, v)
      BY <1>2, <2>11, <2>14, <2>18, <2>19, <2>20, <2>21 DEF Evaluated
    <2>. QED
      BY <2>3, <2>22 DEF t
  <1>. QED
    BY <1>1, <1>2

-----------------------------------------------------------------------------
(* The loop that computes a semidominator. *)

\* The predecessors of x are the vertices with an edge to it.
Preds(n, out, s) ==
    \A x \in 1 .. n : \A m \in 1 .. n :
        (\E i \in 1 .. Len(s.pred[x]) : s.pred[x][i] = m) <=> x \in out[m]

\* The semidominators of the vertices above b are known.
Semis(n, out, s, b) == /\ \A x \in 1 .. b : s.semi[x] = x
                       /\ \A x \in b + 1 .. n : IsSemi(n, out, s.semi[x], x)

\* t differs from s in the forest and in the semidominator of x.
LowersOnly(n, s, t, x) ==
    /\ t.vertex = s.vertex /\ t.parent = s.parent /\ t.idom = s.idom
    /\ t.bucket = s.bucket /\ t.pred = s.pred
    /\ \A y \in 1 .. n : y # x => t.semi[y] = s.semi[y]

\* The predecessors in the first i entries were looked at.
LowInv(n, out, s, t, x, i) ==
    /\ t \in LtStates(n) /\ LowersOnly(n, s, t, x) /\ Forest(n, t, x)
    /\ t.semi[x] \in 1 .. x
    /\ t.semi[x] = x \/ SP(n, out, t.semi[x], x)
    /\ \A j \in 1 .. i : LET v == s.pred[x][j]
                         IN /\ v < x => t.semi[x] <= v
                            /\ \A u \in x + 1 .. n :
                                  v \in Desc(n, s.parent, u) => t.semi[x] <= s.semi[u]

\* A write to the semidominator of x.
WithSemi(s, x, e) == [s EXCEPT !.semi[x] = e]

\* A smaller semidominator of the largest vertex that is not linked.
LEMMA SemiWrite ==
    ASSUME NEW n \in Nat, NEW s \in LtStates(n), NEW x \in 1 .. n, NEW e \in 1 .. n,
           Forest(n, s, x), e <= s.semi[x]
    PROVE  LET t == WithSemi(s, x, e)
           IN /\ t \in LtStates(n) /\ LowersOnly(n, s, t, x) /\ Forest(n, t, x)
              /\ t.semi[x] = e
  <1>. DEFINE t == WithSemi(s, x, e)
  <1>1. /\ t.vertex = s.vertex /\ t.parent = s.parent /\ t.idom = s.idom
        /\ t.bucket = s.bucket /\ t.pred = s.pred /\ t.label = s.label /\ t.ancestor = s.ancestor
    BY DEF LtStates, WithSemi
  <1>2. t.semi = [s.semi EXCEPT ![x] = e] /\ t \in LtStates(n) /\ s.semi \in [1 .. n -> 1 .. n]
    BY DEF LtStates, WithSemi
  <1>. HIDE DEF t
  <1>3. t.semi[x] = e /\ \A y \in 1 .. n : y # x => t.semi[y] = s.semi[y]
    BY <1>2
  <1>4. \A y \in 1 .. n : s.label[y] \in 1 .. n /\ s.semi[y] \in 1 .. n
    BY LtTypes
  <1>5. \A y \in 1 .. n : t.semi[y] <= s.semi[y]
    BY <1>3, <1>4
  <1>6. ASSUME NEW y \in x + 1 .. n
        PROVE  Linked(n, t, x, y)
    <2>1. Linked(n, s, x, y) /\ y \in 1 .. n
      BY DEF Forest
    <2>2. ASSUME NEW k \in Path(n, s, s.ancestor[y], y)
          PROVE  k > x /\ t.semi[s.label[y]] <= t.semi[k]
      <3>1. k > x /\ s.semi[s.label[y]] <= s.semi[k]
        BY <2>1 DEF Linked
      <3>2. k \in 1 .. n
        BY <2>1 DEF Path, Linked
      <3>3. k # x /\ t.semi[k] = s.semi[k]
        BY <1>3, <3>1, <3>2
      <3>4. s.label[y] \in 1 .. n
        BY <1>4, <2>1
      <3>5. /\ t.semi[s.label[y]] <= s.semi[s.label[y]] /\ s.semi[s.label[y]] \in 1 .. n
            /\ s.semi[k] \in 1 .. n
        BY <1>4, <1>5, <3>2, <3>4
      <3>6. t.semi[s.label[y]] \in 1 .. n
        BY <1>2, <3>4 DEF LtStates
      <3>. QED
        BY <3>1, <3>3, <3>5, <3>6
    <2>3. \A k, z : Path(n, t, k, z) = Path(n, s, k, z)
      BY <1>1 DEF Path
    <2>. QED
      BY <1>1, <2>1, <2>2, <2>3 DEF Linked
  <1>7. Forest(n, t, x)
    <2>1. \A y \in 1 .. n : y > x => y \in x + 1 .. n
      OBVIOUS
    <2>. QED
      BY <1>1, <1>6, <2>1 DEF Forest
  <1>. QED
    BY <1>1, <1>2, <1>3, <1>7 DEF LowersOnly, t

\* What eval returns for a predecessor v of x starts a path to x through
\* larger numbers, or is x.
LEMMA EvalSound ==
    ASSUME NEW n \in Nat, NEW out, NEW t \in LtStates(n), Tree(n, t.parent, out),
           NEW x \in 2 .. n, NEW v \in 1 .. n, x \in out[v],
           \A y \in 1 .. x - 1 : t.semi[y] = y,
           \A y \in x + 1 .. n : IsSemi(n, out, t.semi[y], y),
           NEW r, Evaluated(n, t, r, x, v), r.label[v] # x
    PROVE  SP(n, out, t.semi[r.label[v]], x)
  <1>. DEFINE u == r.label[v]
  <1>1. /\ r \in LtStates(n) /\ v \in Desc(n, t.parent, u)
        /\ v <= x => u = v
        /\ v > x /\ u <= x => \A y \in u + 1 .. n : v \in Desc(n, t.parent, y) => y > x
    BY DEF Evaluated
  <1>2. u \in 1 .. n /\ t.semi[u] \in 1 .. n /\ x \in 1 .. n
    <2>1. u \in 1 .. n
      BY <1>1, LtTypes
    <2>2. t.semi[u] \in 1 .. n
      BY <2>1, LtTypes
    <2>. QED
      BY <2>1, <2>2
  <1>3. out \in [1 .. n -> SUBSET (1 .. n)]
    BY DEF Tree
  <1>. HIDE DEF u
  <1>4. CASE u > x
    <2>1. u \in x + 1 .. n
      BY <1>2, <1>4
    <2>2. SP(n, out, t.semi[u], u)
      BY <2>1 DEF IsSemi
    <2>3. SP(n, out, t.semi[u], x)
      BY <1>1, <1>2, <1>4, <2>2, SemiSound
    <2>. QED
      BY <2>3 DEF u
  <1>5. CASE u < x
    <2>1. t.semi[u] = u
      BY <1>2, <1>5
    <2>2. CASE v <= x
      <3>1. u = v
        BY <1>1, <2>2
      <3>2. SP(n, out, v, x)
        BY <1>3, SemiEdge
      <3>. QED
        BY <2>1, <3>1, <3>2 DEF u
    <2>3. CASE v > x
      <3>1. v # u
        BY <1>5, <1>2, <2>3
      <3>2. PICK c \in 2 .. n : t.parent[c] = u /\ v \in Desc(n, t.parent, c)
        BY <1>1, <1>2, <3>1, ChildOnPath
      <3>3. c \in 1 .. n /\ t.parent[c] \in 1 .. c - 1 /\ c \in out[t.parent[c]]
        BY DEF Tree
      <3>4. c \in u + 1 .. n
        BY <3>2, <3>3
      <3>5. c > x
        BY <1>1, <1>2, <1>5, <2>3, <3>2, <3>4
      <3>6. SP(n, out, u, c)
        BY <1>2, <1>3, <3>2, <3>3, SemiEdge
      <3>7. SP(n, out, u, x)
        BY <1>2, <3>2, <3>3, <3>5, <3>6, SemiSound
      <3>. QED
        BY <2>1, <3>7 DEF u
    <2>. QED
      BY <2>2, <2>3
  <1>. QED
    BY <1>2, <1>4, <1>5 DEF u

\* One predecessor.
LEMMA LowStep ==
    ASSUME NEW n \in Nat, NEW out, NEW s \in LtStates(n), Tree(n, s.parent, out),
           Preds(n, out, s), NEW x \in 2 .. n, Semis(n, out, s, x),
           NEW i \in 1 .. Len(s.pred[x]), NEW t, LowInv(n, out, s, t, x, i - 1)
    PROVE  LowInv(n, out, s, lower_semi(t, x, s.pred[x][i]), x, i)
  <1>. DEFINE v == s.pred[x][i]
              r == eval(t, v)
              u == r.label[v]
              z == lower_semi(t, x, v)
  <1>1. /\ t \in LtStates(n) /\ LowersOnly(n, s, t, x) /\ Forest(n, t, x)
        /\ t.semi[x] \in 1 .. x
        /\ t.semi[x] = x \/ SP(n, out, t.semi[x], x)
        /\ \A j \in 1 .. i - 1 : /\ s.pred[x][j] < x => t.semi[x] <= s.pred[x][j]
                                 /\ \A y \in x + 1 .. n :
                                       s.pred[x][j] \in Desc(n, s.parent, y) => t.semi[x] <= s.semi[y]
    BY DEF LowInv
  <1>2. x \in 1 .. n /\ s.pred[x] \in Seq(1 .. n)
    BY LtTypes
  <1>3. v \in 1 .. n /\ i \in Nat /\ i >= 1
    BY <1>2
  <1>4. x \in out[v]
    BY <1>2, <1>3 DEF Preds
  <1>5. t.parent = s.parent /\ Tree(n, t.parent, out) /\ \A y \in 1 .. n : y # x => t.semi[y] = s.semi[y]
    BY <1>1 DEF LowersOnly
  <1>6. Evaluated(n, t, r, x, v)
    <2>1. x \in Nat
      OBVIOUS
    <2>. HIDE DEF v
    <2>. QED
      BY <1>1, <1>3, <1>5, <2>1, EvalFacts
  <1>7. z = IF r.semi[u] < r.semi[x] THEN WithSemi(r, x, r.semi[u]) ELSE r
    BY DEF lower_semi, WithSemi
  <1>. HIDE DEF r, v, z
  <1>8. /\ r \in LtStates(n) /\ Alike(t, r) /\ Forest(n, r, x)
        /\ v \in Desc(n, t.parent, u) /\ (v <= x => u = v)
        /\ \A y \in x + 1 .. n : v \in Desc(n, t.parent, y) => t.semi[u] <= t.semi[y]
    BY <1>6 DEF Evaluated
  <1>9. u \in 1 .. n /\ r.semi[u] \in 1 .. n /\ r.semi = t.semi
    BY <1>3, <1>8, LtTypes DEF Alike
  <1>10. LowersOnly(n, s, r, x)
    BY <1>1, <1>8 DEF LowersOnly, Alike
  <1>11. \A y \in 1 .. x - 1 : t.semi[y] = y
    <2>1. \A y \in 1 .. x - 1 : y \in 1 .. x /\ y \in 1 .. n /\ y # x
      BY <1>2
    <2>. QED
      BY <1>5, <2>1 DEF Semis
  <1>12. \A y \in x + 1 .. n : IsSemi(n, out, t.semi[y], y)
    BY <1>2, <1>5 DEF Semis
  <1>. HIDE DEF u
  <1>13. u # x => SP(n, out, r.semi[u], x)
    BY <1>1, <1>3, <1>4, <1>5, <1>6, <1>9, <1>11, <1>12, EvalSound DEF u
  <1>. DEFINE e == z.semi[x]
  <1>14. /\ z \in LtStates(n) /\ LowersOnly(n, r, z, x) /\ Forest(n, z, x)
         /\ e \in 1 .. x /\ e <= r.semi[x] /\ e <= r.semi[u]
         /\ e = x \/ SP(n, out, e, x)
    <2>1. CASE r.semi[u] < r.semi[x]
      <3>1. z = WithSemi(r, x, r.semi[u]) /\ r.semi[u] <= r.semi[x]
        BY <1>1, <1>7, <1>9, <2>1
      <3>2. /\ z \in LtStates(n) /\ LowersOnly(n, r, z, x) /\ Forest(n, z, x) /\ e = r.semi[u]
        BY <1>2, <1>8, <1>9, <3>1, SemiWrite
      <3>3. u # x
        BY <1>1, <1>9, <2>1
      <3>. QED
        BY <1>1, <1>9, <1>13, <2>1, <3>2, <3>3
    <2>2. CASE ~(r.semi[u] < r.semi[x])
      <3>1. z = r
        BY <1>7, <2>2
      <3>2. LowersOnly(n, r, z, x)
        BY <3>1 DEF LowersOnly
      <3>. QED
        BY <1>1, <1>8, <1>9, <2>2, <3>1, <3>2
    <2>. QED
      BY <2>1, <2>2
  <1>. HIDE DEF e
  <1>15. LowersOnly(n, s, z, x)
    BY <1>10, <1>14 DEF LowersOnly
  <1>16. e <= t.semi[x]
    BY <1>9, <1>14
  <1>17. ASSUME NEW j \in 1 .. i
         PROVE  /\ s.pred[x][j] < x => e <= s.pred[x][j]
                /\ \A y \in x + 1 .. n :
                      s.pred[x][j] \in Desc(n, s.parent, y) => e <= s.semi[y]
    <2>0. \A y \in x + 1 .. n : y \in 1 .. n /\ y # x /\ s.semi[y] \in 1 .. n
      BY <1>2, LtTypes
    <2>1. CASE j = i
      <3>1. v < x => u = v /\ t.semi[v] = v
        BY <1>3, <1>8, <1>11
      <3>2. v < x => e <= v
        BY <1>9, <1>14, <3>1
      <3>3. ASSUME NEW y \in x + 1 .. n, v \in Desc(n, s.parent, y)
            PROVE  e <= s.semi[y]
        <4>1. t.semi[u] <= t.semi[y] /\ t.semi[y] = s.semi[y]
          BY <1>5, <1>8, <2>0, <3>3
        <4>. QED
          BY <1>9, <1>14, <2>0, <4>1
      <3>. QED
        BY <2>1, <3>2, <3>3 DEF v
    <2>2. CASE j # i
      <3>1. j \in 1 .. i - 1
        BY <1>3, <2>2
      <3>2. s.pred[x][j] \in 1 .. n
        BY <1>2
      <3>3. s.pred[x][j] < x => e <= s.pred[x][j]
        BY <1>1, <1>14, <1>16, <3>1, <3>2
      <3>4. ASSUME NEW y \in x + 1 .. n, s.pred[x][j] \in Desc(n, s.parent, y)
            PROVE  e <= s.semi[y]
        <4>1. t.semi[x] <= s.semi[y]
          BY <1>1, <3>1, <3>4
        <4>. QED
          BY <1>1, <1>14, <1>16, <2>0, <4>1
      <3>. QED
        BY <3>3, <3>4
    <2>. QED
      BY <2>1, <2>2
  <1>18. LowInv(n, out, s, z, x, i)
    BY <1>14, <1>15, <1>17 DEF LowInv, e
  <1>. QED
    BY <1>18 DEF z, v

\* The loop over the first m predecessors.
LowLoop(s, x, m, f) ==
    f = [i \in 0 .. m |-> IF i = 0 THEN s ELSE lower_semi(f[i - 1], x, s.pred[x][i])]

\* The loop over the predecessors is a function of the number of turns.
LEMMA LowLoopExists == \A s, x : \A m \in Nat : \E f : LowLoop(s, x, m, f)
  <1>. SUFFICES ASSUME NEW s, NEW x
                PROVE  \A m \in Nat : \E f : LowLoop(s, x, m, f)
    OBVIOUS
  <1>. DEFINE T == {m \in Nat : \E f : LowLoop(s, x, m, f)}
  <1>1. 0 \in T
    <2>. DEFINE g == [i \in 0 .. 0 |-> s]
    <2>1. g = [i \in 0 .. 0 |-> IF i = 0 THEN s ELSE lower_semi(g[i - 1], x, s.pred[x][i])]
      OBVIOUS
    <2>. HIDE DEF g
    <2>2. LowLoop(s, x, 0, g)
      BY <2>1 DEF LowLoop
    <2>. QED
      BY <2>2
  <1>2. ASSUME NEW m \in Nat, m \in T
        PROVE  m + 1 \in T
    <2>1. PICK f : LowLoop(s, x, m, f)
      BY <1>2
    <2>2. \A i \in 0 .. m : f[i] = IF i = 0 THEN s ELSE lower_semi(f[i - 1], x, s.pred[x][i])
      BY <2>1 DEF LowLoop
    <2>. DEFINE z == lower_semi(f[m], x, s.pred[x][m + 1])
                g == [i \in 0 .. m + 1 |-> IF i = m + 1 THEN z ELSE f[i]]
    <2>3. /\ g[m + 1] = z /\ g = [i \in 0 .. m + 1 |-> g[i]]
          /\ \A i \in 0 .. m : g[i] = f[i]
      <3>. HIDE DEF z
      <3>1. g[m + 1] = z /\ g = [i \in 0 .. m + 1 |-> g[i]]
        OBVIOUS
      <3>2. \A i \in 0 .. m : i \in 0 .. m + 1 /\ i # m + 1
        OBVIOUS
      <3>3. \A i \in 0 .. m : g[i] = f[i]
        BY <3>2
      <3>. QED
        BY <3>1, <3>3
    <2>. HIDE DEF g, z
    <2>4. ASSUME NEW i \in 0 .. m + 1
          PROVE  g[i] = IF i = 0 THEN s ELSE lower_semi(g[i - 1], x, s.pred[x][i])
      <3>1. i # 0 => i - 1 \in 0 .. m
        OBVIOUS
      <3>2. CASE i = m + 1
        <4>1. i # 0 /\ i - 1 = m /\ m \in 0 .. m
          BY <3>2
        <4>2. g[i - 1] = f[m]
          BY <2>3, <4>1
        <4>. QED
          BY <2>3, <3>2, <4>1, <4>2 DEF z
      <3>3. CASE i # m + 1
        <4>1. i \in 0 .. m
          BY <3>3
        <4>2. i # 0 => g[i - 1] = f[i - 1]
          BY <2>3, <3>1
        <4>. QED
          BY <2>2, <2>3, <4>1, <4>2
      <3>. QED
        BY <3>2, <3>3
    <2>5. LowLoop(s, x, m + 1, g)
      BY <2>3, <2>4 DEF LowLoop
    <2>. QED
      BY <2>5
  <1>3. Nat \subseteq T
    <2>. HIDE DEF T
    <2>. QED
      BY <1>1, <1>2, NatCovered
  <1>. QED
    BY <1>3

\* A write to the bucket of p.
WithBucket(s, p, q) == [s EXCEPT !.bucket[p] = q]

\* t differs from s in one bucket.
BucketWrites(n, s, t, p, q) ==
    /\ t \in LtStates(n) /\ t.vertex = s.vertex /\ t.parent = s.parent /\ t.semi = s.semi
    /\ t.idom = s.idom /\ t.ancestor = s.ancestor /\ t.label = s.label /\ t.pred = s.pred
    /\ t.bucket[p] = q /\ \A k \in 1 .. n : k # p => t.bucket[k] = s.bucket[k]

\* A bucket replaced.
LEMMA BucketWrite ==
    ASSUME NEW n \in Nat, NEW s \in LtStates(n), NEW p \in 1 .. n, NEW q \in Seq(1 .. n)
    PROVE  BucketWrites(n, s, WithBucket(s, p, q), p, q)
  <1>. DEFINE t == WithBucket(s, p, q)
  <1>1. /\ t.vertex = s.vertex /\ t.parent = s.parent /\ t.idom = s.idom
        /\ t.semi = s.semi /\ t.pred = s.pred /\ t.label = s.label /\ t.ancestor = s.ancestor
    BY DEF LtStates, WithBucket
  <1>2. t.bucket = [s.bucket EXCEPT ![p] = q] /\ s.bucket \in [1 .. n -> Seq(1 .. n)]
    BY DEF LtStates, WithBucket
  <1>3. t \in LtStates(n)
    BY DEF LtStates, WithBucket
  <1>. HIDE DEF t
  <1>4. t.bucket[p] = q /\ \A k \in 1 .. n : k # p => t.bucket[k] = s.bucket[k]
    BY <1>2
  <1>5. BucketWrites(n, s, t, p, q)
    BY <1>1, <1>3, <1>4 DEF BucketWrites
  <1>. QED
    BY <1>5 DEF t

\* The forest depends on four vectors only.
LEMMA SameForest ==
    ASSUME NEW n, NEW b, NEW s, NEW t, Forest(n, s, b), t.parent = s.parent,
           t.semi = s.semi, t.ancestor = s.ancestor, t.label = s.label
    PROVE  Forest(n, t, b)
  <1>1. \A k, y : Path(n, t, k, y) = Path(n, s, k, y)
    BY DEF Path
  <1>. QED
    BY <1>1 DEF Forest, Linked

\* What semidominate(s, x) leaves.
Semidominated(n, out, s, t, x) ==
    /\ t \in LtStates(n) /\ Forest(n, t, x)
    /\ t.vertex = s.vertex /\ t.parent = s.parent /\ t.idom = s.idom /\ t.pred = s.pred
    /\ IsSemi(n, out, t.semi[x], x)
    /\ \A y \in 1 .. n : y # x => t.semi[y] = s.semi[y]
    /\ \A k \in 1 .. n :
          t.bucket[k] = IF k = t.semi[x] THEN Append(s.bucket[k], x) ELSE s.bucket[k]

\* The loop ends with the semidominator of x.
LEMMA SemiReached ==
    ASSUME NEW n \in Nat, NEW out, NEW s \in LtStates(n), Tree(n, s.parent, out),
           Preds(n, out, s), NEW x \in 2 .. n, Semis(n, out, s, x),
           NEW t, LowInv(n, out, s, t, x, Len(s.pred[x]))
    PROVE  IsSemi(n, out, t.semi[x], x)
  <1>. DEFINE e == t.semi[x]
              m == Len(s.pred[x])
  <1>1. /\ e \in 1 .. x /\ (e = x \/ SP(n, out, e, x))
        /\ \A j \in 1 .. m : LET v == s.pred[x][j]
                             IN /\ v < x => e <= v
                                /\ \A u \in x + 1 .. n :
                                      v \in Desc(n, s.parent, u) => e <= s.semi[u]
    BY DEF LowInv
  <1>2. x \in 1 .. n
    OBVIOUS
  <1>3. \A v \in 1 .. n : x \in out[v] => \E j \in 1 .. m : s.pred[x][j] = v
    BY <1>2 DEF Preds
  <1>. HIDE DEF e, m
  <1>4. e < x
    <2>1. s.parent[x] \in 1 .. x - 1 /\ x \in out[s.parent[x]]
      BY DEF Tree
    <2>2. s.parent[x] \in 1 .. n /\ s.parent[x] < x
      BY <2>1
    <2>3. PICK j \in 1 .. m : s.pred[x][j] = s.parent[x]
      BY <1>3, <2>1, <2>2
    <2>4. e <= s.parent[x]
      BY <1>1, <2>2, <2>3
    <2>. QED
      BY <1>1, <2>2, <2>4
  <1>5. ASSUME NEW z \in 1 .. e - 1, SP(n, out, z, x)
        PROVE  FALSE
    <2>1. z \in 1 .. n /\ z < x
      BY <1>1
    <2>2. CASE x \in out[z]
      <3>1. PICK j \in 1 .. m : s.pred[x][j] = z
        BY <1>3, <2>1, <2>2
      <3>2. e <= z
        BY <1>1, <2>1, <3>1
      <3>. QED
        BY <1>1, <3>2
    <2>3. CASE \E v \in 1 .. n : \E u \in x + 1 .. n :
                 x \in out[v] /\ v \in Desc(n, s.parent, u) /\ SP(n, out, z, u)
      <3>1. PICK v \in 1 .. n : \E u \in x + 1 .. n :
                    x \in out[v] /\ v \in Desc(n, s.parent, u) /\ SP(n, out, z, u)
        BY <2>3
      <3>2. PICK u \in x + 1 .. n : x \in out[v] /\ v \in Desc(n, s.parent, u) /\ SP(n, out, z, u)
        BY <3>1
      <3>3. PICK j \in 1 .. m : s.pred[x][j] = v
        BY <1>3, <3>2
      <3>4. e <= s.semi[u]
        BY <1>1, <3>2, <3>3
      <3>5. IsSemi(n, out, s.semi[u], u)
        BY DEF Semis
      <3>6. s.semi[u] \in 1 .. u - 1
        BY <3>5 DEF IsSemi
      <3>7. z \in 1 .. s.semi[u] - 1
        BY <1>1, <3>4, <3>6
      <3>. QED
        BY <3>2, <3>5, <3>7 DEF IsSemi
    <2>. QED
      BY <1>2, <1>5, <2>1, <2>2, <2>3, SemiComplete
  <1>6. e \in 1 .. x - 1 /\ SP(n, out, e, x)
    BY <1>1, <1>4
  <1>7. IsSemi(n, out, e, x)
    BY <1>5, <1>6 DEF IsSemi
  <1>. QED
    BY <1>7 DEF e

\* semidominate finds the semidominator of x and files x under it.
LEMMA SemidominateFacts ==
    ASSUME NEW n \in Nat, NEW out, NEW s \in LtStates(n), Tree(n, s.parent, out),
           Preds(n, out, s), NEW x \in 2 .. n, Semis(n, out, s, x), Forest(n, s, x)
    PROVE  Semidominated(n, out, s, semidominate(s, x), x)
  <1>. DEFINE m == Len(s.pred[x])
              f == CHOOSE f : LowLoop(s, x, m, f)
              t == f[m]
              e == t.semi[x]
  <1>1. m \in Nat /\ x \in 1 .. n
    <2>1. x \in 1 .. n
      OBVIOUS
    <2>2. s.pred[x] \in Seq(1 .. n)
      BY <2>1, LtTypes
    <2>. QED
      BY <2>1, <2>2
  <1>2. LowLoop(s, x, m, f)
    BY <1>1, LowLoopExists
  <1>3. semidominate(s, x) = WithBucket(t, e, Append(t.bucket[e], x))
    BY DEF semidominate, LowLoop, WithBucket
  <1>. HIDE DEF f
  <1>4. \A i \in 0 .. m : f[i] = IF i = 0 THEN s ELSE lower_semi(f[i - 1], x, s.pred[x][i])
    BY <1>2 DEF LowLoop
  <1>5. LowInv(n, out, s, f[0], x, 0)
    <2>1. f[0] = s
      BY <1>1, <1>4
    <2>2. s.semi[x] = x
      BY DEF Semis
    <2>3. LowInv(n, out, s, s, x, 0)
      BY <1>1, <2>2 DEF LowInv, LowersOnly
    <2>. QED
      BY <2>1, <2>3
  <1>. DEFINE T == {i \in Nat : i <= m => LowInv(n, out, s, f[i], x, i)}
  <1>6. ASSUME NEW i \in Nat, i \in T
        PROVE  i + 1 \in T
    <2>. SUFFICES ASSUME i + 1 <= m PROVE LowInv(n, out, s, f[i + 1], x, i + 1)
      OBVIOUS
    <2>1. LowInv(n, out, s, f[i], x, i)
      BY <1>1, <1>6
    <2>. DEFINE k == i + 1
    <2>2. k \in 1 .. m /\ k - 1 = i /\ k \in 0 .. m /\ k # 0
      BY <1>1
    <2>. HIDE DEF k
    <2>3. LowInv(n, out, s, f[k - 1], x, k - 1)
      BY <2>1, <2>2
    <2>4. f[k] = lower_semi(f[k - 1], x, s.pred[x][k])
      BY <1>4, <2>2
    <2>5. LowInv(n, out, s, lower_semi(f[k - 1], x, s.pred[x][k]), x, k)
      BY <2>2, <2>3, LowStep
    <2>. QED
      BY <2>4, <2>5 DEF k
  <1>7. LowInv(n, out, s, t, x, m)
    <2>1. 0 \in T
      BY <1>5
    <2>. HIDE DEF T
    <2>2. m \in T
      BY <1>1, <1>6, <2>1, NatCovered
    <2>. QED
      BY <1>1, <2>2 DEF T
  <1>. HIDE DEF t
  <1>8. IsSemi(n, out, e, x)
    BY <1>7, SemiReached
  <1>9. /\ t \in LtStates(n) /\ LowersOnly(n, s, t, x) /\ Forest(n, t, x)
    BY <1>7 DEF LowInv
  <1>10. e \in 1 .. n
    BY <1>1, <1>9, LtTypes
  <1>. DEFINE q == Append(t.bucket[e], x)
              r == WithBucket(t, e, q)
  <1>11. q \in Seq(1 .. n)
    <2>1. t.bucket[e] \in Seq(1 .. n)
      BY <1>9, <1>10, LtTypes
    <2>. HIDE DEF e
    <2>. QED
      BY <1>1, <2>1
  <1>. HIDE DEF e, q
  <1>12. BucketWrites(n, t, r, e, q)
    BY <1>9, <1>10, <1>11, BucketWrite
  <1>. HIDE DEF r
  <1>13. Forest(n, r, x)
    BY <1>9, <1>12, SameForest DEF BucketWrites
  <1>14. r.semi[x] = e
    BY <1>12 DEF BucketWrites, e
  <1>15. \A k \in 1 .. n : r.bucket[k] = IF k = e THEN Append(s.bucket[k], x) ELSE s.bucket[k]
    BY <1>9, <1>12 DEF BucketWrites, LowersOnly, q
  <1>16. Semidominated(n, out, s, r, x)
    BY <1>8, <1>9, <1>12, <1>13, <1>14, <1>15 DEF Semidominated, BucketWrites, LowersOnly
  <1>. QED
    BY <1>3, <1>16 DEF r, q, e

-----------------------------------------------------------------------------
(* link. *)

\* The vertex b joins the forest below its parent.
LEMMA LinkFacts ==
    ASSUME NEW n \in Nat, NEW out, NEW s \in LtStates(n), Tree(n, s.parent, out),
           NEW b \in 2 .. n, Forest(n, s, b)
    PROVE  LET t == link(s, s.parent[b], b)
           IN t \in LtStates(n) /\ Alike(s, t) /\ Forest(n, t, b - 1)
  <1>. DEFINE p == s.parent[b]
              t == link(s, p, b)
  <1>1. p \in 1 .. b - 1 /\ p \in 1 .. n /\ b \in 1 .. n
    BY DEF Tree
  <1>2. Alike(s, t) /\ t.label = s.label
    BY DEF link, LtStates, Alike
  <1>3. t.ancestor = [s.ancestor EXCEPT ![b] = p] /\ s.ancestor \in [1 .. n -> 0 .. n]
    BY DEF link, LtStates
  <1>4. t \in LtStates(n)
    BY <1>1 DEF link, LtStates
  <1>. HIDE DEF t
  <1>5. t.ancestor[b] = p /\ \A y \in 1 .. n : y # b => t.ancestor[y] = s.ancestor[y]
    BY <1>1, <1>3
  <1>6. t.parent = s.parent /\ t.semi = s.semi /\ \A k, y : Path(n, t, k, y) = Path(n, s, k, y)
    BY <1>2 DEF Alike, Path
  <1>7. Linked(n, t, b - 1, b)
    <2>1. t.label[b] = b
      BY <1>1, <1>2 DEF Forest
    <2>2. b \in Desc(n, s.parent, b) /\ b \in Desc(n, s.parent, p)
      BY <1>1, DescFacts
    <2>3. ASSUME NEW y \in Path(n, s, p, b)
          PROVE  y = b
      <3>1. y \in p + 1 .. n /\ y \in 1 .. n /\ b \in Desc(n, s.parent, y)
        BY <1>1 DEF Path
      <3>2. CASE y # b
        <4>1. p \in Desc(n, s.parent, y)
          BY <3>1, <3>2, DescParent
        <4>2. Desc(n, s.parent, y) \subseteq y .. n
          BY <3>1, DescAbove DEF Tree
        <4>. QED
          BY <1>1, <3>1, <4>1, <4>2
      <3>. QED
        BY <3>2
    <2>4. s.semi[b] \in 1 .. n
      BY <1>1, LtTypes
    <2>5. \A y \in Path(n, s, p, b) : y > b - 1 /\ s.semi[b] <= s.semi[y]
      BY <2>3, <2>4
    <2>6. b >= p
      BY <1>1
    <2>. QED
      BY <1>1, <1>5, <1>6, <2>1, <2>2, <2>5, <2>6 DEF Linked
  <1>8. ASSUME NEW y \in b + 1 .. n
        PROVE  Linked(n, t, b - 1, y)
    <2>1. y \in 1 .. n /\ y # b /\ y > b
      OBVIOUS
    <2>2. Linked(n, s, b, y)
      BY <2>1 DEF Forest
    <2>3. \A k \in Path(n, s, s.ancestor[y], y) : k > b /\ s.semi[s.label[y]] <= s.semi[k]
      BY <2>2 DEF Linked
    <2>4. \A k \in Path(n, s, s.ancestor[y], y) : k \in Nat
      BY <2>2 DEF Path, Linked
    <2>5. \A k \in Path(n, s, s.ancestor[y], y) : k > b - 1
      BY <2>3, <2>4
    <2>. QED
      BY <1>2, <1>5, <1>6, <2>1, <2>2, <2>3, <2>5 DEF Linked
  <1>9. Forest(n, t, b - 1)
    <2>1. ASSUME NEW y \in 1 .. n
          PROVE  IF y > b - 1 THEN Linked(n, t, b - 1, y) ELSE t.ancestor[y] = 0 /\ t.label[y] = y
      <3>1. CASE y > b
        BY <1>8, <3>1
      <3>2. CASE y = b
        BY <1>7, <3>2
      <3>3. CASE y < b
        BY <1>2, <1>5, <3>3 DEF Forest
      <3>. QED
        BY <3>1, <3>2, <3>3
    <2>. QED
      BY <2>1 DEF Forest
  <1>. QED
    BY <1>2, <1>4, <1>9 DEF t

-----------------------------------------------------------------------------
(* Buckets. *)

\* The immediate dominator of x is known, or is the one of a smaller vertex.
Settled(n, out, s, x) ==
    IF s.idom[x] = s.semi[x]
    THEN IsIdom(n, out, s.idom[x], x)
    ELSE /\ s.idom[x] \in 2 .. x - 1
         /\ \A d \in 1 .. n : IsIdom(n, out, d, s.idom[x]) => IsIdom(n, out, d, x)

\* A write to the immediate dominator of x.
WithIdom(s, x, d) == [s EXCEPT !.idom[x] = d]

\* The entries that such a write leaves.
IdomWrites(n, s, t, x, d) ==
    /\ t \in LtStates(n) /\ t.vertex = s.vertex /\ t.parent = s.parent /\ t.semi = s.semi
    /\ t.bucket = s.bucket /\ t.ancestor = s.ancestor /\ t.label = s.label /\ t.pred = s.pred
    /\ t.idom[x] = d /\ \A k \in 1 .. n : k # x => t.idom[k] = s.idom[k]

\* An immediate dominator replaced.
LEMMA IdomWrite ==
    ASSUME NEW n \in Nat, NEW s \in LtStates(n), NEW x \in 1 .. n, NEW d \in 0 .. n
    PROVE  IdomWrites(n, s, WithIdom(s, x, d), x, d)
  <1>. DEFINE t == WithIdom(s, x, d)
  <1>1. /\ t.vertex = s.vertex /\ t.parent = s.parent /\ t.bucket = s.bucket
        /\ t.semi = s.semi /\ t.pred = s.pred /\ t.label = s.label /\ t.ancestor = s.ancestor
    BY DEF LtStates, WithIdom
  <1>2. t.idom = [s.idom EXCEPT ![x] = d] /\ s.idom \in [1 .. n -> 0 .. n]
    BY DEF LtStates, WithIdom
  <1>3. t \in LtStates(n)
    BY DEF LtStates, WithIdom
  <1>. HIDE DEF t
  <1>4. t.idom[x] = d /\ \A k \in 1 .. n : k # x => t.idom[k] = s.idom[k]
    BY <1>2
  <1>5. IdomWrites(n, s, t, x, d)
    BY <1>1, <1>3, <1>4 DEF IdomWrites
  <1>. QED
    BY <1>5 DEF t

\* What settle(s, p, v) leaves.
Settles(n, out, s, t, b, v) ==
    /\ t \in LtStates(n) /\ Forest(n, t, b)
    /\ t.vertex = s.vertex /\ t.parent = s.parent /\ t.semi = s.semi
    /\ t.bucket = s.bucket /\ t.pred = s.pred
    /\ \A k \in 1 .. n : k # v => t.idom[k] = s.idom[k]
    /\ Settled(n, out, t, v)

\* A vertex below x whose semidominator is the parent p of x, when x is the
\* last vertex linked.
LEMMA SettleStep ==
    ASSUME NEW n \in Nat, NEW out, NEW s \in LtStates(n), Tree(n, s.parent, out),
           NEW x \in 2 .. n, Forest(n, s, x - 1), Semis(n, out, s, x - 1),
           NEW p, p = s.parent[x], NEW v \in Desc(n, s.parent, x), s.semi[v] = p
    PROVE  Settles(n, out, s, settle(s, p, v), x - 1, v)
  <1>. DEFINE b == x - 1
              r == eval(s, v)
              u == r.label[v]
              d == IF r.semi[u] < r.semi[v] THEN u ELSE p
              t == settle(s, p, v)
  <1>1. b \in Nat /\ x \in 1 .. n /\ b + 1 = x
    OBVIOUS
  <1>2. p \in 1 .. b /\ p \in 1 .. n /\ x \in out[p]
    BY DEF Tree
  <1>3. v \in x .. n /\ v \in 1 .. n /\ v > b
    <2>1. v \in x .. n
      BY <1>1, DescAbove DEF Tree
    <2>. QED
      BY <2>1
  <1>4. Evaluated(n, s, r, b, v)
    <2>. HIDE DEF r
    <2>1. Forest(n, s, b)
      OBVIOUS
    <2>. HIDE DEF b
    <2>. QED
      BY <1>1, <1>3, <2>1, EvalFacts DEF r
  <1>5. t = WithIdom(r, v, d)
    BY DEF settle, WithIdom
  <1>. HIDE DEF r, t
  <1>6. /\ r \in LtStates(n) /\ Alike(s, r) /\ Forest(n, r, b) /\ v \in Desc(n, s.parent, u)
        /\ u <= b => \A y \in u + 1 .. n : v \in Desc(n, s.parent, y) => y > b
        /\ \A y \in b + 1 .. n : v \in Desc(n, s.parent, y) => s.semi[u] <= s.semi[y]
    BY <1>3, <1>4 DEF Evaluated
  <1>7. u \in 1 .. n /\ s.semi[u] \in 1 .. n
    <2>1. u \in 1 .. n
      BY <1>3, <1>6, LtTypes
    <2>. QED
      BY <2>1, LtTypes
  <1>8. r.semi = s.semi /\ s.semi[p] = p
    BY <1>2, <1>6 DEF Alike, Semis
  <1>. HIDE DEF u
  <1>9. v \in Desc(n, s.parent, p)
    <2>1. p \in Desc(n, s.parent, p)
      BY <1>2, DescFacts
    <2>2. x \in Desc(n, s.parent, p)
      BY <1>2, <2>1, DescFacts
    <2>. QED
      BY <1>2, <2>2, DescTrans
  <1>10. ASSUME NEW y \in p + 1 .. n, v \in Desc(n, s.parent, y)
         PROVE  y >= x /\ y \in b + 1 .. n
    <2>0. y \in 1 .. n
      BY <1>2
    <2>1. CASE y < x
      <3>1. x \in y .. v
        BY <1>3, <2>0, <2>1
      <3>2. x \in Desc(n, s.parent, y) /\ x # y
        BY <1>10, <2>0, <2>1, <3>1, Interval
      <3>3. p \in Desc(n, s.parent, y)
        BY <2>0, <3>2, DescParent
      <3>4. Desc(n, s.parent, y) \subseteq y .. n
        BY <2>0, DescAbove DEF Tree
      <3>. QED
        BY <1>2, <2>0, <3>3, <3>4
    <2>. QED
      BY <1>1, <2>0, <2>1
  <1>11. u <= b => u = p
    <2>. SUFFICES ASSUME u <= b, u # p PROVE FALSE
      OBVIOUS
    <2>1. CASE u < p
      <3>1. p \in u + 1 .. n
        BY <1>2, <1>7, <2>1
      <3>2. p > b
        BY <1>6, <1>9, <3>1
      <3>. QED
        BY <1>2, <3>2
    <2>2. CASE u > p
      <3>1. u \in p + 1 .. n
        BY <1>2, <1>7, <2>2
      <3>2. u >= x
        BY <1>6, <1>10, <3>1
      <3>. QED
        BY <1>7, <3>2
    <2>. QED
      BY <1>2, <1>7, <2>1, <2>2
  <1>12. IsSemi(n, out, p, v)
    BY <1>1, <1>3 DEF Semis
  <1>13. ASSUME NEW y \in p + 1 .. n, v \in Desc(n, s.parent, y)
         PROVE  /\ IsSemi(n, out, s.semi[y], y) /\ s.semi[u] <= s.semi[y]
                /\ \A z \in 1 .. s.semi[u] - 1 : ~SP(n, out, z, y)
    <2>1. y \in b + 1 .. n
      BY <1>10, <1>13
    <2>2. IsSemi(n, out, s.semi[y], y) /\ s.semi[u] <= s.semi[y]
      BY <1>6, <1>13, <2>1 DEF Semis
    <2>3. s.semi[y] \in 1 .. y - 1 /\ y \in Nat
      BY <2>2 DEF IsSemi
    <2>4. \A z \in 1 .. s.semi[u] - 1 : z \in 1 .. s.semi[y] - 1
      BY <1>7, <2>2, <2>3
    <2>. QED
      BY <2>2, <2>4 DEF IsSemi
  <1>14. d \in 0 .. n
    BY <1>2, <1>7
  <1>15. CASE s.semi[u] < p
    <2>1. d = u
      BY <1>8, <1>15
    <2>2. u >= x /\ u <= v
      <3>1. u # p
        BY <1>8, <1>15, <1>2
      <3>2. v \in u .. n
        BY <1>6, <1>7, DescAbove DEF Tree
      <3>. QED
        BY <1>1, <1>7, <1>11, <3>1, <3>2
    <2>3. u # v
      BY <1>15, <1>2
    <2>4. u \in p + 1 .. v - 1 /\ u \in p + 1 .. n
      BY <1>1, <1>2, <1>3, <1>7, <2>2, <2>3
    <2>5. IsSemi(n, out, s.semi[u], u)
      BY <1>6, <1>13, <2>4
    <2>. DEFINE m == s.semi[u]
    <2>6. \A y \in p + 1 .. n : v \in Desc(n, s.parent, y) =>
              \A z \in 1 .. m - 1 : ~SP(n, out, z, y)
      BY <1>13
    <2>7. m \in 1 .. n /\ m < p /\ IsSemi(n, out, m, u)
      BY <1>7, <1>15, <2>5
    <2>. HIDE DEF m
    <2>8. \A e \in 1 .. n : IsIdom(n, out, e, u) => IsIdom(n, out, e, v)
      BY <1>2, <1>3, <1>6, <1>12, <2>4, <2>6, <2>7, IdomIsShared
    <2>. HIDE DEF d
    <2>9. IdomWrites(n, r, t, v, d)
      BY <1>3, <1>5, <1>6, <1>14, IdomWrite, Zenon
    <2>10. t.idom[v] = u /\ t.semi[v] = p
      BY <1>8, <2>1, <2>9 DEF IdomWrites
    <2>11. u # p /\ u \in 2 .. v - 1
      BY <1>1, <1>2, <2>4
    <2>12. Settled(n, out, t, v)
      BY <2>8, <2>10, <2>11 DEF Settled
    <2>13. Forest(n, t, b)
      BY <1>6, <2>9, SameForest DEF IdomWrites
    <2>14. /\ t \in LtStates(n) /\ t.vertex = s.vertex /\ t.parent = s.parent
           /\ t.semi = s.semi /\ t.bucket = s.bucket /\ t.pred = s.pred
           /\ \A k \in 1 .. n : k # v => t.idom[k] = s.idom[k]
      BY <1>6, <2>9 DEF IdomWrites, Alike
    <2>15. Settles(n, out, s, t, b, v)
      BY <2>12, <2>13, <2>14 DEF Settles
    <2>. QED
      BY <2>15 DEF t
  <1>16. CASE ~(s.semi[u] < p)
    <2>1. d = p
      BY <1>8, <1>16
    <2>2. \A y \in p + 1 .. n : v \in Desc(n, s.parent, y) =>
              \A z \in 1 .. p - 1 : ~SP(n, out, z, y)
      <3>1. \A z \in 1 .. p - 1 : z \in 1 .. s.semi[u] - 1
        BY <1>2, <1>7, <1>16
      <3>. QED
        BY <1>13, <3>1
    <2>3. IsIdom(n, out, p, v)
      BY <1>2, <1>3, <1>12, <2>2, IdomIsSemi
    <2>. HIDE DEF d
    <2>4. IdomWrites(n, r, t, v, d)
      BY <1>3, <1>5, <1>6, <1>14, IdomWrite, Zenon
    <2>5. t.idom[v] = p /\ t.semi[v] = p
      BY <1>8, <2>1, <2>4 DEF IdomWrites
    <2>6. Settled(n, out, t, v)
      BY <2>3, <2>5 DEF Settled
    <2>7. Forest(n, t, b)
      BY <1>6, <2>4, SameForest DEF IdomWrites
    <2>8. /\ t \in LtStates(n) /\ t.vertex = s.vertex /\ t.parent = s.parent
          /\ t.semi = s.semi /\ t.bucket = s.bucket /\ t.pred = s.pred
          /\ \A k \in 1 .. n : k # v => t.idom[k] = s.idom[k]
      BY <1>6, <2>4 DEF IdomWrites, Alike
    <2>9. Settles(n, out, s, t, b, v)
      BY <2>6, <2>7, <2>8 DEF Settles
    <2>. QED
      BY <2>9 DEF t
  <1>. QED
    BY <1>15, <1>16

\* The loop over the first m vertices of the bucket q.
SettleLoop(s, p, q, m, f) ==
    f = [i \in 0 .. m |-> IF i = 0 THEN s ELSE settle(f[i - 1], p, q[i])]

\* The loop over a bucket is a function of the number of turns.
LEMMA SettleLoopExists == \A s, p, q : \A m \in Nat : \E f : SettleLoop(s, p, q, m, f)
  <1>. SUFFICES ASSUME NEW s, NEW p, NEW q
                PROVE  \A m \in Nat : \E f : SettleLoop(s, p, q, m, f)
    OBVIOUS
  <1>. DEFINE T == {m \in Nat : \E f : SettleLoop(s, p, q, m, f)}
  <1>1. 0 \in T
    <2>. DEFINE g == [i \in 0 .. 0 |-> s]
    <2>1. g = [i \in 0 .. 0 |-> IF i = 0 THEN s ELSE settle(g[i - 1], p, q[i])]
      OBVIOUS
    <2>. HIDE DEF g
    <2>2. SettleLoop(s, p, q, 0, g)
      BY <2>1 DEF SettleLoop
    <2>. QED
      BY <2>2
  <1>2. ASSUME NEW m \in Nat, m \in T
        PROVE  m + 1 \in T
    <2>1. PICK f : SettleLoop(s, p, q, m, f)
      BY <1>2
    <2>2. \A i \in 0 .. m : f[i] = IF i = 0 THEN s ELSE settle(f[i - 1], p, q[i])
      BY <2>1 DEF SettleLoop
    <2>. DEFINE z == settle(f[m], p, q[m + 1])
                g == [i \in 0 .. m + 1 |-> IF i = m + 1 THEN z ELSE f[i]]
    <2>3. /\ g[m + 1] = z /\ g = [i \in 0 .. m + 1 |-> g[i]]
          /\ \A i \in 0 .. m : g[i] = f[i]
      <3>. HIDE DEF z
      <3>1. g[m + 1] = z /\ g = [i \in 0 .. m + 1 |-> g[i]]
        OBVIOUS
      <3>2. \A i \in 0 .. m : i \in 0 .. m + 1 /\ i # m + 1
        OBVIOUS
      <3>3. \A i \in 0 .. m : g[i] = f[i]
        BY <3>2
      <3>. QED
        BY <3>1, <3>3
    <2>. HIDE DEF g, z
    <2>4. ASSUME NEW i \in 0 .. m + 1
          PROVE  g[i] = IF i = 0 THEN s ELSE settle(g[i - 1], p, q[i])
      <3>1. i # 0 => i - 1 \in 0 .. m
        OBVIOUS
      <3>2. CASE i = m + 1
        <4>1. i # 0 /\ i - 1 = m /\ m \in 0 .. m
          BY <3>2
        <4>2. g[i - 1] = f[m]
          BY <2>3, <4>1
        <4>. QED
          BY <2>3, <3>2, <4>1, <4>2 DEF z
      <3>3. CASE i # m + 1
        <4>1. i \in 0 .. m
          BY <3>3
        <4>2. i # 0 => g[i - 1] = f[i - 1]
          BY <2>3, <3>1
        <4>. QED
          BY <2>2, <2>3, <4>1, <4>2
      <3>. QED
        BY <3>2, <3>3
    <2>5. SettleLoop(s, p, q, m + 1, g)
      BY <2>3, <2>4 DEF SettleLoop
    <2>. QED
      BY <2>5
  <1>3. Nat \subseteq T
    <2>. HIDE DEF T
    <2>. QED
      BY <1>1, <1>2, NatCovered
  <1>. QED
    BY <1>3

\* t is s after the immediate dominators of some vertices were settled.
SettledOn(n, out, s, t, b) ==
    /\ t \in LtStates(n) /\ Forest(n, t, b)
    /\ t.vertex = s.vertex /\ t.parent = s.parent /\ t.semi = s.semi
    /\ t.bucket = s.bucket /\ t.pred = s.pred
    /\ \A y \in 1 .. n : Settled(n, out, s, y) => Settled(n, out, t, y)

\* The bucket of the parent of x, the last vertex linked, is emptied.
LEMMA EmptyFacts ==
    ASSUME NEW n \in Nat, NEW out, NEW s \in LtStates(n), Tree(n, s.parent, out),
           NEW x \in 2 .. n, Forest(n, s, x - 1), Semis(n, out, s, x - 1),
           NEW p, p = s.parent[x],
           \A i \in 1 .. Len(s.bucket[p]) :
               /\ s.bucket[p][i] \in Desc(n, s.parent, x)
               /\ s.semi[s.bucket[p][i]] = p
    PROVE  LET t == empty_bucket(s, p)
           IN /\ SettledOn(n, out, WithBucket(s, p, <<>>), t, x - 1)
              /\ \A i \in 1 .. Len(s.bucket[p]) : Settled(n, out, t, s.bucket[p][i])
  <1>. DEFINE q == s.bucket[p]
              m == Len(q)
              b == x - 1
              z == WithBucket(s, p, <<>>)
              f == CHOOSE f : SettleLoop(z, p, q, m, f)
              Good(i) == /\ SettledOn(n, out, z, f[i], b)
                         /\ \A j \in 1 .. i : Settled(n, out, f[i], q[j])
  <1>1. p \in 1 .. n
    BY DEF Tree
  <1>2. q \in Seq(1 .. n) /\ m \in Nat /\ \A i \in 1 .. m : q[i] \in 1 .. n
    <2>1. q \in Seq(1 .. n)
      BY <1>1, LtTypes
    <2>2. \A S : \A a \in Seq(S) : Len(a) \in Nat /\ \A i \in 1 .. Len(a) : a[i] \in S
      OBVIOUS
    <2>. QED
      BY <2>1, <2>2
  <1>3. SettleLoop(z, p, q, m, f)
    BY <1>2, SettleLoopExists
  <1>4. empty_bucket(s, p) = f[m]
    BY DEF empty_bucket, SettleLoop, WithBucket
  <1>5. BucketWrites(n, s, z, p, <<>>)
    <2>1. <<>> \in Seq(1 .. n)
      OBVIOUS
    <2>. QED
      BY <1>1, <2>1, BucketWrite
  <1>. HIDE DEF f, z
  <1>6. \A i \in 0 .. m : f[i] = IF i = 0 THEN z ELSE settle(f[i - 1], p, q[i])
    BY <1>3 DEF SettleLoop
  <1>7. z \in LtStates(n) /\ Forest(n, z, b) /\ z.parent = s.parent /\ z.semi = s.semi
    BY <1>5, SameForest DEF BucketWrites
  <1>8. Good(0)
    <2>1. f[0] = z
      BY <1>2, <1>6
    <2>2. SettledOn(n, out, z, z, b)
      BY <1>7 DEF SettledOn
    <2>. QED
      BY <2>1, <2>2
  <1>9. ASSUME NEW k \in 1 .. m, Good(k - 1)
        PROVE  Good(k)
    <2>. DEFINE t == f[k - 1]
                v == q[k]
                r == f[k]
    <2>1. k \in 0 .. m /\ k # 0
      OBVIOUS
    <2>2. r = settle(t, p, v)
      BY <1>6, <2>1
    <2>3. v \in Desc(n, s.parent, x) /\ s.semi[v] = p /\ v \in 1 .. n
      <3>1. q[k] \in 1 .. n
        BY <1>2
      <3>. QED
        BY <3>1
    <2>4. /\ t \in LtStates(n) /\ Forest(n, t, b)
          /\ t.vertex = z.vertex /\ t.parent = z.parent /\ t.semi = z.semi
          /\ t.bucket = z.bucket /\ t.pred = z.pred
          /\ \A y \in 1 .. n : Settled(n, out, z, y) => Settled(n, out, t, y)
          /\ \A j \in 1 .. k - 1 : Settled(n, out, t, q[j])
      BY <1>9 DEF SettledOn
    <2>. HIDE DEF t, v, r
    <2>5. Tree(n, t.parent, out) /\ Semis(n, out, t, x - 1) /\ Forest(n, t, x - 1)
          /\ p = t.parent[x] /\ v \in Desc(n, t.parent, x) /\ t.semi[v] = p
      BY <1>7, <2>3, <2>4 DEF Semis
    <2>6. Settles(n, out, t, settle(t, p, v), x - 1, v)
      BY <2>4, <2>5, SettleStep
    <2>7. /\ r \in LtStates(n) /\ Forest(n, r, b)
          /\ r.vertex = t.vertex /\ r.parent = t.parent /\ r.semi = t.semi
          /\ r.bucket = t.bucket /\ r.pred = t.pred
          /\ \A y \in 1 .. n : y # v => r.idom[y] = t.idom[y]
          /\ Settled(n, out, r, v)
      BY <2>2, <2>6 DEF Settles
    <2>8. \A y \in 1 .. n : Settled(n, out, t, y) => Settled(n, out, r, y)
      BY <2>7 DEF Settled
    <2>9. SettledOn(n, out, z, r, b)
      BY <2>4, <2>7, <2>8 DEF SettledOn
    <2>10. \A j \in 1 .. k : Settled(n, out, r, q[j])
      <3>1. ASSUME NEW j \in 1 .. k
            PROVE  Settled(n, out, r, q[j])
        <4>1. CASE j = k
          BY <2>7, <4>1 DEF v
        <4>2. CASE j # k
          <5>1. j \in 1 .. k - 1 /\ j \in 1 .. m
            BY <4>2
          <5>2. q[j] \in 1 .. n
            BY <1>2, <5>1
          <5>. QED
            BY <2>4, <2>8, <5>1, <5>2
        <4>. QED
          BY <4>1, <4>2
      <3>. QED
        BY <3>1
    <2>. QED
      BY <2>9, <2>10 DEF r
  <1>. HIDE DEF Good
  <1>10. Good(m)
    <2>. DEFINE T == {i \in Nat : i <= m => Good(i)}
    <2>1. 0 \in T
      BY <1>8
    <2>2. ASSUME NEW i \in Nat, i \in T
          PROVE  i + 1 \in T
      <3>. SUFFICES ASSUME i + 1 <= m PROVE Good(i + 1)
        OBVIOUS
      <3>. DEFINE k == i + 1
      <3>0. m \in Nat
        BY <1>2
      <3>1. k \in 1 .. m /\ k - 1 = i /\ Good(i)
        BY <2>2, <3>0
      <3>. HIDE DEF k
      <3>2. Good(k)
        BY <1>9, <3>1
      <3>. QED
        BY <3>2 DEF k
    <2>. HIDE DEF T
    <2>3. m \in T
      BY <1>2, <2>1, <2>2, NatCovered
    <2>. QED
      BY <1>2, <2>3 DEF T
  <1>. QED
    BY <1>4, <1>10 DEF Good, z

-----------------------------------------------------------------------------
(* The backward loop. *)

\* v waits in the bucket of p for the child of p it descends from.
InBucket(n, s, b, p, v) ==
    /\ v \in b + 1 .. n /\ s.semi[v] = p
    /\ \A c \in 2 .. n : s.parent[c] = p /\ v \in Desc(n, s.parent, c) => c <= b

\* The vertices in a bucket wait in it.
Buckets(n, s, b) ==
    \A p \in 1 .. n : \A i \in 1 .. Len(s.bucket[p]) : InBucket(n, s, b, p, s.bucket[p][i])

\* x waits in the bucket of its semidominator.
InSomeBucket(s, x) == \E i \in 1 .. Len(s.bucket[s.semi[x]]) : s.bucket[s.semi[x]][i] = x

\* The vertices above b are processed.
SemiInv(n, out, s, b) ==
    /\ Forest(n, s, b) /\ Semis(n, out, s, b) /\ Buckets(n, s, b)
    /\ \A x \in b + 1 .. n : Settled(n, out, s, x) \/ InSomeBucket(s, x)

\* Two states with the graph in common.
SameGraph(s, t) == t.vertex = s.vertex /\ t.parent = s.parent /\ t.pred = s.pred

\* After x is linked, and before the bucket of its parent is emptied.
LinkedInv(n, out, s, x) ==
    /\ s \in LtStates(n) /\ Forest(n, s, x - 1) /\ Semis(n, out, s, x - 1)
    /\ \A k \in 1 .. n : \A i \in 1 .. Len(s.bucket[k]) :
          LET v == s.bucket[k][i]
          IN /\ v \in x .. n /\ s.semi[v] = k
             /\ \A c \in 2 .. n : s.parent[c] = k /\ v \in Desc(n, s.parent, c) => c <= x
    /\ \A y \in x .. n : Settled(n, out, s, y) \/ InSomeBucket(s, y)

\* A vertex gets its semidominator and its link.
LEMMA LinkStep ==
    ASSUME NEW n \in Nat, NEW out, NEW s \in LtStates(n), Tree(n, s.parent, out),
           Preds(n, out, s), NEW x \in 2 .. n, SemiInv(n, out, s, x)
    PROVE  LET t == link(semidominate(s, x), s.parent[x], x)
           IN LinkedInv(n, out, t, x) /\ SameGraph(s, t)
  <1>. DEFINE r == semidominate(s, x)
              t == link(r, s.parent[x], x)
  <1>1. /\ Forest(n, s, x) /\ Semis(n, out, s, x) /\ Buckets(n, s, x)
        /\ \A y \in x + 1 .. n : Settled(n, out, s, y) \/ InSomeBucket(s, y)
    BY DEF SemiInv
  <1>2. Semidominated(n, out, s, r, x)
    BY <1>1, SemidominateFacts
  <1>. HIDE DEF r
  <1>3. /\ r \in LtStates(n) /\ Forest(n, r, x) /\ r.parent = s.parent /\ SameGraph(s, r)
        /\ r.idom = s.idom /\ IsSemi(n, out, r.semi[x], x)
        /\ \A y \in 1 .. n : y # x => r.semi[y] = s.semi[y]
        /\ \A k \in 1 .. n :
              r.bucket[k] = IF k = r.semi[x] THEN Append(s.bucket[k], x) ELSE s.bucket[k]
    BY <1>2 DEF Semidominated, SameGraph
  <1>4. t \in LtStates(n) /\ Alike(r, t) /\ Forest(n, t, x - 1)
    <2>1. Tree(n, r.parent, out) /\ s.parent[x] = r.parent[x]
      BY <1>3
    <2>. QED
      BY <1>3, <2>1, LinkFacts
  <1>. HIDE DEF t
  <1>5. /\ t.parent = s.parent /\ t.idom = s.idom /\ t.semi = r.semi /\ t.bucket = r.bucket
        /\ SameGraph(s, t)
    BY <1>3, <1>4 DEF Alike, SameGraph
  <1>6. Semis(n, out, t, x - 1)
    <2>1. ASSUME NEW y \in 1 .. x - 1
          PROVE  t.semi[y] = y
      <3>1. y \in 1 .. n /\ y # x /\ y \in 1 .. x
        OBVIOUS
      <3>. QED
        BY <1>1, <1>3, <1>5, <3>1 DEF Semis
    <2>2. ASSUME NEW y \in x - 1 + 1 .. n
          PROVE  IsSemi(n, out, t.semi[y], y)
      <3>1. CASE y = x
        BY <1>3, <1>5, <3>1
      <3>2. CASE y # x
        <4>1. y \in x + 1 .. n /\ y \in 1 .. n
          BY <3>2
        <4>. QED
          BY <1>1, <1>3, <1>5, <3>2, <4>1 DEF Semis
      <3>. QED
        BY <3>1, <3>2
    <2>. QED
      BY <2>1, <2>2 DEF Semis
  <1>7. x \in 1 .. n /\ \A k \in 1 .. n : s.bucket[k] \in Seq(1 .. n) /\ Len(s.bucket[k]) \in Nat
    <2>1. \A k \in 1 .. n : s.bucket[k] \in Seq(1 .. n)
      BY LtTypes
    <2>. QED
      BY <2>1
  <1>8. ASSUME NEW k \in 1 .. n, NEW i \in 1 .. Len(t.bucket[k])
        PROVE  LET v == t.bucket[k][i]
               IN /\ v \in x .. n /\ t.semi[v] = k
                  /\ \A c \in 2 .. n : t.parent[c] = k /\ v \in Desc(n, t.parent, c) => c <= x
    <2>. DEFINE v == t.bucket[k][i]
    <2>1. ASSUME NEW j \in 1 .. Len(s.bucket[k]), v = s.bucket[k][j]
          PROVE  /\ v \in x .. n /\ t.semi[v] = k
                 /\ \A c \in 2 .. n : t.parent[c] = k /\ v \in Desc(n, t.parent, c) => c <= x
      <3>1. InBucket(n, s, x, k, v)
        BY <1>1, <2>1 DEF Buckets
      <3>. HIDE DEF v
      <3>2. v \in x + 1 .. n /\ s.semi[v] = k
            /\ \A c \in 2 .. n : s.parent[c] = k /\ v \in Desc(n, s.parent, c) => c <= x
        BY <3>1 DEF InBucket
      <3>3. v \in x .. n /\ v \in 1 .. n /\ v # x
        BY <3>2
      <3>. QED
        BY <1>3, <1>5, <3>2, <3>3
    <2>2. CASE k # r.semi[x]
      <3>1. t.bucket[k] = s.bucket[k]
        BY <1>3, <1>5, <2>2
      <3>. QED
        BY <2>1, <3>1
    <2>3. CASE k = r.semi[x]
      <3>1. t.bucket[k] = Append(s.bucket[k], x)
        BY <1>3, <1>5, <2>3
      <3>. DEFINE q == s.bucket[k]
      <3>2. /\ Len(t.bucket[k]) = Len(q) + 1 /\ t.bucket[k][Len(q) + 1] = x
            /\ \A j \in 1 .. Len(q) : t.bucket[k][j] = q[j]
        BY <1>7, <3>1
      <3>3. CASE i = Len(q) + 1
        <4>1. v = x
          BY <3>2, <3>3
        <4>2. \A c \in 2 .. n : x \in Desc(n, s.parent, c) => c <= x
          <5>1. \A c \in 2 .. n : c \in 1 .. n
            OBVIOUS
          <5>2. \A c \in 2 .. n : Desc(n, s.parent, c) \subseteq c .. n
            BY <5>1, DescAbove DEF Tree
          <5>. QED
            BY <5>2
        <4>3. x \in x .. n
          OBVIOUS
        <4>. QED
          BY <1>5, <2>3, <4>1, <4>2, <4>3
      <3>4. CASE i # Len(q) + 1
        <4>1. Len(q) \in Nat
          BY <1>7
        <4>2. i \in 1 .. Len(q)
          BY <3>2, <3>4, <4>1
        <4>3. v = s.bucket[k][i]
          BY <3>2, <4>2
        <4>. QED
          BY <2>1, <4>2, <4>3
      <3>. QED
        BY <3>3, <3>4
    <2>. QED
      BY <2>2, <2>3
  <1>9. ASSUME NEW y \in x .. n
        PROVE  Settled(n, out, t, y) \/ InSomeBucket(t, y)
    <2>1. CASE y = x
      <3>. DEFINE k == t.semi[x]
                  q == s.bucket[k]
      <3>1. k \in 1 .. n
        BY <1>4, <1>7, LtTypes
      <3>2. t.bucket[k] = Append(q, x) /\ q \in Seq(1 .. n) /\ Len(q) \in Nat
        BY <1>3, <1>5, <1>7, <3>1
      <3>. HIDE DEF q, k
      <3>3. Len(q) + 1 \in 1 .. Len(t.bucket[k]) /\ t.bucket[k][Len(q) + 1] = x
        BY <3>2
      <3>. QED
        BY <2>1, <3>3 DEF InSomeBucket, k
    <2>2. CASE y # x
      <3>1. y \in x + 1 .. n /\ y \in 1 .. n
        BY <2>2
      <3>2. t.idom[y] = s.idom[y] /\ t.semi[y] = s.semi[y]
        BY <1>3, <1>5, <2>2, <3>1
      <3>3. CASE Settled(n, out, s, y)
        BY <3>2, <3>3 DEF Settled
      <3>4. CASE InSomeBucket(s, y)
        <4>. DEFINE k == s.semi[y]
                    q == s.bucket[k]
        <4>1. PICK i \in 1 .. Len(q) : q[i] = y
          BY <3>4 DEF InSomeBucket
        <4>2. k \in 1 .. n
          BY <3>1, LtTypes
        <4>3. q \in Seq(1 .. n) /\ (t.bucket[k] = q \/ t.bucket[k] = Append(q, x))
          BY <1>3, <1>5, <1>7, <4>2
        <4>. HIDE DEF q
        <4>4. i \in 1 .. Len(t.bucket[k]) /\ t.bucket[k][i] = y
          <5>1. CASE t.bucket[k] = q
            BY <4>1, <5>1
          <5>2. CASE t.bucket[k] = Append(q, x)
            <6>. DEFINE a == Append(q, x)
            <6>1. Len(a) = Len(q) + 1 /\ Len(q) \in Nat /\ a[i] = q[i]
              BY <4>1, <4>3
            <6>. HIDE DEF a
            <6>2. i \in 1 .. Len(a)
              BY <4>1, <6>1
            <6>. QED
              BY <4>1, <5>2, <6>1, <6>2 DEF a
          <5>. QED
            BY <4>3, <5>1, <5>2
        <4>. QED
          BY <3>2, <4>4 DEF InSomeBucket
      <3>. QED
        BY <1>1, <3>1, <3>3, <3>4
    <2>. QED
      BY <2>1, <2>2
  <1>10. LinkedInv(n, out, t, x)
    BY <1>4, <1>6, <1>8, <1>9 DEF LinkedInv
  <1>. QED
    BY <1>5, <1>10 DEF t, r

\* One vertex of the backward loop.
LEMMA SemiStep ==
    ASSUME NEW n \in Nat, NEW out, NEW s \in LtStates(n), Tree(n, s.parent, out),
           Preds(n, out, s), NEW x \in 2 .. n, SemiInv(n, out, s, x)
    PROVE  LET t == empty_bucket(link(semidominate(s, x), s.parent[x], x), s.parent[x])
           IN t \in LtStates(n) /\ SameGraph(s, t) /\ SemiInv(n, out, t, x - 1)
  <1>. DEFINE p == s.parent[x]
              r == link(semidominate(s, x), p, x)
              z == WithBucket(r, p, <<>>)
              t == empty_bucket(r, p)
              q == r.bucket[p]
  <1>1. LinkedInv(n, out, r, x) /\ SameGraph(s, r)
    BY LinkStep
  <1>. HIDE DEF r
  <1>2. /\ r \in LtStates(n) /\ Forest(n, r, x - 1) /\ Semis(n, out, r, x - 1)
        /\ r.parent = s.parent /\ p = r.parent[x] /\ Tree(n, r.parent, out)
    BY <1>1 DEF LinkedInv, SameGraph
  <1>3. \A k \in 1 .. n : \A i \in 1 .. Len(r.bucket[k]) :
           /\ r.bucket[k][i] \in x .. n /\ r.semi[r.bucket[k][i]] = k
           /\ \A c \in 2 .. n :
                 r.parent[c] = k /\ r.bucket[k][i] \in Desc(n, r.parent, c) => c <= x
    BY <1>1 DEF LinkedInv
  <1>4. \A y \in x .. n : Settled(n, out, r, y) \/ InSomeBucket(r, y)
    BY <1>1 DEF LinkedInv
  <1>5. p \in 1 .. x - 1 /\ p \in 1 .. n
    BY DEF Tree
  <1>6. ASSUME NEW i \in 1 .. Len(q)
        PROVE  q[i] \in Desc(n, r.parent, x) /\ r.semi[q[i]] = p
    <2>. DEFINE v == q[i]
    <2>1. /\ v \in x .. n /\ r.semi[v] = p
          /\ \A c \in 2 .. n : r.parent[c] = p /\ v \in Desc(n, r.parent, c) => c <= x
      BY <1>3, <1>5
    <2>. HIDE DEF v
    <2>2. v \in x - 1 + 1 .. n /\ v \in 1 .. n
      BY <2>1
    <2>3. IsSemi(n, out, p, v)
      BY <1>2, <2>1, <2>2 DEF Semis
    <2>4. p < v /\ SP(n, out, p, v)
      BY <1>5, <2>2, <2>3 DEF IsSemi
    <2>5. v \in Desc(n, r.parent, p)
      BY <1>2, <1>5, <2>2, <2>4, SemiAncestor
    <2>6. PICK c \in 2 .. n : r.parent[c] = p /\ v \in Desc(n, r.parent, c)
      BY <1>5, <2>4, <2>5, ChildOnPath
    <2>7. c <= x
      BY <2>1, <2>6
    <2>8. c \in 1 .. n /\ x \in c .. v /\ p < c
      BY <1>2, <2>1, <2>6, <2>7 DEF Tree
    <2>9. x \in Desc(n, r.parent, c)
      BY <1>2, <2>6, <2>8, Interval
    <2>10. c = x
      <3>. SUFFICES ASSUME c # x PROVE FALSE
        OBVIOUS
      <3>1. p \in Desc(n, r.parent, c)
        BY <1>2, <2>8, <2>9, DescParent
      <3>2. Desc(n, r.parent, c) \subseteq c .. n
        BY <1>2, <2>8, DescAbove DEF Tree
      <3>. QED
        BY <1>5, <2>8, <3>1, <3>2
    <2>. QED
      BY <2>1, <2>6, <2>10 DEF v
  <1>7. SettledOn(n, out, z, t, x - 1) /\ \A i \in 1 .. Len(q) : Settled(n, out, t, q[i])
    BY <1>2, <1>6, EmptyFacts
  <1>8. BucketWrites(n, r, z, p, <<>>)
    <2>1. <<>> \in Seq(1 .. n)
      OBVIOUS
    <2>. QED
      BY <1>2, <1>5, <2>1, BucketWrite
  <1>. HIDE DEF t, z
  <1>9. /\ t \in LtStates(n) /\ Forest(n, t, x - 1) /\ SameGraph(r, t)
        /\ t.semi = r.semi /\ t.parent = s.parent /\ t.bucket[p] = <<>>
        /\ \A k \in 1 .. n : k # p => t.bucket[k] = r.bucket[k]
    BY <1>2, <1>7, <1>8 DEF SettledOn, BucketWrites, SameGraph
  <1>10. \A y \in 1 .. n : Settled(n, out, r, y) => Settled(n, out, t, y)
    <2>1. \A y \in 1 .. n : Settled(n, out, r, y) => Settled(n, out, z, y)
      BY <1>8 DEF BucketWrites, Settled
    <2>. QED
      BY <1>7, <2>1 DEF SettledOn
  <1>11. Semis(n, out, t, x - 1)
    BY <1>2, <1>9 DEF Semis
  <1>12. Buckets(n, t, x - 1)
    <2>1. ASSUME NEW k \in 1 .. n, NEW i \in 1 .. Len(t.bucket[k])
          PROVE  InBucket(n, t, x - 1, k, t.bucket[k][i])
      <3>1. k # p
        BY <1>9
      <3>. DEFINE v == t.bucket[k][i]
      <3>2. t.bucket[k] = r.bucket[k]
        BY <1>9, <3>1
      <3>3. /\ v \in x .. n /\ t.semi[v] = k
            /\ \A c \in 2 .. n : t.parent[c] = k /\ v \in Desc(n, t.parent, c) => c <= x
        BY <1>2, <1>3, <1>9, <3>2
      <3>. HIDE DEF v
      <3>4. \A c \in 2 .. n : t.parent[c] = k => c # x
        BY <1>9, <3>1
      <3>5. \A c \in 2 .. n : t.parent[c] = k /\ v \in Desc(n, t.parent, c) => c <= x - 1
        BY <3>3, <3>4
      <3>6. v \in x - 1 + 1 .. n
        BY <3>3
      <3>7. InBucket(n, t, x - 1, k, v)
        BY <3>3, <3>5, <3>6 DEF InBucket
      <3>. QED
        BY <3>7 DEF v
    <2>. QED
      BY <2>1 DEF Buckets
  <1>13. ASSUME NEW y \in x - 1 + 1 .. n
         PROVE  Settled(n, out, t, y) \/ InSomeBucket(t, y)
    <2>1. y \in x .. n /\ y \in 1 .. n
      OBVIOUS
    <2>2. CASE Settled(n, out, r, y)
      BY <1>10, <2>1, <2>2
    <2>3. CASE InSomeBucket(r, y)
      <3>1. PICK i \in 1 .. Len(r.bucket[r.semi[y]]) : r.bucket[r.semi[y]][i] = y
        BY <2>3 DEF InSomeBucket
      <3>2. CASE r.semi[y] = p
        BY <1>7, <3>1, <3>2
      <3>3. CASE r.semi[y] # p
        <4>1. r.semi[y] \in 1 .. n
          BY <1>2, <2>1, LtTypes
        <4>2. t.bucket[t.semi[y]] = r.bucket[r.semi[y]] /\ t.semi[y] = r.semi[y]
          BY <1>9, <3>3, <4>1
        <4>. QED
          BY <3>1, <4>2 DEF InSomeBucket
      <3>. QED
        BY <3>2, <3>3
    <2>. QED
      BY <1>4, <2>1, <2>2, <2>3
  <1>14. SemiInv(n, out, t, x - 1)
    BY <1>9, <1>11, <1>12, <1>13 DEF SemiInv
  <1>15. SameGraph(s, t)
    BY <1>1, <1>9 DEF SameGraph
  <1>. QED
    BY <1>9, <1>14, <1>15 DEF t, r

-----------------------------------------------------------------------------
(***************************************************************************)
(* Part 3: the specification.                                              *)
(***************************************************************************)

-----------------------------------------------------------------------------
(* The search. *)

\* Its stack, and the vectors it fills.
TypeOK ==
    /\ graph \in Graphs /\ node_set = reachable_from_root
    /\ stage \in {"dfs", "semi", "idom", "done"}
    /\ last_index \in Nat \ {0} /\ lt \in LtStates(last_index)
    /\ frames \in Seq([idx : 1 .. last_index, next : Nat \ {0}])
    /\ stage = "dfs" <=> frames # <<>>

\* Every number names a node of its own, and edges are edges of the graph.
Numbering ==
    /\ lt.vertex[1] = Root
    /\ \A i \in 1 .. last_index : lt.vertex[i] \in node_set
    /\ \A i, j \in 1 .. last_index : lt.vertex[i] = lt.vertex[j] => i = j
    /\ \A c \in 2 .. last_index :
          lt.parent[c] \in 1 .. c - 1 /\ lt.vertex[c] \in Succ(lt.vertex[lt.parent[c]])
    /\ \A y \in 1 .. last_index : \A i \in 1 .. Len(lt.pred[y]) :
          lt.vertex[y] \in Succ(lt.vertex[lt.pred[y][i]])

\* The descendants of u in the search so far.
Below(u) == Desc(last_index, lt.parent, u)

\* The nodes of the running calls are numbered in the order of the calls, and
\* whatever was numbered after one of them descends from it.
Nested ==
    /\ \A k \in 1 .. Len(frames) : \A j \in 1 .. k : frames[j].idx <= frames[k].idx
    /\ \A k \in 1 .. Len(frames) : \A c \in frames[k].idx .. last_index :
          c \in Below(frames[k].idx)

\* The successor at m of the vertex x was looked at.
Scanned(x, m) ==
    \E y \in 1 .. last_index :
        /\ lt.vertex[y] = graph[lt.vertex[x]][m]
        /\ \E i \in 1 .. Len(lt.pred[y]) : lt.pred[y][i] = x
        /\ \A c \in x + 1 .. y : c \in Below(x)

\* A running call on x has not passed the successor at m.
Pending(x, m) == \E k \in 1 .. Len(frames) : frames[k].idx = x /\ frames[k].next <= m

\* Every successor is looked at, or will be.
Scan == \A x \in 1 .. last_index : \A m \in 1 .. Len(graph[lt.vertex[x]]) :
            Pending(x, m) \/ Scanned(x, m)

\* The rest of the vectors is untouched by the search.
Fresh == stage = "dfs" =>
    \A i \in 1 .. last_index : /\ lt.semi[i] = i /\ lt.label[i] = i
                               /\ lt.ancestor[i] = 0 /\ lt.bucket[i] = <<>>

\* What the search maintains, and the loops keep.
SearchInv == TypeOK /\ Numbering /\ Nested /\ Scan /\ Fresh

-----------------------------------------------------------------------------
\* g is f with the value e appended to it.
Appended(n, U, f, e, g) ==
    /\ g \in [1 .. n + 1 -> U] /\ Len(g) = n + 1
    /\ g[n + 1] = e /\ \A i \in 1 .. n : g[i] = f[i]

\* A value appended to a function on 1..n.
LEMMA AppendFun ==
    ASSUME NEW n \in Nat, NEW S, NEW U, S \subseteq U, NEW f \in [1 .. n -> S], NEW e \in U
    PROVE  Appended(n, U, f, e, Append(f, e))
  <1>. DEFINE g == Append(f, e)
  <1>1. f \in [1 .. n -> U]
    OBVIOUS
  <1>2. f \in Seq(U) /\ Len(f) = n
    BY <1>1, FunctionIsSeq
  <1>3. g \in Seq(U) /\ Len(g) = n + 1
    BY <1>2
  <1>4. \A i \in 1 .. n : g[i] = f[i]
    BY <1>2
  <1>5. g[n + 1] = e
    BY <1>2
  <1>. HIDE DEF g
  <1>6. g \in [1 .. Len(g) -> U]
    BY <1>3
  <1>7. g \in [1 .. n + 1 -> U]
    BY <1>3, <1>6
  <1>. QED
    BY <1>3, <1>4, <1>5, <1>7 DEF Appended, g

\* t is s with the vertex v, child of p, pushed.
Pushes(n, s, t, v, p) ==
    /\ t \in LtStates(n + 1) /\ Len(t.vertex) = n + 1
    /\ \A i \in 1 .. n :
          /\ t.vertex[i] = s.vertex[i] /\ t.parent[i] = s.parent[i] /\ t.semi[i] = s.semi[i]
          /\ t.ancestor[i] = s.ancestor[i] /\ t.label[i] = s.label[i]
          /\ t.bucket[i] = s.bucket[i] /\ t.pred[i] = s.pred[i]
    /\ t.vertex[n + 1] = v /\ t.parent[n + 1] = p /\ t.semi[n + 1] = n + 1
    /\ t.ancestor[n + 1] = 0 /\ t.label[n + 1] = n + 1
    /\ t.bucket[n + 1] = <<>> /\ t.pred[n + 1] = <<>>

\* What push_vertex adds.
LEMMA PushFacts ==
    ASSUME NEW n \in Nat, NEW s \in LtStates(n), NEW v \in Nodes, NEW p \in 0 .. n
    PROVE  Pushes(n, s, push_vertex(s, v, p), v, p)
  <1>. DEFINE t == push_vertex(s, v, p)
  <1>1. /\ s.vertex \in [1 .. n -> Nodes] /\ s.parent \in [1 .. n -> 0 .. n]
        /\ s.semi \in [1 .. n -> 1 .. n] /\ s.idom \in [1 .. n -> 0 .. n]
        /\ s.ancestor \in [1 .. n -> 0 .. n] /\ s.label \in [1 .. n -> 1 .. n]
        /\ s.bucket \in [1 .. n -> Seq(1 .. n)] /\ s.pred \in [1 .. n -> Seq(1 .. n)]
    BY DEF LtStates
  <1>2. Len(s.vertex) = n
    BY <1>1, FunctionIsSeq
  <1>3. t = [vertex   |-> Append(s.vertex, v),
             parent   |-> Append(s.parent, p),
             semi     |-> Append(s.semi, n + 1),
             idom     |-> Append(s.idom, 0),
             ancestor |-> Append(s.ancestor, 0),
             label    |-> Append(s.label, n + 1),
             bucket   |-> Append(s.bucket, <<>>),
             pred     |-> Append(s.pred, <<>>)]
    BY <1>2 DEF push_vertex
  <1>. HIDE DEF t
  <1>4. /\ t.vertex = Append(s.vertex, v) /\ t.parent = Append(s.parent, p)
        /\ t.semi = Append(s.semi, n + 1) /\ t.idom = Append(s.idom, 0)
        /\ t.ancestor = Append(s.ancestor, 0) /\ t.label = Append(s.label, n + 1)
        /\ t.bucket = Append(s.bucket, <<>>) /\ t.pred = Append(s.pred, <<>>)
    BY <1>3
  <1>5. /\ 0 .. n \subseteq 0 .. n + 1 /\ 1 .. n \subseteq 1 .. n + 1
        /\ 0 \in 0 .. n + 1 /\ p \in 0 .. n + 1 /\ n + 1 \in 1 .. n + 1
    OBVIOUS
  <1>6. Seq(1 .. n) \subseteq Seq(1 .. n + 1) /\ <<>> \in Seq(1 .. n + 1)
    OBVIOUS
  <1>7. Appended(n, Nodes, s.vertex, v, t.vertex)
    <2>1. /\ n \in Nat /\ Nodes \subseteq Nodes
          /\ s.vertex \in [1 .. n -> Nodes] /\ v \in Nodes
      BY <1>1
    <2>2. Appended(n, Nodes, s.vertex, v, Append(s.vertex, v))
      BY ONLY <2>1, AppendFun, Zenon
    <2>. QED
      BY <1>4, <2>2
  <1>8. Appended(n, 0 .. n + 1, s.parent, p, t.parent)
    <2>1. /\ n \in Nat /\ 0 .. n \subseteq 0 .. n + 1
          /\ s.parent \in [1 .. n -> 0 .. n] /\ p \in 0 .. n + 1
      BY <1>1, <1>5
    <2>2. Appended(n, 0 .. n + 1, s.parent, p, Append(s.parent, p))
      BY ONLY <2>1, AppendFun, Zenon
    <2>. QED
      BY <1>4, <2>2
  <1>9. Appended(n, 1 .. n + 1, s.semi, n + 1, t.semi)
    <2>1. /\ n \in Nat /\ 1 .. n \subseteq 1 .. n + 1
          /\ s.semi \in [1 .. n -> 1 .. n] /\ n + 1 \in 1 .. n + 1
      BY <1>1, <1>5
    <2>2. Appended(n, 1 .. n + 1, s.semi, n + 1, Append(s.semi, n + 1))
      BY ONLY <2>1, AppendFun, Zenon
    <2>. QED
      BY <1>4, <2>2
  <1>10. Appended(n, 0 .. n + 1, s.idom, 0, t.idom)
    <2>1. /\ n \in Nat /\ 0 .. n \subseteq 0 .. n + 1
          /\ s.idom \in [1 .. n -> 0 .. n] /\ 0 \in 0 .. n + 1
      BY <1>1, <1>5
    <2>2. Appended(n, 0 .. n + 1, s.idom, 0, Append(s.idom, 0))
      BY ONLY <2>1, AppendFun, Zenon
    <2>. QED
      BY <1>4, <2>2
  <1>11. Appended(n, 0 .. n + 1, s.ancestor, 0, t.ancestor)
    <2>1. /\ n \in Nat /\ 0 .. n \subseteq 0 .. n + 1
          /\ s.ancestor \in [1 .. n -> 0 .. n] /\ 0 \in 0 .. n + 1
      BY <1>1, <1>5
    <2>2. Appended(n, 0 .. n + 1, s.ancestor, 0, Append(s.ancestor, 0))
      BY ONLY <2>1, AppendFun, Zenon
    <2>. QED
      BY <1>4, <2>2
  <1>12. Appended(n, 1 .. n + 1, s.label, n + 1, t.label)
    <2>1. /\ n \in Nat /\ 1 .. n \subseteq 1 .. n + 1
          /\ s.label \in [1 .. n -> 1 .. n] /\ n + 1 \in 1 .. n + 1
      BY <1>1, <1>5
    <2>2. Appended(n, 1 .. n + 1, s.label, n + 1, Append(s.label, n + 1))
      BY ONLY <2>1, AppendFun, Zenon
    <2>. QED
      BY <1>4, <2>2
  <1>13. Appended(n, Seq(1 .. n + 1), s.bucket, <<>>, t.bucket)
    <2>1. /\ n \in Nat /\ Seq(1 .. n) \subseteq Seq(1 .. n + 1)
          /\ s.bucket \in [1 .. n -> Seq(1 .. n)] /\ <<>> \in Seq(1 .. n + 1)
      BY <1>1, <1>6
    <2>2. Appended(n, Seq(1 .. n + 1), s.bucket, <<>>, Append(s.bucket, <<>>))
      BY ONLY <2>1, AppendFun, Zenon
    <2>. QED
      BY <1>4, <2>2
  <1>14. Appended(n, Seq(1 .. n + 1), s.pred, <<>>, t.pred)
    <2>1. /\ n \in Nat /\ Seq(1 .. n) \subseteq Seq(1 .. n + 1)
          /\ s.pred \in [1 .. n -> Seq(1 .. n)] /\ <<>> \in Seq(1 .. n + 1)
      BY <1>1, <1>6
    <2>2. Appended(n, Seq(1 .. n + 1), s.pred, <<>>, Append(s.pred, <<>>))
      BY ONLY <2>1, AppendFun, Zenon
    <2>. QED
      BY <1>4, <2>2
  <1>15. t \in LtStates(n + 1)
    BY <1>3, <1>7, <1>8, <1>9, <1>10, <1>11, <1>12, <1>13, <1>14 DEF LtStates, Appended
  <1>16. Pushes(n, s, t, v, p)
    BY <1>7, <1>8, <1>9, <1>11, <1>12, <1>13, <1>14, <1>15 DEF Pushes, Appended
  <1>. QED
    BY <1>16 DEF t

\* A larger tree keeps its descendants.
LEMMA DescGrows ==
    ASSUME NEW n \in Nat, NEW par, NEW big, \A c \in 2 .. n : big[c] = par[c],
           NEW u \in 1 .. n
    PROVE  Desc(n, par, u) \subseteq Desc(n + 1, big, u)
  <1>. DEFINE D == Desc(n + 1, big, u)
              S == D \cap (1 .. n)
  <1>1. u \in 1 .. n + 1 /\ \A c \in 2 .. n : c \in 2 .. n + 1 /\ c \in 1 .. n
    OBVIOUS
  <1>2. D \subseteq 1 .. n + 1 /\ u \in D /\ \A c \in 2 .. n + 1 : big[c] \in D => c \in D
    BY <1>1, DescFacts
  <1>. HIDE DEF D
  <1>3. S \in SUBSET (1 .. n) /\ u \in S /\ \A c \in 2 .. n : par[c] \in S => c \in S
    BY <1>1, <1>2
  <1>. HIDE DEF S
  <1>4. Desc(n, par, u) \subseteq S
    BY <1>3, DescLeast
  <1>. QED
    BY <1>4 DEF S, D

\* The last frame, and the others.
LEMMA TopFacts ==
    ASSUME NEW S, NEW s \in Seq(S), s # <<>>
    PROVE  /\ Len(s) \in Nat \ {0} /\ Last(s) = s[Len(s)] /\ Last(s) \in S
           /\ Front(s) \in Seq(S) /\ Len(Front(s)) = Len(s) - 1
           /\ \A i \in 1 .. Len(s) - 1 : Front(s)[i] = s[i]
  <1>1. Len(s) \in Nat \ {0}
    OBVIOUS
  <1>2. Last(s) = s[Len(s)] /\ Last(s) \in S
    BY <1>1 DEF Last
  <1>. DEFINE n == Len(s) - 1
  <1>3. n \in Nat /\ n < Len(s)
    BY <1>1
  <1>4. Front(s) = SubSeq(s, 1, n)
    BY DEF Front
  <1>. HIDE DEF n
  <1>5. SubSeq(s, 1, n) \in Seq(S) /\ Len(SubSeq(s, 1, n)) = n
    BY <1>3
  <1>6. \A i \in 1 .. n : SubSeq(s, 1, n)[i] = s[i]
    BY <1>3
  <1>. QED
    BY <1>1, <1>2, <1>4, <1>5, <1>6 DEF n

\* What is reached is a set of nodes closed under what is passed, the least.
LEMMA ReachedFacts ==
    ASSUME NEW g \in [Nodes -> Seq(Nodes)], g = graph, NEW From \in SUBSET Nodes, NEW Through
    PROVE  /\ ReachedFrom(From, Through) \subseteq Nodes
           /\ From \subseteq ReachedFrom(From, Through)
           /\ \A m \in ReachedFrom(From, Through) \cap Through :
                 Succ(m) \subseteq ReachedFrom(From, Through)
  <1>1. \A m \in Nodes : Succ(m) \subseteq Nodes
    BY DEF Succ
  <1>. QED
    BY <1>1 DEF ReachedFrom

\* No smaller set of nodes that holds From is closed under what is passed.
LEMMA ReachedLeast ==
    ASSUME NEW From, NEW Through, NEW S \in SUBSET Nodes, From \subseteq S,
           \A m \in S \cap Through : Succ(m) \subseteq S
    PROVE  ReachedFrom(From, Through) \subseteq S
  BY DEF ReachedFrom

\* The set of nodes is closed.
LEMMA NodeSetFacts ==
    ASSUME TypeOK
    PROVE  /\ graph \in [Nodes -> Seq(Nodes)] /\ node_set \subseteq Nodes /\ Root \in node_set
           /\ \A m \in node_set : Succ(m) \subseteq node_set
           /\ \A m \in node_set : \A i \in 1 .. Len(graph[m]) :
                 graph[m][i] \in node_set /\ graph[m][i] \in Succ(m)
  <1>1. graph \in [Nodes -> Seq(Nodes)] /\ {Root} \in SUBSET Nodes
    BY DominatorsAssumption DEF TypeOK
  <1>2. node_set = ReachedFrom({Root}, Nodes)
    BY DEF TypeOK, reachable_from_root
  <1>3. /\ node_set \subseteq Nodes /\ {Root} \subseteq node_set
        /\ \A m \in node_set \cap Nodes : Succ(m) \subseteq node_set
    BY <1>1, <1>2, ReachedFacts
  <1>4. \A m : \A i \in 1 .. Len(graph[m]) : graph[m][i] \in Succ(m)
    BY DEF Succ
  <1>. QED
    BY <1>1, <1>3, <1>4

-----------------------------------------------------------------------------
(* The calls of dfs. *)

\* The activation records of dfs.
Frames(n) == [idx : 1 .. n, next : Nat \ {0}]

\* The call that is running.
LEMMA RunningCall ==
    ASSUME TypeOK, stage = "dfs"
    PROVE  /\ last_index \in Nat \ {0} /\ lt \in LtStates(last_index)
           /\ frames \in Seq(Frames(last_index)) /\ frames # <<>>
           /\ Len(frames) \in Nat \ {0} /\ Top = frames[Len(frames)]
           /\ Top \in Frames(last_index) /\ Top.idx \in 1 .. last_index /\ Top.next \in Nat \ {0}
  <1>1. /\ frames \in Seq(Frames(last_index)) /\ frames # <<>>
        /\ last_index \in Nat \ {0} /\ lt \in LtStates(last_index)
    BY DEF TypeOK, Frames
  <1>2. /\ Len(frames) \in Nat \ {0} /\ Last(frames) = frames[Len(frames)]
        /\ Last(frames) \in Frames(last_index)
    BY ONLY <1>1, TopFacts
  <1>3. \A f \in Frames(last_index) : f.idx \in 1 .. last_index /\ f.next \in Nat \ {0}
    BY DEF Frames
  <1>. QED
    BY <1>1, <1>2, <1>3 DEF Top

\* The set of nodes depends on the graph only.
LEMMA NodesStable ==
    ASSUME TypeOK, graph' = graph, node_set' = node_set
    PROVE  /\ graph' \in Graphs /\ node_set' = reachable_from_root'
           /\ \A m : Succ(m)' = Succ(m)
  <1>1. \A m : Succ(m)' = Succ(m)
    BY DEF Succ
  <1>2. reachable_from_root' = reachable_from_root
    BY DEF reachable_from_root, ReachedFrom, Succ
  <1>. QED
    BY <1>1, <1>2 DEF TypeOK

-----------------------------------------------------------------------------
\* A call is entered.
LEMMA DescendStep ==
    ASSUME SearchInv, Descend
    PROVE  SearchInv'
  <1>. DEFINE n == last_index
              k0 == Len(frames)
              x == Top.idx
              v == Successors[Top.next]
              f == [idx |-> n + 1, next |-> 1]
  <1>1. /\ TypeOK /\ Numbering /\ Nested /\ Scan /\ Fresh
        /\ stage = "dfs" /\ Top.next <= Len(Successors)
        /\ v \in node_set /\ ~Numbered(v)
        /\ lt' = push_vertex(lt, v, x)
        /\ frames' = Append(frames, f)
        /\ graph' = graph /\ node_set' = node_set /\ stage' = stage
    BY DEF SearchInv, Descend
  <1>2. /\ n \in Nat \ {0} /\ lt \in LtStates(n) /\ frames \in Seq(Frames(n)) /\ frames # <<>>
        /\ k0 \in Nat \ {0} /\ Top = frames[k0] /\ x \in 1 .. n /\ Top.next \in Nat \ {0}
    BY <1>1, RunningCall
  <1>3. /\ graph \in [Nodes -> Seq(Nodes)] /\ node_set \subseteq Nodes
        /\ \A m \in node_set : \A i \in 1 .. Len(graph[m]) : graph[m][i] \in Succ(m)
    BY <1>1, NodeSetFacts
  <1>4. /\ graph' \in Graphs /\ node_set' = reachable_from_root' /\ \A m : Succ(m)' = Succ(m)
    BY <1>1, NodesStable
  <1>5. /\ lt.vertex[1] = Root
        /\ \A i \in 1 .. n : lt.vertex[i] \in node_set
        /\ \A i, j \in 1 .. n : lt.vertex[i] = lt.vertex[j] => i = j
        /\ \A c \in 2 .. n : lt.parent[c] \in 1 .. c - 1 /\ lt.vertex[c] \in Succ(lt.vertex[lt.parent[c]])
        /\ \A y \in 1 .. n : \A i \in 1 .. Len(lt.pred[y]) :
              lt.vertex[y] \in Succ(lt.vertex[lt.pred[y][i]])
    BY <1>1 DEF Numbering
  <1>6. v \in Succ(lt.vertex[x])
    <2>1. /\ lt.vertex[x] \in node_set /\ Top.next \in 1 .. Len(graph[lt.vertex[x]])
          /\ v = graph[lt.vertex[x]][Top.next]
      <3>1. lt.vertex[x] \in Nodes
        BY <1>2, <1>3, <1>5
      <3>2. Len(graph[lt.vertex[x]]) \in Nat
        BY <1>3, <3>1
      <3>3. Len(Successors) = Len(graph[lt.vertex[x]])
        BY DEF Successors
      <3>4. Top.next \in 1 .. Len(graph[lt.vertex[x]])
        BY <1>1, <1>2, <3>2, <3>3
      <3>. QED
        BY <1>2, <1>5, <3>4 DEF Successors
    <2>. QED
      BY <1>3, <2>1
  <1>7. \A i \in 1 .. n : lt.vertex[i] # v
    BY <1>1 DEF Numbered
  <1>8. \A y \in 1 .. n : \A i \in 1 .. Len(lt.pred[y]) : lt.pred[y][i] \in 1 .. n
    <2>1. lt.pred \in [1 .. n -> Seq(1 .. n)]
      BY <1>2 DEF LtStates
    <2>. HIDE DEF n
    <2>2. \A y \in 1 .. n : lt.pred[y] \in Seq(1 .. n)
      BY <2>1
    <2>. DEFINE S == 1 .. n
    <2>. HIDE DEF S
    <2>3. ASSUME NEW q \in Seq(S), NEW i \in 1 .. Len(q)
          PROVE  q[i] \in S
      OBVIOUS
    <2>. QED
      BY <2>2, <2>3 DEF S
  <1>. DEFINE t == lt'
  <1>9. Pushes(n, lt, t, v, x)
    <2>1. v \in Nodes /\ x \in 0 .. n /\ n \in Nat
      BY <1>1, <1>2, <1>3
    <2>2. Pushes(n, lt, push_vertex(lt, v, x), v, x)
      BY ONLY <2>1, <1>2, PushFacts
    <2>. QED
      BY <1>1, <2>2
  <1>10. frames' \in Seq(Frames(n + 1)) /\ Len(frames') = k0 + 1
         /\ frames'[k0 + 1] = f /\ \A k \in 1 .. k0 : frames'[k] = frames[k]
    <2>1. frames \in Seq(Frames(n + 1)) /\ f \in Frames(n + 1)
      <3>1. Frames(n) \subseteq Frames(n + 1) /\ f \in Frames(n + 1)
        BY <1>2 DEF Frames
      <3>2. Seq(Frames(n)) \subseteq Seq(Frames(n + 1))
        BY <3>1
      <3>. QED
        BY <1>2, <3>1, <3>2
    <2>. HIDE DEF f
    <2>. QED
      BY <1>1, <2>1
  <1>11. \A k \in 1 .. k0 : frames[k].idx \in 1 .. n /\ frames[k].next \in Nat \ {0}
    <2>1. \A k \in 1 .. k0 : frames[k] \in Frames(n)
      BY <1>2
    <2>. QED
      BY <2>1 DEF Frames
  <1>12. /\ \A k \in 1 .. k0 : \A j \in 1 .. k : frames[j].idx <= frames[k].idx
         /\ \A k \in 1 .. k0 : \A c \in frames[k].idx .. n : c \in Desc(n, lt.parent, frames[k].idx)
    BY <1>1 DEF Nested, Below
  <1>13. \A y \in 1 .. n : \A m \in 1 .. Len(graph[lt.vertex[y]]) : Pending(y, m) \/ Scanned(y, m)
    BY <1>1 DEF Scan
  <1>14. last_index' = n + 1
    BY <1>9 DEF Pushes, last_index
  <1>. HIDE DEF n, k0, x, v, f, t
  <1>15. /\ t \in LtStates(n + 1)
         /\ \A i \in 1 .. n :
               /\ t.vertex[i] = lt.vertex[i] /\ t.parent[i] = lt.parent[i]
               /\ t.semi[i] = lt.semi[i] /\ t.ancestor[i] = lt.ancestor[i]
               /\ t.label[i] = lt.label[i] /\ t.bucket[i] = lt.bucket[i] /\ t.pred[i] = lt.pred[i]
         /\ t.vertex[n + 1] = v /\ t.parent[n + 1] = x /\ t.semi[n + 1] = n + 1
         /\ t.ancestor[n + 1] = 0 /\ t.label[n + 1] = n + 1
         /\ t.bucket[n + 1] = <<>> /\ t.pred[n + 1] = <<>>
    BY <1>9 DEF Pushes
  <1>16. \A y \in 1 .. n + 1 : y \in 1 .. n \/ y = n + 1
    BY <1>2
  <1>17. \A c \in 2 .. n + 1 : c \in 2 .. n \/ c = n + 1
    BY <1>2
  <1>18. \A y \in 1 .. n : Desc(n, lt.parent, y) \subseteq Desc(n + 1, t.parent, y)
    <2>1. n \in Nat /\ \A c \in 2 .. n : t.parent[c] = lt.parent[c]
      <3>1. \A c \in 2 .. n : c \in 1 .. n
        BY <1>2
      <3>. QED
        BY <1>2, <1>15, <3>1
    <2>. QED
      BY ONLY <2>1, DescGrows
  <1>19. TypeOK'
    <2>1. n + 1 \in Nat \ {0} /\ frames' # <<>>
      BY <1>2, <1>10
    <2>. QED
      BY <1>1, <1>4, <1>10, <1>14, <1>15, <2>1 DEF TypeOK, Frames, t
  <1>20. Numbering'
    <2>1. 1 \in 1 .. n /\ t.vertex[1] = Root
      BY <1>2, <1>5, <1>15
    <2>2. \A i \in 1 .. n + 1 : t.vertex[i] \in node_set
      BY <1>1, <1>5, <1>15, <1>16 DEF v
    <2>3. \A i, j \in 1 .. n + 1 : t.vertex[i] = t.vertex[j] => i = j
      BY <1>5, <1>7, <1>15, <1>16
    <2>4. \A c \in 2 .. n + 1 : t.parent[c] \in 1 .. c - 1 /\ t.vertex[c] \in Succ(t.vertex[t.parent[c]])
      <3>1. CASE n >= 2
        <4>1. ASSUME NEW c \in 2 .. n
              PROVE  t.parent[c] \in 1 .. c - 1 /\ t.vertex[c] \in Succ(t.vertex[t.parent[c]])
          <5>1. c \in 1 .. n /\ lt.parent[c] \in 1 .. c - 1 /\ lt.parent[c] \in 1 .. n
                /\ lt.vertex[c] \in Succ(lt.vertex[lt.parent[c]])
            BY <1>2, <1>5
          <5>. QED
            BY <1>15, <5>1
        <4>2. t.parent[n + 1] \in 1 .. (n + 1) - 1 /\ t.vertex[n + 1] \in Succ(t.vertex[t.parent[n + 1]])
          BY <1>2, <1>6, <1>15
        <4>. QED
          BY <1>17, <4>1, <4>2
      <3>2. CASE ~(n >= 2)
        <4>2. t.parent[n + 1] \in 1 .. (n + 1) - 1 /\ t.vertex[n + 1] \in Succ(t.vertex[t.parent[n + 1]])
          BY <1>2, <1>6, <1>15
        <4>3. \A c \in 2 .. n + 1 : c = n + 1
          BY <1>2, <3>2
        <4>. QED
          BY <4>2, <4>3
      <3>. QED
        BY <3>1, <3>2
    <2>5. \A y \in 1 .. n + 1 : \A i \in 1 .. Len(t.pred[y]) :
              t.vertex[y] \in Succ(t.vertex[t.pred[y][i]])
      <3>1. ASSUME NEW y \in 1 .. n, NEW i \in 1 .. Len(t.pred[y])
            PROVE  t.vertex[y] \in Succ(t.vertex[t.pred[y][i]])
        <4>1. t.pred[y] = lt.pred[y] /\ lt.pred[y][i] \in 1 .. n
          BY <1>8, <1>15
        <4>. QED
          BY <1>5, <1>15, <4>1
      <3>2. Len(t.pred[n + 1]) = 0
        BY <1>15
      <3>. QED
        BY <1>16, <3>1, <3>2
    <2>. QED
      BY <1>1, <1>4, <1>14, <2>1, <2>2, <2>3, <2>4, <2>5 DEF Numbering, t
  <1>21. Nested'
    <2>1. \A k \in 1 .. k0 + 1 : k \in 1 .. k0 \/ k = k0 + 1
      BY <1>2
    <2>2. f.idx = n + 1
      BY DEF f
    <2>3. \A k \in 1 .. k0 + 1 : \A j \in 1 .. k : frames'[j].idx <= frames'[k].idx
      <3>1. ASSUME NEW k \in 1 .. k0, NEW j \in 1 .. k
            PROVE  frames'[j].idx <= frames'[k].idx
        <4>1. j \in 1 .. k0
          BY <1>2
        <4>. QED
          BY <1>10, <1>12, <4>1
      <3>2. ASSUME NEW j \in 1 .. k0 + 1
            PROVE  frames'[j].idx <= frames'[k0 + 1].idx
        <4>1. CASE j \in 1 .. k0
          <5>1. frames'[j] = frames[j] /\ frames[j].idx \in 1 .. n /\ frames'[k0 + 1].idx = n + 1
            BY <1>10, <1>11, <2>2, <4>1
          <5>. QED
            BY <1>2, <5>1
        <4>2. CASE j = k0 + 1
          BY <1>2, <1>10, <2>2, <4>2
        <4>. QED
          BY <2>1, <4>1, <4>2
      <3>. QED
        BY <2>1, <3>1, <3>2
    <2>4. ASSUME NEW k \in 1 .. k0, NEW c \in frames[k].idx .. n + 1
          PROVE  c \in Desc(n + 1, t.parent, frames[k].idx)
      <3>. DEFINE u == frames[k].idx
      <3>1. u \in 1 .. n /\ u \in 1 .. n + 1
        BY <1>2, <1>11
      <3>2. Desc(n, lt.parent, u) \subseteq Desc(n + 1, t.parent, u)
        BY <1>18, <3>1
      <3>3. x \in Desc(n, lt.parent, u)
        <4>1. k \in 1 .. k0 /\ k0 \in 1 .. k0 /\ k \in 1 .. k0
          BY <1>2
        <4>2. u <= frames[k0].idx /\ x = frames[k0].idx
          BY <1>2, <1>12, <4>1 DEF x
        <4>3. x \in u .. n
          BY <1>2, <3>1, <4>2
        <4>. QED
          BY <1>12, <4>3
      <3>4. n + 1 \in 2 .. n + 1 /\ n + 1 \in Nat
        BY <1>2
      <3>5. n + 1 \in Desc(n + 1, t.parent, u)
        BY <1>15, <3>1, <3>2, <3>3, <3>4, DescFacts
      <3>6. c \in u .. n \/ c = n + 1
        BY <1>2, <3>1
      <3>. QED
        BY <1>12, <3>2, <3>5, <3>6
    <2>5. n + 1 \in Desc(n + 1, t.parent, n + 1)
      <3>1. n + 1 \in 1 .. n + 1 /\ n + 1 \in Nat
        BY <1>2
      <3>. QED
        BY <3>1, DescFacts
    <2>6. \A c \in n + 1 .. n + 1 : c = n + 1
      BY <1>2
    <2>7. ASSUME NEW k \in 1 .. k0 + 1, NEW c \in frames'[k].idx .. n + 1
          PROVE  c \in Desc(n + 1, t.parent, frames'[k].idx)
      <3>1. CASE k \in 1 .. k0
        BY <1>10, <2>4, <3>1
      <3>2. CASE k = k0 + 1
        BY <1>10, <2>2, <2>5, <2>6, <3>2
      <3>. QED
        BY <2>1, <3>1, <3>2
    <2>. QED
      BY <1>10, <1>14, <2>3, <2>7 DEF Nested, Below, t
  <1>22. Scan'
    <2>1. ASSUME NEW y \in 1 .. n + 1, NEW m \in 1 .. Len(graph[t.vertex[y]])
          PROVE  Pending(y, m)' \/ Scanned(y, m)'
      <3>1. CASE y = n + 1
        <4>1. f.idx = y /\ f.next = 1 /\ 1 <= m /\ k0 + 1 \in 1 .. Len(frames')
          BY <1>2, <1>10, <3>1 DEF f
        <4>. QED
          BY <1>10, <4>1 DEF Pending
      <3>2. CASE y \in 1 .. n /\ Pending(y, m)
        <4>1. PICK k \in 1 .. k0 : frames[k].idx = y /\ frames[k].next <= m
          BY <3>2 DEF Pending, k0
        <4>2. k \in 1 .. Len(frames') /\ frames'[k] = frames[k]
          BY <1>2, <1>10
        <4>. QED
          BY <4>1, <4>2 DEF Pending
      <3>3. CASE y \in 1 .. n /\ Scanned(y, m)
        <4>1. PICK z \in 1 .. n :
                 /\ lt.vertex[z] = graph[lt.vertex[y]][m]
                 /\ \E i \in 1 .. Len(lt.pred[z]) : lt.pred[z][i] = y
                 /\ \A c \in y + 1 .. z : c \in Desc(n, lt.parent, y)
          BY <3>3 DEF Scanned, Below, n
        <4>2. z \in 1 .. n + 1
          BY <1>2
        <4>3. /\ t.vertex[z] = graph[t.vertex[y]][m]
              /\ \E i \in 1 .. Len(t.pred[z]) : t.pred[z][i] = y
              /\ \A c \in y + 1 .. z : c \in Desc(n + 1, t.parent, y)
          BY <1>15, <1>18, <3>3, <4>1
        <4>. QED
          BY <1>1, <1>14, <4>2, <4>3 DEF Scanned, Below, t
      <3>4. y \in 1 .. n => m \in 1 .. Len(graph[lt.vertex[y]])
        BY <1>15
      <3>. QED
        BY <1>13, <1>16, <3>1, <3>2, <3>3, <3>4
    <2>. QED
      BY <1>1, <1>14, <2>1 DEF Scan, t
  <1>23. Fresh'
    <2>1. \A i \in 1 .. n : /\ lt.semi[i] = i /\ lt.label[i] = i
                            /\ lt.ancestor[i] = 0 /\ lt.bucket[i] = <<>>
      BY <1>1 DEF Fresh, n
    <2>2. \A i \in 1 .. n + 1 : /\ t.semi[i] = i /\ t.label[i] = i
                                /\ t.ancestor[i] = 0 /\ t.bucket[i] = <<>>
      BY <1>15, <1>16, <2>1
    <2>. QED
      BY <1>14, <2>2 DEF Fresh, t
  <1>. QED
    BY <1>19, <1>20, <1>21, <1>22, <1>23 DEF SearchInv

-----------------------------------------------------------------------------
\* t is s with x recorded as a predecessor of y.
PredWrites(n, s, t, y, x) ==
    /\ t \in LtStates(n) /\ t.vertex = s.vertex /\ t.parent = s.parent /\ t.semi = s.semi
    /\ t.idom = s.idom /\ t.bucket = s.bucket /\ t.ancestor = s.ancestor /\ t.label = s.label
    /\ t.pred[y] = Append(s.pred[y], x) /\ \A k \in 1 .. n : k # y => t.pred[k] = s.pred[k]

\* A predecessor recorded.
LEMMA PredWrite ==
    ASSUME NEW n \in Nat, NEW s \in LtStates(n), NEW y \in 1 .. n, NEW x \in 1 .. n
    PROVE  PredWrites(n, s, [s EXCEPT !.pred[y] = Append(@, x)], y, x)
  <1>. DEFINE q == Append(s.pred[y], x)
              t == [s EXCEPT !.pred[y] = q]
  <1>0. q \in Seq(1 .. n)
    <2>1. s.pred[y] \in Seq(1 .. n)
      BY DEF LtStates
    <2>. DEFINE S == 1 .. n
    <2>. HIDE DEF S
    <2>2. \A z \in Seq(S) : \A a \in S : Append(z, a) \in Seq(S)
      OBVIOUS
    <2>. QED
      BY <2>1, <2>2 DEF S
  <1>. HIDE DEF q
  <1>1. /\ t.vertex = s.vertex /\ t.parent = s.parent /\ t.bucket = s.bucket /\ t.idom = s.idom
        /\ t.semi = s.semi /\ t.label = s.label /\ t.ancestor = s.ancestor
    BY DEF LtStates
  <1>2. t.pred = [s.pred EXCEPT ![y] = q] /\ s.pred \in [1 .. n -> Seq(1 .. n)]
    BY DEF LtStates
  <1>3. t \in LtStates(n)
    BY <1>0 DEF LtStates
  <1>. HIDE DEF t
  <1>4. t.pred[y] = q /\ \A k \in 1 .. n : k # y => t.pred[k] = s.pred[k]
    BY <1>2
  <1>5. PredWrites(n, s, t, y, x)
    BY <1>1, <1>3, <1>4 DEF PredWrites, q
  <1>. QED
    BY <1>5 DEF t, q

\* The entries of a sequence that grew by one.
LEMMA Appending ==
    ASSUME NEW S, NEW s \in Seq(S), NEW e \in S
    PROVE  /\ Append(s, e) \in Seq(S) /\ Len(s) \in Nat /\ Len(Append(s, e)) = Len(s) + 1
           /\ Append(s, e)[Len(s) + 1] = e
           /\ \A i \in 1 .. Len(s) : Append(s, e)[i] = s[i]
  OBVIOUS

-----------------------------------------------------------------------------
\* A successor is looked at.
LEMMA RecordPredStep ==
    ASSUME SearchInv, RecordPred
    PROVE  SearchInv'
  <1>. DEFINE n == last_index
              k0 == Len(frames)
              x == Top.idx
              v == Successors[Top.next]
              y == number(v)
              e == [Top EXCEPT !.next = @ + 1]
              t == lt'
              In == v \in node_set
  <1>1. /\ TypeOK /\ Numbering /\ Nested /\ Scan /\ Fresh
        /\ stage = "dfs" /\ Top.next <= Len(Successors)
        /\ In => Numbered(v)
        /\ t = IF In THEN [lt EXCEPT !.pred[y] = Append(@, x)] ELSE lt
        /\ frames' = Append(Front(frames), e)
        /\ graph' = graph /\ node_set' = node_set /\ stage' = stage
    BY DEF SearchInv, RecordPred
  <1>2. /\ n \in Nat \ {0} /\ lt \in LtStates(n) /\ frames \in Seq(Frames(n)) /\ frames # <<>>
        /\ k0 \in Nat \ {0} /\ Top = frames[k0] /\ Top \in Frames(n)
        /\ x \in 1 .. n /\ Top.next \in Nat \ {0}
    BY <1>1, RunningCall
  <1>3. /\ graph \in [Nodes -> Seq(Nodes)] /\ node_set \subseteq Nodes
        /\ \A m \in node_set : \A i \in 1 .. Len(graph[m]) :
              graph[m][i] \in node_set /\ graph[m][i] \in Succ(m)
    BY <1>1, NodeSetFacts
  <1>4. /\ graph' \in Graphs /\ node_set' = reachable_from_root' /\ \A m : Succ(m)' = Succ(m)
    BY <1>1, NodesStable
  <1>5. /\ lt.vertex[1] = Root
        /\ \A i \in 1 .. n : lt.vertex[i] \in node_set
        /\ \A i, j \in 1 .. n : lt.vertex[i] = lt.vertex[j] => i = j
        /\ \A c \in 2 .. n : lt.parent[c] \in 1 .. c - 1 /\ lt.vertex[c] \in Succ(lt.vertex[lt.parent[c]])
        /\ \A z \in 1 .. n : \A i \in 1 .. Len(lt.pred[z]) :
              lt.vertex[z] \in Succ(lt.vertex[lt.pred[z][i]])
    BY <1>1 DEF Numbering
  <1>6. /\ lt.vertex[x] \in node_set /\ Top.next \in 1 .. Len(graph[lt.vertex[x]])
        /\ v = graph[lt.vertex[x]][Top.next]
    <2>1. lt.vertex[x] \in Nodes
      BY <1>2, <1>3, <1>5
    <2>2. Len(graph[lt.vertex[x]]) \in Nat
      BY <1>3, <2>1
    <2>3. Len(Successors) = Len(graph[lt.vertex[x]])
      BY DEF Successors
    <2>4. Top.next \in 1 .. Len(graph[lt.vertex[x]])
      BY <1>1, <1>2, <2>2, <2>3
    <2>. QED
      BY <1>2, <1>5, <2>4 DEF Successors
  <1>7. In /\ v \in Succ(lt.vertex[x])
    BY <1>3, <1>6
  <1>8. y \in 1 .. n /\ lt.vertex[y] = v
    <2>1. \E i \in 1 .. n : lt.vertex[i] = v
      BY <1>1, <1>7 DEF Numbered
    <2>. HIDE DEF n, v
    <2>2. y = CHOOSE i \in 1 .. n : lt.vertex[i] = v
      BY DEF number, n
    <2>. QED
      BY <2>1, <2>2
  <1>9. PredWrites(n, lt, t, y, x)
    <2>1. t = [lt EXCEPT !.pred[y] = Append(@, x)]
      BY <1>1, <1>7
    <2>2. n \in Nat
      BY <1>2
    <2>3. PredWrites(n, lt, [lt EXCEPT !.pred[y] = Append(@, x)], y, x)
      BY ONLY <2>2, <1>2, <1>8, PredWrite
    <2>. QED
      BY <2>1, <2>3
  <1>10. /\ e.idx = x /\ e.next = Top.next + 1 /\ e \in Frames(n)
    <2>1. \A f \in Frames(n) : /\ [f EXCEPT !.next = @ + 1].idx = f.idx
                               /\ [f EXCEPT !.next = @ + 1].next = f.next + 1
                               /\ [f EXCEPT !.next = @ + 1] \in Frames(n)
      BY DEF Frames
    <2>. QED
      BY <1>2, <2>1
  <1>11. \A k \in 1 .. k0 : frames[k].idx \in 1 .. n /\ frames[k].next \in Nat \ {0}
    <2>1. \A k \in 1 .. k0 : frames[k] \in Frames(n)
      BY <1>2
    <2>. QED
      BY <2>1 DEF Frames
  <1>12. /\ frames' \in Seq(Frames(n)) /\ Len(frames') = k0
         /\ frames'[k0] = e /\ \A k \in 1 .. k0 - 1 : frames'[k] = frames[k]
    <2>1. /\ Front(frames) \in Seq(Frames(n)) /\ Len(Front(frames)) = k0 - 1
          /\ \A i \in 1 .. k0 - 1 : Front(frames)[i] = frames[i]
      BY ONLY <1>2, TopFacts
    <2>. HIDE DEF e
    <2>2. LET q == Front(frames)
          IN /\ Append(q, e) \in Seq(Frames(n)) /\ Len(Append(q, e)) = Len(q) + 1
             /\ Append(q, e)[Len(q) + 1] = e
             /\ \A i \in 1 .. Len(q) : Append(q, e)[i] = q[i]
      BY ONLY <1>10, <2>1, Appending
    <2>3. (k0 - 1) + 1 = k0
      BY <1>2
    <2>. QED
      BY <1>1, <2>1, <2>2, <2>3
  <1>13. /\ \A k \in 1 .. k0 : \A j \in 1 .. k : frames[j].idx <= frames[k].idx
         /\ \A k \in 1 .. k0 : \A c \in frames[k].idx .. n : c \in Desc(n, lt.parent, frames[k].idx)
    BY <1>1 DEF Nested, Below
  <1>14. \A z \in 1 .. n : \A m \in 1 .. Len(graph[lt.vertex[z]]) : Pending(z, m) \/ Scanned(z, m)
    BY <1>1 DEF Scan
  <1>15. /\ t \in LtStates(n) /\ t.vertex = lt.vertex /\ t.parent = lt.parent
         /\ t.semi = lt.semi /\ t.label = lt.label /\ t.ancestor = lt.ancestor
         /\ t.bucket = lt.bucket /\ t.pred[y] = Append(lt.pred[y], x)
         /\ \A k \in 1 .. n : k # y => t.pred[k] = lt.pred[k]
    BY <1>9 DEF PredWrites
  <1>16. last_index' = n
    BY <1>15 DEF last_index
  <1>17. Fresh
    BY <1>1
  <1>18. \A k \in 1 .. k0 : k \in 1 .. k0 - 1 \/ k = k0
    BY <1>2
  <1>. HIDE DEF n, k0, x, v, y, e, t
  <1>19. \A k \in 1 .. k0 : frames'[k].idx = frames[k].idx
    BY <1>2, <1>10, <1>12, <1>18 DEF x
  <1>20. /\ lt.pred[y] \in Seq(1 .. n) /\ Len(lt.pred[y]) \in Nat
         /\ Len(t.pred[y]) = Len(lt.pred[y]) + 1
         /\ t.pred[y][Len(lt.pred[y]) + 1] = x
         /\ \A i \in 1 .. Len(lt.pred[y]) : t.pred[y][i] = lt.pred[y][i]
    <2>1. lt.pred[y] \in Seq(1 .. n)
      BY <1>2, <1>8 DEF LtStates
    <2>. DEFINE S == 1 .. n
                q == lt.pred[y]
    <2>. HIDE DEF S, q
    <2>2. q \in Seq(S) /\ x \in S
      BY <1>2, <2>1 DEF S, q
    <2>3. /\ Len(q) \in Nat /\ Len(Append(q, x)) = Len(q) + 1 /\ Append(q, x)[Len(q) + 1] = x
          /\ \A i \in 1 .. Len(q) : Append(q, x)[i] = q[i]
      BY ONLY <2>2, Appending
    <2>. QED
      BY <1>15, <2>1, <2>3 DEF q
  <1>21. TypeOK'
    <2>1. frames' # <<>>
      BY <1>2, <1>12
    <2>. QED
      BY <1>1, <1>2, <1>4, <1>12, <1>15, <1>16, <2>1 DEF TypeOK, Frames, t
  <1>22. Numbering'
    <2>1. ASSUME NEW z \in 1 .. n, NEW i \in 1 .. Len(t.pred[z])
          PROVE  lt.vertex[z] \in Succ(lt.vertex[t.pred[z][i]])
      <3>1. CASE z # y
        BY <1>5, <1>15, <3>1
      <3>2. CASE z = y /\ i = Len(lt.pred[y]) + 1
        BY <1>7, <1>8, <1>20, <3>2
      <3>3. CASE z = y /\ i # Len(lt.pred[y]) + 1
        <4>1. i \in 1 .. Len(lt.pred[y])
          BY <1>20, <3>3
        <4>. QED
          BY <1>5, <1>8, <1>20, <3>3, <4>1
      <3>. QED
        BY <3>1, <3>2, <3>3
    <2>. QED
      BY <1>1, <1>4, <1>5, <1>15, <1>16, <2>1 DEF Numbering, t
  <1>23. Nested'
    <2>1. \A k \in 1 .. k0 : \A j \in 1 .. k : frames'[j].idx <= frames'[k].idx
      <3>1. ASSUME NEW k \in 1 .. k0, NEW j \in 1 .. k
            PROVE  frames'[j].idx <= frames'[k].idx
        <4>1. j \in 1 .. k0
          BY <1>2
        <4>. QED
          BY <1>13, <1>19, <4>1
      <3>. QED
        BY <3>1
    <2>2. \A k \in 1 .. k0 : \A c \in frames'[k].idx .. n : c \in Desc(n, t.parent, frames'[k].idx)
      BY <1>13, <1>15, <1>19
    <2>. QED
      BY <1>12, <1>16, <2>1, <2>2 DEF Nested, Below, t
  <1>24. Scan'
    <2>1. ASSUME NEW z \in 1 .. n, NEW b \in 1 .. n,
                 \E i \in 1 .. Len(lt.pred[z]) : lt.pred[z][i] = b
          PROVE  \E i \in 1 .. Len(t.pred[z]) : t.pred[z][i] = b
      <3>1. PICK i \in 1 .. Len(lt.pred[z]) : lt.pred[z][i] = b
        BY <2>1
      <3>2. i \in 1 .. Len(t.pred[z]) /\ t.pred[z][i] = b
        <4>1. CASE z = y
          BY <1>20, <3>1, <4>1
        <4>2. CASE z # y
          BY <1>15, <3>1, <4>2
        <4>. QED
          BY <4>1, <4>2
      <3>. QED
        BY <3>2
    <2>2. ASSUME NEW z \in 1 .. n, NEW m \in 1 .. Len(graph[lt.vertex[z]])
          PROVE  Pending(z, m)' \/ Scanned(z, m)'
      <3>1. CASE Scanned(z, m)
        <4>1. PICK b \in 1 .. n :
                 /\ lt.vertex[b] = graph[lt.vertex[z]][m]
                 /\ \E i \in 1 .. Len(lt.pred[b]) : lt.pred[b][i] = z
                 /\ \A c \in z + 1 .. b : c \in Desc(n, lt.parent, z)
          BY <3>1 DEF Scanned, Below, n
        <4>2. /\ t.vertex[b] = graph[t.vertex[z]][m]
              /\ \E i \in 1 .. Len(t.pred[b]) : t.pred[b][i] = z
              /\ \A c \in z + 1 .. b : c \in Desc(n, t.parent, z)
          BY <1>15, <2>1, <4>1
        <4>. QED
          BY <1>1, <1>16, <4>1, <4>2 DEF Scanned, Below, t
      <3>2. CASE Pending(z, m)
        <4>1. PICK k \in 1 .. k0 : frames[k].idx = z /\ frames[k].next <= m
          BY <3>2 DEF Pending, k0
        <4>2. CASE k # k0
          <5>1. frames'[k] = frames[k]
            BY <1>12, <1>18, <4>2
          <5>. QED
            BY <1>12, <4>1, <5>1 DEF Pending
        <4>3. CASE k = k0 /\ Top.next # m
          <5>1. k0 \in 1 .. Len(frames') /\ frames'[k0].idx = z /\ Top.next + 1 <= m
            BY <1>2, <1>10, <1>12, <4>1, <4>3 DEF x
          <5>. QED
            BY <1>10, <1>12, <5>1 DEF Pending
        <4>4. CASE k = k0 /\ Top.next = m
          <5>1. z = x
            BY <1>2, <4>1, <4>4 DEF x
          <5>2. t.vertex[y] = graph[t.vertex[z]][m]
            BY <1>6, <1>8, <1>15, <4>4, <5>1
          <5>3. \E i \in 1 .. Len(t.pred[y]) : t.pred[y][i] = z
            <6>1. Len(lt.pred[y]) + 1 \in 1 .. Len(t.pred[y])
              BY <1>20
            <6>. QED
              BY <1>20, <5>1, <6>1
          <5>4. \A c \in z + 1 .. y : c \in Desc(n, t.parent, z)
            <6>1. \A c \in z + 1 .. y : c \in x .. n
              BY <1>2, <1>8, <5>1
            <6>2. k0 \in 1 .. k0 /\ frames[k0].idx = x
              BY <1>2 DEF x
            <6>. QED
              BY <1>13, <1>15, <5>1, <6>1, <6>2
          <5>. QED
            BY <1>1, <1>8, <1>16, <5>2, <5>3, <5>4 DEF Scanned, Below, t
        <4>. QED
          BY <4>2, <4>3, <4>4
      <3>. QED
        BY <1>14, <3>1, <3>2
    <2>. QED
      BY <1>1, <1>15, <1>16, <2>2 DEF Scan, t
  <1>25. Fresh'
    BY <1>1, <1>15, <1>16, <1>17 DEF Fresh, t, n
  <1>. QED
    BY <1>21, <1>22, <1>23, <1>24, <1>25 DEF SearchInv

-----------------------------------------------------------------------------
\* A call returns.
LEMMA ReturnStep ==
    ASSUME SearchInv, Return
    PROVE  SearchInv'
  <1>. DEFINE n == last_index
              k0 == Len(frames)
              x == Top.idx
  <1>1. /\ TypeOK /\ Numbering /\ Nested /\ Scan /\ Fresh
        /\ stage = "dfs" /\ Top.next > Len(Successors)
        /\ frames' = Front(frames)
        /\ IF k0 > 1 THEN stage' = stage ELSE stage' = "semi"
        /\ graph' = graph /\ node_set' = node_set /\ lt' = lt
    BY DEF SearchInv, Return
  <1>2. /\ n \in Nat \ {0} /\ lt \in LtStates(n) /\ frames \in Seq(Frames(n)) /\ frames # <<>>
        /\ k0 \in Nat \ {0} /\ Top = frames[k0] /\ Top \in Frames(n)
        /\ x \in 1 .. n /\ Top.next \in Nat \ {0}
    BY <1>1, RunningCall
  <1>3. graph \in [Nodes -> Seq(Nodes)] /\ node_set \subseteq Nodes
    BY <1>1, NodeSetFacts
  <1>4. /\ graph' \in Graphs /\ node_set' = reachable_from_root' /\ \A m : Succ(m)' = Succ(m)
    BY <1>1, NodesStable
  <1>5. \A i \in 1 .. n : lt.vertex[i] \in node_set
    BY <1>1 DEF Numbering
  <1>6. Len(graph[lt.vertex[x]]) \in Nat /\ Len(Successors) = Len(graph[lt.vertex[x]])
    <2>1. lt.vertex[x] \in Nodes
      BY <1>2, <1>3, <1>5
    <2>. QED
      BY <1>3, <2>1 DEF Successors
  <1>7. /\ frames' \in Seq(Frames(n)) /\ Len(frames') = k0 - 1
        /\ \A k \in 1 .. k0 - 1 : frames'[k] = frames[k]
    <2>1. /\ Front(frames) \in Seq(Frames(n)) /\ Len(Front(frames)) = k0 - 1
          /\ \A i \in 1 .. k0 - 1 : Front(frames)[i] = frames[i]
      BY ONLY <1>2, TopFacts
    <2>. QED
      BY <1>1, <2>1
  <1>8. /\ \A k \in 1 .. k0 : \A j \in 1 .. k : frames[j].idx <= frames[k].idx
        /\ \A k \in 1 .. k0 : \A c \in frames[k].idx .. n : c \in Desc(n, lt.parent, frames[k].idx)
    BY <1>1 DEF Nested, Below
  <1>9. \A z \in 1 .. n : \A m \in 1 .. Len(graph[lt.vertex[z]]) : Pending(z, m) \/ Scanned(z, m)
    BY <1>1 DEF Scan
  <1>10. last_index' = n
    BY <1>1 DEF last_index
  <1>11. \A k \in 1 .. k0 - 1 : k \in 1 .. k0
    BY <1>2
  <1>12. \A k \in 1 .. k0 : k \in 1 .. k0 - 1 \/ k = k0
    BY <1>2
  <1>13. stage' = "dfs" <=> frames' # <<>>
    <2>1. CASE k0 > 1
      BY <1>1, <1>2, <1>7, <2>1
    <2>2. CASE ~(k0 > 1)
      BY <1>1, <1>2, <1>7, <2>2
    <2>. QED
      BY <2>1, <2>2
  <1>14. stage' \in {"dfs", "semi"}
    BY <1>1
  <1>. HIDE DEF n, k0, x
  <1>15. TypeOK'
    BY <1>1, <1>2, <1>4, <1>7, <1>10, <1>13, <1>14 DEF TypeOK, Frames
  <1>16. Numbering'
    BY <1>1, <1>4, <1>10 DEF Numbering, n
  <1>17. Nested'
    <2>1. \A k \in 1 .. k0 - 1 : \A j \in 1 .. k : frames'[j].idx <= frames'[k].idx
      <3>1. ASSUME NEW k \in 1 .. k0 - 1, NEW j \in 1 .. k
            PROVE  frames'[j].idx <= frames'[k].idx
        <4>1. j \in 1 .. k0 - 1
          BY <1>2
        <4>. QED
          BY <1>7, <1>8, <1>11, <4>1
      <3>. QED
        BY <3>1
    <2>2. \A k \in 1 .. k0 - 1 : \A c \in frames'[k].idx .. n : c \in Desc(n, lt.parent, frames'[k].idx)
      BY <1>7, <1>8, <1>11
    <2>. QED
      BY <1>1, <1>7, <1>10, <2>1, <2>2 DEF Nested, Below
  <1>18. Scan'
    <2>1. ASSUME NEW z \in 1 .. n, NEW m \in 1 .. Len(graph[lt.vertex[z]])
          PROVE  Pending(z, m)' \/ Scanned(z, m)'
      <3>1. CASE Scanned(z, m)
        BY <1>1, <1>10, <3>1 DEF Scanned, Below, n
      <3>2. CASE Pending(z, m)
        <4>1. PICK k \in 1 .. k0 : frames[k].idx = z /\ frames[k].next <= m
          BY <3>2 DEF Pending, k0
        <4>2. k # k0
          <5>1. SUFFICES ASSUME k = k0 PROVE FALSE
            OBVIOUS
          <5>2. z = x /\ Top.next <= m
            BY <1>2, <4>1, <5>1 DEF x
          <5>3. m \in Nat /\ m <= Len(graph[lt.vertex[x]])
            BY <1>6, <5>2
          <5>. QED
            BY <1>1, <1>2, <1>6, <5>2, <5>3
        <4>3. k \in 1 .. k0 - 1
          BY <1>12, <4>2
        <4>4. k \in 1 .. Len(frames') /\ frames'[k] = frames[k]
          BY <1>7, <4>3
        <4>. QED
          BY <4>1, <4>4 DEF Pending
      <3>. QED
        BY <1>9, <3>1, <3>2
    <2>. QED
      BY <1>1, <1>10, <2>1 DEF Scan
  <1>19. Fresh'
    BY <1>1, <1>10 DEF Fresh, n
  <1>. QED
    BY <1>15, <1>16, <1>17, <1>18, <1>19 DEF SearchInv

\* What follows the search leaves its result alone.
LEMMA SearchStable ==
    ASSUME SearchInv, stage # "dfs", stage' \in {"semi", "idom", "done"},
           graph' = graph, node_set' = node_set, frames' = frames,
           SameGraph(lt, lt'), lt' \in LtStates(last_index)
    PROVE  SearchInv' /\ last_index' = last_index
  <1>1. TypeOK /\ Numbering /\ Nested /\ Scan
    BY DEF SearchInv
  <1>2. lt'.vertex = lt.vertex /\ lt'.parent = lt.parent /\ lt'.pred = lt.pred
    BY DEF SameGraph
  <1>3. last_index' = last_index
    BY <1>2 DEF last_index
  <1>4. /\ graph' \in Graphs /\ node_set' = reachable_from_root' /\ \A m : Succ(m)' = Succ(m)
    BY <1>1, NodesStable
  <1>5. TypeOK'
    BY <1>1, <1>3, <1>4 DEF TypeOK
  <1>6. Numbering'
    BY <1>1, <1>2, <1>3, <1>4 DEF Numbering
  <1>7. Nested'
    BY <1>1, <1>2, <1>3 DEF Nested, Below
  <1>8. Scan'
    <2>1. \A x, m : (Pending(x, m)' <=> Pending(x, m)) /\ (Scanned(x, m)' <=> Scanned(x, m))
      BY <1>2, <1>3 DEF Pending, Scanned, Below
    <2>. QED
      BY <1>1, <1>2, <1>3, <2>1 DEF Scan
  <1>9. Fresh'
    BY DEF Fresh
  <1>. QED
    BY <1>3, <1>5, <1>6, <1>7, <1>8, <1>9 DEF SearchInv

\* The search starts with the root numbered.
LEMMA SearchInit ==
    ASSUME Init
    PROVE  SearchInv
  <1>. DEFINE t == push_vertex(NoVertex, Root, 0)
              f == [idx |-> 1, next |-> 1]
  <1>1. /\ graph \in Graphs /\ node_set = reachable_from_root /\ stage = "dfs"
        /\ lt = t /\ frames = <<f>>
    BY DEF Init
  <1>2. NoVertex \in LtStates(0)
    <2>1. \A S : <<>> \in [1 .. 0 -> S]
      <3>1. 1 .. 0 = {}
        OBVIOUS
      <3>. QED
        BY <3>1
    <2>. QED
      BY <2>1 DEF NoVertex, LtStates
  <1>3. Pushes(0, NoVertex, t, Root, 0)
    <2>1. 0 \in Nat /\ Root \in Nodes /\ 0 \in 0 .. 0
      BY DominatorsAssumption
    <2>. QED
      BY ONLY <1>2, <2>1, PushFacts
  <1>. HIDE DEF t
  <1>4. /\ lt \in LtStates(1) /\ Len(lt.vertex) = 1 /\ lt.vertex[1] = Root /\ lt.semi[1] = 1
        /\ lt.ancestor[1] = 0 /\ lt.label[1] = 1 /\ lt.bucket[1] = <<>> /\ lt.pred[1] = <<>>
    BY <1>1, <1>3 DEF Pushes
  <1>5. last_index = 1 /\ \A i \in 1 .. 1 : i = 1
    BY <1>4 DEF last_index
  <1>6. frames \in Seq([idx : 1 .. 1, next : Nat \ {0}]) /\ Len(frames) = 1 /\ frames[1] = f
        /\ frames # <<>>
    BY <1>1
  <1>7. TypeOK
    BY <1>1, <1>4, <1>5, <1>6 DEF TypeOK
  <1>8. Root \in node_set
    BY <1>7, NodeSetFacts
  <1>9. Numbering
    BY <1>4, <1>5, <1>8 DEF Numbering
  <1>10. Nested
    <2>1. \A k \in 1 .. 1 : \A j \in 1 .. k : k = 1 /\ j = 1
      OBVIOUS
    <2>2. 1 \in Desc(1, lt.parent, 1)
      BY DescFacts
    <2>. QED
      BY <1>5, <1>6, <2>1, <2>2 DEF Nested, Below
  <1>11. Scan
    <2>1. \A m \in 1 .. Len(graph[lt.vertex[1]]) : Pending(1, m)
      <3>1. \A m \in 1 .. Len(graph[lt.vertex[1]]) : 1 <= m
        OBVIOUS
      <3>2. frames[1].idx = 1 /\ frames[1].next = 1 /\ 1 \in 1 .. Len(frames)
        BY <1>6
      <3>. QED
        BY <3>1, <3>2 DEF Pending
    <2>. QED
      BY <1>5, <2>1 DEF Scan
  <1>12. Fresh
    BY <1>4, <1>5 DEF Fresh
  <1>. QED
    BY <1>7, <1>9, <1>10, <1>11, <1>12 DEF SearchInv

-----------------------------------------------------------------------------
(* The numbered graph. *)

\* The edges between numbers.
Out == [v \in 1 .. last_index |-> {y \in 1 .. last_index : lt.vertex[y] \in Succ(lt.vertex[v])}]

\* The search numbers the nodes depth first, and records every predecessor.
LEMMA Searched ==
    ASSUME SearchInv, stage # "dfs"
    PROVE  /\ Tree(last_index, lt.parent, Out)
           /\ Preds(last_index, Out, lt)
           /\ analyzed = node_set
  <1>. DEFINE n == last_index
  <1>1. /\ n \in Nat \ {0} /\ lt \in LtStates(n) /\ Len(frames) = 0
    BY DEF SearchInv, TypeOK
  <1>2. /\ lt.vertex[1] = Root
        /\ \A i \in 1 .. n : lt.vertex[i] \in node_set
        /\ \A i, j \in 1 .. n : lt.vertex[i] = lt.vertex[j] => i = j
        /\ \A c \in 2 .. n : lt.parent[c] \in 1 .. c - 1 /\ lt.vertex[c] \in Succ(lt.vertex[lt.parent[c]])
        /\ \A y \in 1 .. n : \A i \in 1 .. Len(lt.pred[y]) :
              lt.vertex[y] \in Succ(lt.vertex[lt.pred[y][i]])
    BY DEF SearchInv, Numbering
  <1>3. /\ graph \in [Nodes -> Seq(Nodes)] /\ node_set \subseteq Nodes /\ Root \in node_set
        /\ \A m \in node_set : Succ(m) \subseteq node_set
    BY NodeSetFacts DEF SearchInv
  <1>4. \A x \in 1 .. n : \A m \in 1 .. Len(graph[lt.vertex[x]]) : Scanned(x, m)
    <2>1. \A x, m : ~Pending(x, m)
      <3>1. \A k \in 1 .. Len(frames) : FALSE
        BY <1>1
      <3>. QED
        BY <3>1 DEF Pending
    <2>. QED
      BY <2>1 DEF SearchInv, Scan
  <1>5. Out \in [1 .. n -> SUBSET (1 .. n)]
        /\ \A v, y \in 1 .. n : y \in Out[v] <=> lt.vertex[y] \in Succ(lt.vertex[v])
    BY DEF Out
  <1>6. ASSUME NEW x \in 1 .. n, NEW a \in Succ(lt.vertex[x])
        PROVE  \E y \in 1 .. n :
                  /\ lt.vertex[y] = a
                  /\ \E i \in 1 .. Len(lt.pred[y]) : lt.pred[y][i] = x
                  /\ \A c \in x + 1 .. y : c \in Desc(n, lt.parent, x)
    <2>1. PICK m \in 1 .. Len(graph[lt.vertex[x]]) : a = graph[lt.vertex[x]][m]
      BY DEF Succ
    <2>2. Scanned(x, m)
      BY <1>4
    <2>. QED
      BY <2>1, <2>2 DEF Scanned, Below
  <1>. HIDE DEF n
  <1>7. Tree(n, lt.parent, Out)
    <2>1. ASSUME NEW c \in 2 .. n
          PROVE  lt.parent[c] \in 1 .. c - 1 /\ c \in Out[lt.parent[c]]
      <3>1. lt.parent[c] \in 1 .. c - 1 /\ lt.parent[c] \in 1 .. n /\ c \in 1 .. n
        BY <1>1, <1>2
      <3>. QED
        BY <1>2, <1>5, <3>1
    <2>2. ASSUME NEW x \in 1 .. n, NEW y \in Out[x], NEW c \in x + 1 .. y
          PROVE  c \in Desc(n, lt.parent, x)
      <3>1. y \in 1 .. n /\ lt.vertex[y] \in Succ(lt.vertex[x])
        BY <1>5
      <3>2. PICK z \in 1 .. n : /\ lt.vertex[z] = lt.vertex[y]
                                /\ \A k \in x + 1 .. z : k \in Desc(n, lt.parent, x)
        BY <1>6, <3>1
      <3>3. z = y
        BY <1>2, <3>1, <3>2
      <3>. QED
        BY <3>2, <3>3
    <2>. QED
      BY <1>5, <2>1, <2>2 DEF Tree
  <1>8. Preds(n, Out, lt)
    <2>1. ASSUME NEW x \in 1 .. n, NEW m \in 1 .. n
          PROVE  (\E i \in 1 .. Len(lt.pred[x]) : lt.pred[x][i] = m) <=> x \in Out[m]
      <3>1. ASSUME \E i \in 1 .. Len(lt.pred[x]) : lt.pred[x][i] = m
            PROVE  x \in Out[m]
        BY <1>2, <1>5, <3>1
      <3>2. ASSUME x \in Out[m]
            PROVE  \E i \in 1 .. Len(lt.pred[x]) : lt.pred[x][i] = m
        <4>1. lt.vertex[x] \in Succ(lt.vertex[m])
          BY <1>5, <3>2
        <4>2. PICK y \in 1 .. n : /\ lt.vertex[y] = lt.vertex[x]
                                  /\ \E i \in 1 .. Len(lt.pred[y]) : lt.pred[y][i] = m
                                  /\ \A c \in m + 1 .. y : c \in Desc(n, lt.parent, m)
          BY ONLY <1>6, <4>1, m \in 1 .. n
        <4>3. y = x
          BY <1>2, <4>2
        <4>. QED
          BY <4>2, <4>3
      <3>. QED
        BY <3>1, <3>2
    <2>. QED
      BY <2>1 DEF Preds
  <1>9. analyzed = node_set
    <2>1. analyzed = {lt.vertex[i] : i \in 1 .. n}
      BY DEF analyzed, n
    <2>2. analyzed \subseteq node_set
      BY <1>2, <2>1
    <2>3. analyzed \in SUBSET Nodes /\ {Root} \subseteq analyzed
      <3>1. 1 \in 1 .. n
        BY <1>1
      <3>. QED
        BY <1>2, <1>3, <2>1, <2>2, <3>1
    <2>4. \A m \in analyzed \cap Nodes : Succ(m) \subseteq analyzed
      <3>1. ASSUME NEW i \in 1 .. n, NEW a \in Succ(lt.vertex[i])
            PROVE  a \in analyzed
        <4>1. PICK y \in 1 .. n :
                  /\ lt.vertex[y] = a
                  /\ \E j \in 1 .. Len(lt.pred[y]) : lt.pred[y][j] = i
                  /\ \A c \in i + 1 .. y : c \in Desc(n, lt.parent, i)
          BY <1>6
        <4>. QED
          BY <2>1, <4>1
      <3>. QED
        BY <2>1, <3>1
    <2>5. ReachedFrom({Root}, Nodes) \subseteq analyzed
      BY <2>3, <2>4, ReachedLeast
    <2>. QED
      BY <2>2, <2>5 DEF SearchInv, TypeOK, reachable_from_root
  <1>. QED
    BY <1>7, <1>8, <1>9 DEF n

\* The search leaves the other vectors as the backward loop wants them.
LEMMA FreshSemi ==
    ASSUME NEW n \in Nat, NEW out, NEW s \in LtStates(n),
           \A i \in 1 .. n : /\ s.semi[i] = i /\ s.label[i] = i
                             /\ s.ancestor[i] = 0 /\ s.bucket[i] = <<>>
    PROVE  SemiInv(n, out, s, n)
  <1>1. Forest(n, s, n)
    <2>1. \A x \in 1 .. n : ~(x > n)
      OBVIOUS
    <2>. QED
      BY <2>1 DEF Forest
  <1>2. \A x \in n + 1 .. n : FALSE
    OBVIOUS
  <1>3. Semis(n, out, s, n)
    BY <1>2 DEF Semis
  <1>4. Buckets(n, s, n)
    <2>1. \A p \in 1 .. n : \A i \in 1 .. Len(s.bucket[p]) : FALSE
      OBVIOUS
    <2>. QED
      BY <2>1 DEF Buckets
  <1>. QED
    BY <1>1, <1>2, <1>3, <1>4 DEF SemiInv

-----------------------------------------------------------------------------
(* The loops. *)

\* The vertices below b have their immediate dominators.
IdomInv(n, out, s, b) ==
    /\ Semis(n, out, s, 1)
    /\ \A x \in 2 .. b - 1 : s.idom[x] \in 1 .. x - 1 /\ IsIdom(n, out, s.idom[x], x)
    /\ \A x \in b .. n : Settled(n, out, s, x)

\* Once the backward loop ends, every vertex is settled.
LEMMA AllSettled ==
    ASSUME NEW n \in Nat \ {0}, NEW out, NEW s \in LtStates(n), Tree(n, s.parent, out),
           SemiInv(n, out, s, 1)
    PROVE  IdomInv(n, out, s, 2)
  <1>1. /\ Semis(n, out, s, 1) /\ Buckets(n, s, 1)
        /\ \A x \in 1 + 1 .. n : Settled(n, out, s, x) \/ InSomeBucket(s, x)
    BY DEF SemiInv
  <1>2. ASSUME NEW x \in 2 .. n
        PROVE  Settled(n, out, s, x)
    <2>1. SUFFICES ASSUME InSomeBucket(s, x)
                   PROVE  FALSE
      <3>1. x \in 1 + 1 .. n
        OBVIOUS
      <3>. QED
        BY <1>1, <3>1
    <2>. DEFINE p == s.semi[x]
    <2>2. x \in 1 .. n /\ x \in 1 + 1 .. n
      OBVIOUS
    <2>3. IsSemi(n, out, p, x)
      BY <1>1, <2>2 DEF Semis
    <2>4. p \in 1 .. x - 1 /\ SP(n, out, p, x)
      BY <2>3 DEF IsSemi
    <2>5. p \in 1 .. n /\ p < x /\ x # p
      BY <2>4
    <2>6. PICK i \in 1 .. Len(s.bucket[p]) : s.bucket[p][i] = x
      BY <2>1 DEF InSomeBucket
    <2>. HIDE DEF p
    <2>7. InBucket(n, s, 1, p, x)
      BY <1>1, <2>5, <2>6 DEF Buckets
    <2>8. n \in Nat /\ x \in Desc(n, s.parent, p)
      <3>1. n \in Nat
        OBVIOUS
      <3>. QED
        BY <2>2, <2>4, <2>5, <3>1, SemiAncestor
    <2>9. PICK c \in 2 .. n : s.parent[c] = p /\ x \in Desc(n, s.parent, c)
      BY <2>5, <2>8, ChildOnPath
    <2>10. c <= 1
      BY <2>7, <2>9 DEF InBucket
    <2>. QED
      BY <2>9, <2>10
  <1>3. \A x \in 2 .. 2 - 1 : FALSE
    OBVIOUS
  <1>. QED
    BY <1>1, <1>2, <1>3 DEF IdomInv

\* One vertex of the forward loop.
LEMMA IdomStep ==
    ASSUME NEW n \in Nat \ {0}, NEW out, NEW s \in LtStates(n), NEW x \in 2 .. n,
           IdomInv(n, out, s, x)
    PROVE  LET t == IF s.idom[x] # s.semi[x] THEN [s EXCEPT !.idom[x] = s.idom[s.idom[x]]] ELSE s
           IN t \in LtStates(n) /\ SameGraph(s, t) /\ IdomInv(n, out, t, x + 1)
  <1>. DEFINE u == s.idom[x]
              t == IF u # s.semi[x] THEN [s EXCEPT !.idom[x] = s.idom[u]] ELSE s
  <1>1. /\ Semis(n, out, s, 1)
        /\ \A y \in 2 .. x - 1 : s.idom[y] \in 1 .. y - 1 /\ IsIdom(n, out, s.idom[y], y)
        /\ \A y \in x .. n : Settled(n, out, s, y)
    BY DEF IdomInv
  <1>2. x \in 1 .. n /\ x \in x .. n /\ x \in 1 + 1 .. n /\ n \in Nat
    OBVIOUS
  <1>3. Settled(n, out, s, x)
    BY <1>1, <1>2
  <1>4. /\ t \in LtStates(n) /\ SameGraph(s, t) /\ t.semi = s.semi
        /\ t.idom[x] \in 1 .. x - 1 /\ IsIdom(n, out, t.idom[x], x)
        /\ \A k \in 1 .. n : k # x => t.idom[k] = s.idom[k]
    <2>1. CASE u # s.semi[x]
      <3>1. u \in 2 .. x - 1 /\ \A d \in 1 .. n : IsIdom(n, out, d, u) => IsIdom(n, out, d, x)
        BY <1>3, <2>1 DEF Settled
      <3>. HIDE DEF u
      <3>2. s.idom[u] \in 1 .. u - 1 /\ IsIdom(n, out, s.idom[u], u)
        BY <1>1, <3>1
      <3>3. s.idom[u] \in 1 .. x - 1 /\ s.idom[u] \in 1 .. n /\ s.idom[u] \in 0 .. n
        BY <3>1, <3>2
      <3>4. t = WithIdom(s, x, s.idom[u])
        BY <2>1 DEF WithIdom
      <3>. HIDE DEF t
      <3>5. IdomWrites(n, s, WithIdom(s, x, s.idom[u]), x, s.idom[u])
        BY ONLY <1>2, <3>3, s \in LtStates(n), IdomWrite
      <3>6. IdomWrites(n, s, t, x, s.idom[u])
        BY <3>4, <3>5
      <3>. QED
        BY <3>1, <3>2, <3>3, <3>6 DEF IdomWrites, SameGraph
    <2>2. CASE u = s.semi[x]
      <3>1. t = s
        BY <2>2
      <3>. HIDE DEF t
      <3>2. IsIdom(n, out, s.idom[x], x)
        BY <1>3, <2>2 DEF Settled
      <3>3. IsSemi(n, out, s.semi[x], x)
        BY <1>1, <1>2 DEF Semis
      <3>4. s.idom[x] \in 1 .. x - 1
        BY <2>2, <3>3 DEF IsSemi
      <3>. QED
        BY <3>1, <3>2, <3>4 DEF SameGraph
    <2>. QED
      BY <2>1, <2>2
  <1>. HIDE DEF t, u
  <1>5. Semis(n, out, t, 1)
    BY <1>1, <1>4 DEF Semis
  <1>6. \A y \in 2 .. (x + 1) - 1 : t.idom[y] \in 1 .. y - 1 /\ IsIdom(n, out, t.idom[y], y)
    <2>1. \A y \in 2 .. (x + 1) - 1 : y = x \/ (y \in 2 .. x - 1 /\ y \in 1 .. n /\ y # x)
      OBVIOUS
    <2>. QED
      BY <1>1, <1>4, <2>1
  <1>7. \A y \in x + 1 .. n : Settled(n, out, t, y)
    <2>1. \A y \in x + 1 .. n : y \in x .. n /\ y \in 1 .. n /\ y # x
      OBVIOUS
    <2>. QED
      BY <1>1, <1>4, <2>1 DEF Settled
  <1>8. IdomInv(n, out, t, x + 1)
    BY <1>5, <1>6, <1>7 DEF IdomInv
  <1>. QED
    BY <1>4, <1>8 DEF t, u

-----------------------------------------------------------------------------
(* The inductive invariant. *)

\* What holds before each turn of each loop.
DomInv ==
    /\ SearchInv
    /\ stage = "semi" => w \in 1 .. last_index /\ SemiInv(last_index, Out, lt, w)
    /\ stage = "idom" => w \in 2 .. last_index + 1 /\ IdomInv(last_index, Out, lt, w)
    /\ stage = "done" => IdomInv(last_index, Out, lt, last_index + 1)

\* The graph, the numbers and with them the edges between numbers stay.
LEMMA OutStable ==
    ASSUME graph' = graph, SameGraph(lt, lt')
    PROVE  Out' = Out /\ last_index' = last_index
  BY DEF Out, last_index, Succ, SameGraph

\* What SearchInv says once the search is over.
LEMMA LoopFacts ==
    ASSUME SearchInv, stage # "dfs"
    PROVE  /\ last_index \in Nat \ {0} /\ lt \in LtStates(last_index)
           /\ Tree(last_index, lt.parent, Out) /\ Preds(last_index, Out, lt)
  <1>1. last_index \in Nat \ {0} /\ lt \in LtStates(last_index)
    BY DEF SearchInv, TypeOK
  <1>. QED
    BY <1>1, Searched

\* Nothing but the loop variable changes.
LEMMA SameGraphSelf == \A s : SameGraph(s, s)
  BY DEF SameGraph

\* The search keeps the invariant; its last return starts the backward loop.
LEMMA SearchKeeps ==
    ASSUME DomInv, Descend \/ RecordPred \/ Return
    PROVE  DomInv'
  <1>1. SearchInv /\ stage = "dfs"
    BY DEF DomInv, Descend, RecordPred, Return
  <1>2. CASE Descend
    <2>1. SearchInv'
      BY <1>1, <1>2, DescendStep
    <2>2. stage' = "dfs"
      BY <1>1, <1>2 DEF Descend
    <2>. QED
      BY <2>1, <2>2 DEF DomInv
  <1>3. CASE RecordPred
    <2>1. SearchInv'
      BY <1>1, <1>3, RecordPredStep
    <2>2. stage' = "dfs"
      BY <1>1, <1>3 DEF RecordPred
    <2>. QED
      BY <2>1, <2>2 DEF DomInv
  <1>4. CASE Return
    <2>1. SearchInv'
      BY <1>1, <1>4, ReturnStep
    <2>2. lt' = lt /\ graph' = graph /\ (stage' = "dfs" \/ (stage' = "semi" /\ w' = last_index))
      BY <1>1, <1>4 DEF Return
    <2>3. Out' = Out /\ last_index' = last_index
      BY <2>2, OutStable, SameGraphSelf
    <2>4. last_index \in Nat \ {0} /\ lt \in LtStates(last_index)
      BY <1>1 DEF SearchInv, TypeOK
    <2>5. \A i \in 1 .. last_index : /\ lt.semi[i] = i /\ lt.label[i] = i
                                     /\ lt.ancestor[i] = 0 /\ lt.bucket[i] = <<>>
      BY <1>1 DEF SearchInv, Fresh
    <2>6. last_index \in Nat
      BY <2>4
    <2>7. SemiInv(last_index, Out, lt, last_index)
      BY ONLY <2>4, <2>5, <2>6, FreshSemi
    <2>8. last_index \in 1 .. last_index
      BY <2>4
    <2>. QED
      BY <2>1, <2>2, <2>3, <2>7, <2>8 DEF DomInv
  <1>. QED
    BY <1>2, <1>3, <1>4

\* The backward loop keeps it.
LEMMA SemidominatorKeeps ==
    ASSUME DomInv, Semidominator
    PROVE  DomInv'
  <1>. DEFINE n == last_index
  <1>1. /\ SearchInv /\ stage = "semi" /\ w \in 1 .. n /\ w >= 2 /\ SemiInv(n, Out, lt, w)
        /\ lt' = empty_bucket(link(semidominate(lt, w), lt.parent[w], w), lt.parent[w])
        /\ w' = w - 1 /\ stage' = "semi"
        /\ graph' = graph /\ node_set' = node_set /\ frames' = frames
    BY DEF DomInv, Semidominator
  <1>2. /\ n \in Nat \ {0} /\ lt \in LtStates(n)
        /\ Tree(n, lt.parent, Out) /\ Preds(n, Out, lt)
    BY <1>1, LoopFacts
  <1>. HIDE DEF n
  <1>3. w \in 2 .. n /\ n \in Nat
    BY <1>1, <1>2
  <1>4. LET t == empty_bucket(link(semidominate(lt, w), lt.parent[w], w), lt.parent[w])
        IN t \in LtStates(n) /\ SameGraph(lt, t) /\ SemiInv(n, Out, t, w - 1)
    BY ONLY <1>1, <1>2, <1>3, SemiStep, Zenon
  <1>5. lt' \in LtStates(n) /\ SameGraph(lt, lt') /\ SemiInv(n, Out, lt', w - 1)
    BY <1>1, <1>4
  <1>6. SearchInv' /\ last_index' = last_index
    BY <1>1, <1>5, SearchStable DEF n
  <1>7. Out' = Out
    BY <1>1, <1>5, OutStable
  <1>8. w - 1 \in 1 .. n
    BY <1>3
  <1>. QED
    BY <1>1, <1>5, <1>6, <1>7, <1>8 DEF DomInv, n

\* The forward loop starts with every vertex settled.
LEMMA SemiDoneKeeps ==
    ASSUME DomInv, SemiDone
    PROVE  DomInv'
  <1>. DEFINE n == last_index
  <1>1. /\ SearchInv /\ stage = "semi" /\ w \in 1 .. n /\ w < 2 /\ SemiInv(n, Out, lt, w)
        /\ lt' = lt /\ w' = 2 /\ stage' = "idom"
        /\ graph' = graph /\ node_set' = node_set /\ frames' = frames
    BY DEF DomInv, SemiDone
  <1>2. n \in Nat \ {0} /\ lt \in LtStates(n) /\ Tree(n, lt.parent, Out)
    BY <1>1, LoopFacts
  <1>. HIDE DEF n
  <1>3. w = 1 /\ 2 \in 2 .. n + 1
    BY <1>1, <1>2
  <1>4. IdomInv(n, Out, lt, 2)
    BY <1>1, <1>2, <1>3, AllSettled
  <1>5. SearchInv' /\ last_index' = last_index
    BY <1>1, <1>2, SearchStable, SameGraphSelf DEF n
  <1>6. Out' = Out
    BY <1>1, OutStable, SameGraphSelf
  <1>. QED
    BY <1>1, <1>3, <1>4, <1>5, <1>6 DEF DomInv, n

\* The forward loop keeps it.
LEMMA ImmediateKeeps ==
    ASSUME DomInv, Immediate
    PROVE  DomInv'
  <1>. DEFINE n == last_index
  <1>1. /\ SearchInv /\ stage = "idom" /\ w \in 2 .. n + 1 /\ w <= n /\ IdomInv(n, Out, lt, w)
        /\ lt' = IF lt.idom[w] # lt.semi[w] THEN [lt EXCEPT !.idom[w] = lt.idom[lt.idom[w]]] ELSE lt
        /\ w' = w + 1 /\ stage' = "idom"
        /\ graph' = graph /\ node_set' = node_set /\ frames' = frames
    BY DEF DomInv, Immediate
  <1>2. n \in Nat \ {0} /\ lt \in LtStates(n)
    BY <1>1, LoopFacts
  <1>. HIDE DEF n
  <1>3. w \in 2 .. n /\ w + 1 \in 2 .. n + 1
    BY <1>1, <1>2
  <1>4. LET t == IF lt.idom[w] # lt.semi[w] THEN [lt EXCEPT !.idom[w] = lt.idom[lt.idom[w]]] ELSE lt
        IN t \in LtStates(n) /\ SameGraph(lt, t) /\ IdomInv(n, Out, t, w + 1)
    BY ONLY <1>1, <1>2, <1>3, IdomStep, Zenon
  <1>5. lt' \in LtStates(n) /\ SameGraph(lt, lt') /\ IdomInv(n, Out, lt', w + 1)
    BY <1>1, <1>4
  <1>6. SearchInv' /\ last_index' = last_index
    BY <1>1, <1>5, SearchStable DEF n
  <1>7. Out' = Out
    BY <1>1, <1>5, OutStable
  <1>. QED
    BY <1>1, <1>3, <1>5, <1>6, <1>7 DEF DomInv, n

\* The end of the forward loop keeps it.
LEMMA ImmediateDoneKeeps ==
    ASSUME DomInv, ImmediateDone
    PROVE  DomInv'
  <1>. DEFINE n == last_index
  <1>1. /\ SearchInv /\ stage = "idom" /\ w \in 2 .. n + 1 /\ w > n /\ IdomInv(n, Out, lt, w)
        /\ lt' = lt /\ w' = w /\ stage' = "done"
        /\ graph' = graph /\ node_set' = node_set /\ frames' = frames
    BY DEF DomInv, ImmediateDone
  <1>2. n \in Nat \ {0} /\ lt \in LtStates(n)
    BY <1>1, LoopFacts
  <1>. HIDE DEF n
  <1>3. w = n + 1
    BY <1>1, <1>2
  <1>5. SearchInv' /\ last_index' = last_index
    BY <1>1, <1>2, SearchStable, SameGraphSelf DEF n
  <1>6. Out' = Out
    BY <1>1, OutStable, SameGraphSelf
  <1>. QED
    BY <1>1, <1>3, <1>5, <1>6 DEF DomInv, n

\* A step that changes nothing keeps it.
LEMMA DomInvStutter ==
    ASSUME DomInv, UNCHANGED vars
    PROVE  DomInv'
  <1>1. /\ graph' = graph /\ node_set' = node_set /\ stage' = stage /\ frames' = frames
        /\ lt' = lt /\ w' = w
    BY DEF vars
  <1>2. Out' = Out /\ last_index' = last_index
    BY <1>1, OutStable, SameGraphSelf
  <1>3. TypeOK /\ Numbering /\ Nested /\ Scan /\ Fresh
    BY DEF DomInv, SearchInv
  <1>4. /\ graph' \in Graphs /\ node_set' = reachable_from_root' /\ \A m : Succ(m)' = Succ(m)
    BY <1>1, <1>3, NodesStable
  <1>5. TypeOK'
    BY <1>1, <1>2, <1>3, <1>4 DEF TypeOK
  <1>6. Numbering'
    BY <1>1, <1>2, <1>3, <1>4 DEF Numbering
  <1>7. Nested'
    BY <1>1, <1>2, <1>3 DEF Nested, Below
  <1>8. Scan'
    <2>1. \A x, m : (Pending(x, m)' <=> Pending(x, m)) /\ (Scanned(x, m)' <=> Scanned(x, m))
      BY <1>1, <1>2 DEF Pending, Scanned, Below
    <2>. QED
      BY <1>1, <1>2, <1>3, <2>1 DEF Scan
  <1>9. Fresh'
    BY <1>1, <1>2, <1>3 DEF Fresh
  <1>. QED
    BY <1>1, <1>2, <1>5, <1>6, <1>7, <1>8, <1>9 DEF DomInv, SearchInv

\* The invariant holds in every behaviour of compute_dominators.
THEOREM DomInvariant == Spec => []DomInv
  <1>1. Init => DomInv
    <2>1. ASSUME Init PROVE DomInv
      <3>1. SearchInv /\ stage = "dfs"
        BY <2>1, SearchInit DEF Init
      <3>. QED
        BY <3>1 DEF DomInv
    <2>. QED
      BY <2>1
  <1>2. DomInv /\ [Next]_vars => DomInv'
    BY SearchKeeps, SemidominatorKeeps, SemiDoneKeeps, ImmediateKeeps, ImmediateDoneKeeps,
       DomInvStutter DEF Next
  <1>. QED
    BY <1>1, <1>2, PTL DEF Spec

-----------------------------------------------------------------------------
(* From numbers to nodes. *)

\* The numbers name the reachable nodes, each one once.
LEMMA NumberFacts ==
    ASSUME SearchInv, stage # "dfs"
    PROVE  /\ last_index \in Nat \ {0} /\ 1 \in 1 .. last_index /\ lt.vertex[1] = Root
           /\ analyzed = node_set /\ analyzed \subseteq Nodes /\ Root \in analyzed
           /\ analyzed = {lt.vertex[i] : i \in 1 .. last_index}
           /\ \A i \in 1 .. last_index : number(lt.vertex[i]) = i
           /\ \A i, j \in 1 .. last_index : lt.vertex[i] = lt.vertex[j] => i = j
           /\ \A m \in analyzed : /\ number(m) \in 1 .. last_index
                                  /\ lt.vertex[number(m)] = m /\ Succ(m) \subseteq analyzed
           /\ Out \in [1 .. last_index -> SUBSET (1 .. last_index)]
           /\ \A i, j \in 1 .. last_index : j \in Out[i] <=> lt.vertex[j] \in Succ(lt.vertex[i])
  <1>. DEFINE n == last_index
  <1>1. /\ n \in Nat \ {0} /\ lt.vertex[1] = Root
        /\ \A i, j \in 1 .. n : lt.vertex[i] = lt.vertex[j] => i = j
    BY DEF SearchInv, TypeOK, Numbering
  <1>2. analyzed = node_set /\ analyzed = {lt.vertex[i] : i \in 1 .. n}
    BY Searched DEF analyzed
  <1>3. /\ node_set \subseteq Nodes /\ Root \in node_set
        /\ \A m \in node_set : Succ(m) \subseteq node_set
    BY NodeSetFacts DEF SearchInv
  <1>4. Out \in [1 .. n -> SUBSET (1 .. n)]
        /\ \A i, j \in 1 .. n : j \in Out[i] <=> lt.vertex[j] \in Succ(lt.vertex[i])
    BY DEF Out
  <1>5. ASSUME NEW i \in 1 .. n
        PROVE  number(lt.vertex[i]) = i
    <2>1. number(lt.vertex[i]) = CHOOSE j \in 1 .. n : lt.vertex[j] = lt.vertex[i]
      BY DEF number
    <2>. HIDE DEF n
    <2>2. \E j \in 1 .. n : lt.vertex[j] = lt.vertex[i]
      OBVIOUS
    <2>3. number(lt.vertex[i]) \in 1 .. n /\ lt.vertex[number(lt.vertex[i])] = lt.vertex[i]
      BY <2>1, <2>2
    <2>. QED
      BY <1>1, <2>3
  <1>. HIDE DEF n
  <1>6. \A m \in analyzed : number(m) \in 1 .. n /\ lt.vertex[number(m)] = m
    BY <1>2, <1>5
  <1>7. 1 \in 1 .. n
    BY <1>1
  <1>. QED
    BY <1>1, <1>2, <1>3, <1>4, <1>5, <1>6, <1>7 DEF n

\* What is reached among the nodes is what is reached among their numbers.
LEMMA Transfer ==
    ASSUME SearchInv, stage # "dfs",
           NEW A \in SUBSET (1 .. last_index), NEW T, NEW From, NEW Through,
           From = {lt.vertex[i] : i \in A},
           \A i \in 1 .. last_index : lt.vertex[i] \in Through <=> i \in T,
           NEW x \in 1 .. last_index
    PROVE  lt.vertex[x] \in ReachedFrom(From, Through) <=> x \in Reach(last_index, Out, A, T)
  <1>. DEFINE n == last_index
              R == Reach(n, Out, A, T)
              Q == ReachedFrom(From, Through)
              SN == {lt.vertex[i] : i \in R}
              SI == {i \in 1 .. n : lt.vertex[i] \in Q}
  <1>1. /\ n \in Nat /\ analyzed \subseteq Nodes
        /\ analyzed = {lt.vertex[i] : i \in 1 .. n}
        /\ \A i, j \in 1 .. n : lt.vertex[i] = lt.vertex[j] => i = j
        /\ \A m \in analyzed : Succ(m) \subseteq analyzed
        /\ Out \in [1 .. n -> SUBSET (1 .. n)]
        /\ \A i, j \in 1 .. n : j \in Out[i] <=> lt.vertex[j] \in Succ(lt.vertex[i])
    BY NumberFacts
  <1>2. From \in SUBSET Nodes /\ \A i \in 1 .. n : lt.vertex[i] \in Nodes
    BY <1>1
  <1>3. graph \in [Nodes -> Seq(Nodes)]
    BY NodeSetFacts DEF SearchInv
  <1>. HIDE DEF n
  <1>4. /\ R \subseteq 1 .. n /\ A \subseteq R /\ \A m \in R \cap T : Out[m] \subseteq R
    BY <1>1, ReachFacts DEF n
  <1>5. /\ Q \subseteq Nodes /\ From \subseteq Q
        /\ \A m \in Q \cap Through : Succ(m) \subseteq Q
    BY ONLY <1>2, <1>3, ReachedFacts
  <1>. HIDE DEF R, Q
  <1>6. ASSUME lt.vertex[x] \in Q
        PROVE  x \in R
    <2>1. SN \in SUBSET Nodes /\ From \subseteq SN
      BY <1>2, <1>4
    <2>2. ASSUME NEW i \in R, lt.vertex[i] \in Through, NEW a \in Succ(lt.vertex[i])
          PROVE  a \in SN
      <3>1. i \in 1 .. n /\ i \in T
        BY <1>4, <2>2 DEF n
      <3>2. lt.vertex[i] \in analyzed /\ a \in analyzed
        BY <1>1, <3>1
      <3>3. PICK y \in 1 .. n : a = lt.vertex[y]
        BY <1>1, <3>2
      <3>4. y \in Out[i]
        BY <1>1, <3>1, <3>3
      <3>5. y \in R
        BY <1>4, <3>1, <3>4
      <3>. QED
        BY <3>3, <3>5
    <2>3. \A m \in SN \cap Through : Succ(m) \subseteq SN
      BY <2>2
    <2>. HIDE DEF SN
    <2>4. Q \subseteq SN
      BY <2>1, <2>3, ReachedLeast DEF Q
    <2>5. PICK i \in R : lt.vertex[x] = lt.vertex[i]
      BY <1>6, <2>4 DEF SN
    <2>6. x = i
      BY <1>1, <1>4, <2>5 DEF n
    <2>. QED
      BY <2>6
  <1>7. ASSUME x \in R
        PROVE  lt.vertex[x] \in Q
    <2>1. SI \in SUBSET (1 .. n) /\ A \subseteq SI
      BY <1>4, <1>5
    <2>2. ASSUME NEW i \in SI \cap T, NEW y \in Out[i]
          PROVE  y \in SI
      <3>1. i \in 1 .. n /\ lt.vertex[i] \in Q /\ lt.vertex[i] \in Through
        BY DEF n
      <3>2. y \in 1 .. n /\ lt.vertex[y] \in Succ(lt.vertex[i])
        BY <1>1, <3>1
      <3>. QED
        BY <1>5, <3>1, <3>2
    <2>3. \A m \in SI \cap T : Out[m] \subseteq SI
      BY <2>2
    <2>. HIDE DEF SI
    <2>4. R \subseteq SI
      BY <1>1, <2>1, <2>3, ReachLeast DEF R
    <2>. QED
      BY <1>7, <2>4 DEF SI
  <1>. QED
    BY <1>6, <1>7 DEF R, Q, n

\* A path of larger numbers, in either reading.
LEMMA SemiPathNumbers ==
    ASSUME SearchInv, stage # "dfs", NEW v \in 1 .. last_index, NEW x \in 1 .. last_index
    PROVE  SemiPath(v, x) <=> SP(last_index, Out, v, x)
  <1>. DEFINE n == last_index
              A == Out[v]
              T == x + 1 .. n
              Fr == Succ(lt.vertex[v])
              Above == {lt.vertex[i] : i \in x + 1 .. n}
  <1>1. /\ n \in Nat /\ analyzed = {lt.vertex[i] : i \in 1 .. n}
        /\ \A i, j \in 1 .. n : lt.vertex[i] = lt.vertex[j] => i = j
        /\ \A m \in analyzed : Succ(m) \subseteq analyzed
        /\ Out \in [1 .. n -> SUBSET (1 .. n)]
        /\ \A i, j \in 1 .. n : j \in Out[i] <=> lt.vertex[j] \in Succ(lt.vertex[i])
    BY NumberFacts
  <1>. HIDE DEF n
  <1>2. A \in SUBSET (1 .. n)
    BY <1>1 DEF n
  <1>3. Fr = {lt.vertex[i] : i \in A}
    <2>1. Fr \subseteq {lt.vertex[i] : i \in A}
      <3>1. ASSUME NEW a \in Fr
            PROVE  a \in {lt.vertex[i] : i \in A}
        <4>1. lt.vertex[v] \in analyzed
          BY <1>1 DEF n
        <4>2. PICK i \in 1 .. n : a = lt.vertex[i]
          BY <1>1, <4>1
        <4>3. i \in A
          BY <1>1, <4>2 DEF n
        <4>. QED
          BY <4>2, <4>3
      <3>. QED
        BY <3>1
    <2>2. {lt.vertex[i] : i \in A} \subseteq Fr
      BY <1>1, <1>2 DEF n
    <2>. QED
      BY <2>1, <2>2
  <1>4. \A i \in 1 .. n : lt.vertex[i] \in Above <=> i \in T
    <2>1. \A i \in x + 1 .. n : i \in 1 .. n
      OBVIOUS
    <2>. QED
      BY <1>1, <2>1
  <1>. HIDE DEF A, T, Fr, Above
  <1>5. lt.vertex[x] \in ReachedFrom(Fr, Above) <=> x \in Reach(n, Out, A, T)
    BY <1>2, <1>3, <1>4, Transfer DEF n
  <1>. QED
    BY <1>5 DEF SemiPath, SP, A, T, Fr, Above, n

\* Dominance, in either reading.
LEMMA DomNumbers ==
    ASSUME SearchInv, stage # "dfs", NEW d \in 1 .. last_index, NEW x \in 1 .. last_index
    PROVE  Dom(lt.vertex[d], lt.vertex[x]) <=> DomN(last_index, Out, d, x)
  <1>. DEFINE n == last_index
              A == {1} \ {d}
              T == (1 .. n) \ {d}
              Fr == {Root} \ {lt.vertex[d]}
              Th == Nodes \ {lt.vertex[d]}
  <1>1. /\ 1 \in 1 .. n /\ lt.vertex[1] = Root /\ analyzed \subseteq Nodes
        /\ analyzed = {lt.vertex[i] : i \in 1 .. n}
        /\ \A i, j \in 1 .. n : lt.vertex[i] = lt.vertex[j] => i = j
    BY NumberFacts
  <1>. HIDE DEF n
  <1>2. A \in SUBSET (1 .. n)
    BY <1>1
  <1>3. Fr = {lt.vertex[i] : i \in A}
    BY <1>1 DEF n
  <1>4. \A i \in 1 .. n : lt.vertex[i] \in Th <=> i \in T
    BY <1>1 DEF n
  <1>. HIDE DEF A, T, Fr, Th
  <1>5. lt.vertex[x] \in ReachedFrom(Fr, Th) <=> x \in Reach(n, Out, A, T)
    BY <1>2, <1>3, <1>4, Transfer DEF n
  <1>6. lt.vertex[d] = lt.vertex[x] <=> d = x
    BY <1>1 DEF n
  <1>. QED
    BY <1>5, <1>6 DEF Dom, DomN, Beside, A, T, Fr, Th, n

\* A node that is not reachable dominates no reachable node.
LEMMA DomReachable ==
    ASSUME SearchInv, NEW d, NEW m \in node_set, Dom(d, m)
    PROVE  d \in node_set
  <1>. DEFINE Q == ReachedFrom({Root}, Nodes \ {d})
              S == Q \cap node_set
  <1>1. /\ graph \in [Nodes -> Seq(Nodes)] /\ node_set \subseteq Nodes /\ Root \in node_set
        /\ \A k \in node_set : Succ(k) \subseteq node_set
    BY NodeSetFacts DEF SearchInv
  <1>. SUFFICES ASSUME d \notin node_set
                PROVE  FALSE
    OBVIOUS
  <1>2. {Root} \in SUBSET Nodes /\ {Root} \ {d} = {Root}
    BY <1>1
  <1>3. /\ {Root} \subseteq Q /\ \A k \in Q \cap (Nodes \ {d}) : Succ(k) \subseteq Q
    BY ONLY <1>1, <1>2, ReachedFacts
  <1>4. m \notin Q
    BY <1>2 DEF Dom
  <1>. HIDE DEF Q
  <1>5. S \in SUBSET Nodes /\ {Root} \subseteq S /\ \A k \in S \cap Nodes : Succ(k) \subseteq S
    BY <1>1, <1>3
  <1>. HIDE DEF S
  <1>6. ReachedFrom({Root}, Nodes) \subseteq S
    BY ONLY <1>5, ReachedLeast
  <1>7. m \in S
    BY <1>6 DEF SearchInv, TypeOK, reachable_from_root
  <1>. QED
    BY <1>4, <1>7 DEF S

-----------------------------------------------------------------------------
\* The semidominators are exact.
LEMMA SemiExactFrom ==
    ASSUME DomInv
    PROVE  SemiExact
  <1>. SUFFICES ASSUME stage = "semi"
                PROVE  SemiExact
    BY DEF SemiExact
  <1>. DEFINE n == last_index
  <1>1. SearchInv /\ w \in 1 .. n /\ SemiInv(n, Out, lt, w)
    BY DEF DomInv
  <1>2. n \in Nat \ {0}
    BY <1>1, LoopFacts
  <1>. HIDE DEF n
  <1>3. ASSUME NEW x \in w + 1 .. n
        PROVE  /\ x >= 2 => SemiPath(lt.semi[x], x)
               /\ \A v \in 1 .. lt.semi[x] - 1 : ~SemiPath(v, x)
    <2>1. IsSemi(n, Out, lt.semi[x], x)
      BY <1>1 DEF SemiInv, Semis
    <2>2. /\ lt.semi[x] \in 1 .. x - 1 /\ SP(n, Out, lt.semi[x], x)
          /\ \A v \in 1 .. lt.semi[x] - 1 : ~SP(n, Out, v, x)
      BY <2>1 DEF IsSemi
    <2>3. x \in 1 .. n /\ lt.semi[x] \in 1 .. n /\ \A v \in 1 .. lt.semi[x] - 1 : v \in 1 .. n
      BY <1>1, <1>2, <2>2
    <2>4. \A v \in 1 .. n : SemiPath(v, x) <=> SP(n, Out, v, x)
      BY <1>1, <2>3, SemiPathNumbers DEF n
    <2>. QED
      BY <2>2, <2>3, <2>4
  <1>. QED
    BY <1>3 DEF SemiExact, n

\* A processed vertex has its exact semidominator, at every step of the
\* backward loop.
THEOREM SemiExactAlways == Spec => []SemiExact
  BY DomInvariant, SemiExactFrom, PTL

-----------------------------------------------------------------------------
(* The dominator tree. *)

\* Dominance among the reachable nodes is a partial order with the root at
\* its bottom.
DomOrder ==
    /\ \A d \in analyzed : Dom(d, Root) => d = Root
    /\ \A a, b, c \in analyzed : Dom(a, b) /\ Dom(b, c) => Dom(a, c)
    /\ \A a, b \in analyzed : Dom(a, b) /\ Dom(b, a) => a = b

\* Dominance is such an order.
LEMMA DomOrdered ==
    ASSUME SearchInv, stage # "dfs"
    PROVE  DomOrder
  <1>. DEFINE n == last_index
  <1>1. /\ n \in Nat /\ 1 \in 1 .. n /\ lt.vertex[1] = Root
        /\ \A m \in analyzed : number(m) \in 1 .. n /\ lt.vertex[number(m)] = m
    BY NumberFacts
  <1>2. Tree(n, lt.parent, Out) /\ Out \in [1 .. n -> SUBSET (1 .. n)]
    BY Searched DEF Tree
  <1>3. \A d, x \in 1 .. n : Dom(lt.vertex[d], lt.vertex[x]) <=> DomN(n, Out, d, x)
    BY DomNumbers
  <1>. HIDE DEF n
  <1>4. ASSUME NEW d \in analyzed, Dom(d, Root)
        PROVE  d = Root
    <2>. DEFINE i == number(d)
    <2>1. i \in 1 .. n /\ lt.vertex[i] = d
      BY <1>1
    <2>. HIDE DEF i
    <2>2. DomN(n, Out, i, 1)
      BY <1>1, <1>3, <1>4, <2>1
    <2>3. i <= 1
      BY <1>1, <1>2, <2>1, <2>2, DomAncestor
    <2>4. i = 1
      BY <2>1, <2>3
    <2>. QED
      BY <1>1, <2>1, <2>4
  <1>5. ASSUME NEW a \in analyzed, NEW b \in analyzed, NEW c \in analyzed, Dom(a, b), Dom(b, c)
        PROVE  Dom(a, c)
    <2>. DEFINE i == number(a)
                j == number(b)
                k == number(c)
    <2>1. /\ i \in 1 .. n /\ lt.vertex[i] = a /\ j \in 1 .. n /\ lt.vertex[j] = b
          /\ k \in 1 .. n /\ lt.vertex[k] = c
      BY <1>1
    <2>. HIDE DEF i, j, k
    <2>2. DomN(n, Out, i, j) /\ DomN(n, Out, j, k)
      BY <1>3, <1>5, <2>1
    <2>3. DomN(n, Out, i, k)
      BY ONLY <1>1, <1>2, <2>1, <2>2, DomTrans
    <2>. QED
      BY <1>3, <2>1, <2>3
  <1>6. ASSUME NEW a \in analyzed, NEW b \in analyzed, Dom(a, b), Dom(b, a)
        PROVE  a = b
    <2>. DEFINE i == number(a)
                j == number(b)
    <2>1. /\ i \in 1 .. n /\ lt.vertex[i] = a /\ j \in 1 .. n /\ lt.vertex[j] = b
      BY <1>1
    <2>. HIDE DEF i, j
    <2>2. DomN(n, Out, i, j) /\ DomN(n, Out, j, i)
      BY <1>3, <1>6, <2>1
    <2>3. i = j
      BY ONLY <1>1, <1>2, <2>1, <2>2, DomAntisymmetric
    <2>. QED
      BY <2>1, <2>3
  <1>. QED
    BY <1>4, <1>5, <1>6 DEF DomOrder

\* The map idom holds the immediate dominators, which have smaller numbers.
IdomExact ==
    /\ DOMAIN idom = analyzed \ {Root}
    /\ \A m \in analyzed \ {Root} :
          /\ idom[m] \in analyzed /\ number(idom[m]) < number(m) /\ StrictDom(idom[m], m)
          /\ \A d \in analyzed : StrictDom(d, m) => Dom(d, idom[m])

\* The forward loop leaves the immediate dominators.
LEMMA IdomIsExact ==
    ASSUME DomInv, stage = "done"
    PROVE  IdomExact
  <1>. DEFINE n == last_index
  <1>1. SearchInv /\ stage # "dfs" /\ IdomInv(n, Out, lt, n + 1)
    BY DEF DomInv
  <1>2. /\ n \in Nat /\ 1 \in 1 .. n /\ lt.vertex[1] = Root
        /\ \A m \in analyzed : number(m) \in 1 .. n /\ lt.vertex[number(m)] = m
        /\ \A i \in 1 .. n : number(lt.vertex[i]) = i
        /\ analyzed = {lt.vertex[i] : i \in 1 .. n}
    BY <1>1, NumberFacts
  <1>3. \A d, x \in 1 .. n : Dom(lt.vertex[d], lt.vertex[x]) <=> DomN(n, Out, d, x)
    BY <1>1, DomNumbers
  <1>. HIDE DEF n
  <1>4. \A x \in 2 .. n : lt.idom[x] \in 1 .. x - 1 /\ IsIdom(n, Out, lt.idom[x], x)
    <2>1. \A x \in 2 .. n : x \in 2 .. (n + 1) - 1
      BY <1>2
    <2>. QED
      BY <1>1, <2>1 DEF IdomInv
  <1>5. DOMAIN idom = analyzed \ {Root}
        /\ \A m \in analyzed \ {Root} : idom[m] = lt.vertex[lt.idom[number(m)]]
    BY DEF idom
  <1>6. ASSUME NEW m \in analyzed \ {Root}
        PROVE  /\ idom[m] \in analyzed /\ number(idom[m]) < number(m) /\ StrictDom(idom[m], m)
               /\ \A d \in analyzed : StrictDom(d, m) => Dom(d, idom[m])
    <2>. DEFINE i == number(m)
                j == lt.idom[i]
    <2>1. i \in 1 .. n /\ lt.vertex[i] = m /\ i # 1
      BY <1>2
    <2>. HIDE DEF i
    <2>2. i \in 2 .. n
      BY <2>1
    <2>3. j \in 1 .. i - 1 /\ IsIdom(n, Out, j, i)
      BY <1>4, <2>2
    <2>4. idom[m] = lt.vertex[j]
      BY <1>5 DEF i
    <2>. HIDE DEF j
    <2>5. j \in 1 .. n /\ j < i
      BY <1>2, <2>2, <2>3
    <2>6. /\ j # i /\ DomN(n, Out, j, i)
          /\ \A e \in 1 .. n : e # i /\ DomN(n, Out, e, i) => DomN(n, Out, e, j)
      BY <2>3 DEF IsIdom
    <2>7. idom[m] \in analyzed /\ number(idom[m]) = j
      BY <1>2, <2>4, <2>5
    <2>8. StrictDom(idom[m], m)
      <3>1. idom[m] # m
        BY <1>2, <2>1, <2>4, <2>5, <2>6
      <3>2. Dom(idom[m], m)
        BY <1>3, <2>1, <2>4, <2>5, <2>6
      <3>. QED
        BY <3>1, <3>2 DEF StrictDom
    <2>9. ASSUME NEW d \in analyzed, StrictDom(d, m)
          PROVE  Dom(d, idom[m])
      <3>. DEFINE e == number(d)
      <3>1. e \in 1 .. n /\ lt.vertex[e] = d
        BY <1>2
      <3>. HIDE DEF e
      <3>2. e # i /\ DomN(n, Out, e, i)
        BY <1>3, <2>1, <2>9, <3>1 DEF StrictDom
      <3>3. DomN(n, Out, e, j)
        BY <2>6, <3>1, <3>2
      <3>. QED
        BY <1>3, <2>4, <2>5, <3>1, <3>3
    <2>. QED
      BY <2>5, <2>7, <2>8, <2>9 DEF i
  <1>. QED
    BY <1>5, <1>6 DEF IdomExact

\* A set of nodes that holds each node whose immediate dominator it holds, and
\* the root, holds them all.
LEMMA UpTheTree ==
    ASSUME DomInv, stage = "done", NEW S, Root \in S,
           \A m \in analyzed \ {Root} : idom[m] \in S => m \in S
    PROVE  analyzed \subseteq S
  <1>. DEFINE Missed == {number(m) : m \in analyzed \ S}
  <1>1. /\ \A m \in analyzed : number(m) \in 1 .. last_index
        /\ \A m \in analyzed \ {Root} : idom[m] \in analyzed /\ number(idom[m]) < number(m)
    BY IdomIsExact, NumberFacts DEF DomInv, IdomExact
  <1>. SUFFICES ASSUME analyzed \ S # {}
                PROVE  FALSE
    OBVIOUS
  <1>2. Missed \in SUBSET Nat /\ Missed # {}
    BY <1>1
  <1>. HIDE DEF Missed
  <1>3. PICK i \in Missed : \A j \in Missed : i <= j
    BY <1>2, LeastNat
  <1>4. PICK m \in analyzed \ S : i = number(m)
    BY <1>3 DEF Missed
  <1>5. m \in analyzed \ {Root} /\ idom[m] \in analyzed /\ idom[m] \notin S
    BY <1>1, <1>4
  <1>6. number(idom[m]) \in Missed
    BY <1>5 DEF Missed
  <1>7. number(idom[m]) < number(m) /\ number(m) <= number(idom[m])
    BY <1>1, <1>3, <1>4, <1>5, <1>6
  <1>8. number(m) \in Nat /\ number(idom[m]) \in Nat
    BY <1>1, <1>4, <1>5
  <1>. QED
    BY <1>7, <1>8

-----------------------------------------------------------------------------
(* The recursion of dominator_set. *)

\* The reachable dominators of x.
DomSet(x) == {d \in analyzed : Dom(d, x)}

\* f solves the recursion of dominator_set.
Ups(f) == f = [x \in analyzed |-> {x} \cup IF x \in DOMAIN idom THEN f[idom[x]] ELSE {}]

\* The dominators of a node satisfy it.
LEMMA DomSetUps ==
    ASSUME DomInv, stage = "done"
    PROVE  Ups([x \in analyzed |-> DomSet(x)])
  <1>. DEFINE f == [x \in analyzed |-> DomSet(x)]
  <1>1. IdomExact /\ DomOrder /\ Root \in analyzed
    BY IdomIsExact, DomOrdered, NumberFacts DEF DomInv
  <1>2. ASSUME NEW x \in analyzed
        PROVE  DomSet(x) = {x} \cup IF x \in DOMAIN idom THEN f[idom[x]] ELSE {}
    <2>0. Dom(x, x)
      BY DEF Dom
    <2>1. CASE x = Root
      <3>1. x \notin DOMAIN idom
        BY <1>1, <2>1 DEF IdomExact
      <3>2. DomSet(x) = {x}
        BY <1>1, <2>0, <2>1 DEF DomSet, DomOrder
      <3>. QED
        BY <3>1, <3>2
    <2>2. CASE x # Root
      <3>1. /\ x \in DOMAIN idom /\ idom[x] \in analyzed /\ Dom(idom[x], x)
            /\ \A d \in analyzed : d # x /\ Dom(d, x) => Dom(d, idom[x])
        BY <1>1, <2>2 DEF IdomExact, StrictDom
      <3>2. \A d \in analyzed : Dom(d, x) <=> d = x \/ Dom(d, idom[x])
        BY <1>1, <2>0, <3>1 DEF DomOrder
      <3>3. DomSet(x) = {x} \cup DomSet(idom[x])
        BY <3>2 DEF DomSet
      <3>. QED
        BY <3>1, <3>3
    <2>. QED
      BY <2>1, <2>2
  <1>3. f = [x \in analyzed |-> {x} \cup IF x \in DOMAIN idom THEN f[idom[x]] ELSE {}]
    BY <1>2
  <1>. QED
    BY <1>3 DEF Ups

\* Nothing else does.
LEMMA UpsDomSet ==
    ASSUME DomInv, stage = "done", NEW f, Ups(f)
    PROVE  \A x \in analyzed : f[x] = DomSet(x)
  <1>. DEFINE g == [x \in analyzed |-> DomSet(x)]
              S == {x \in analyzed : f[x] = g[x]}
  <1>1. IdomExact /\ Root \in analyzed
    BY IdomIsExact, NumberFacts DEF DomInv
  <1>2. Ups(g)
    BY DomSetUps
  <1>3. \A x \in analyzed : g[x] = DomSet(x)
    OBVIOUS
  <1>. HIDE DEF g
  <1>4. \A x \in analyzed :
           /\ f[x] = {x} \cup IF x \in DOMAIN idom THEN f[idom[x]] ELSE {}
           /\ g[x] = {x} \cup IF x \in DOMAIN idom THEN g[idom[x]] ELSE {}
    BY <1>2 DEF Ups
  <1>5. Root \in S
    <2>1. Root \notin DOMAIN idom
      BY <1>1 DEF IdomExact
    <2>. QED
      BY <1>1, <1>4, <2>1
  <1>6. \A m \in analyzed \ {Root} : idom[m] \in S => m \in S
    <2>1. \A m \in analyzed \ {Root} : m \in DOMAIN idom
      BY <1>1 DEF IdomExact
    <2>. QED
      BY <1>4, <2>1
  <1>. HIDE DEF S
  <1>7. analyzed \subseteq S
    BY <1>5, <1>6, UpTheTree
  <1>. QED
    BY <1>3, <1>7 DEF S

\* The walk up the tree visits the dominators.
LEMMA DominatorSetExact ==
    ASSUME DomInv, stage = "done", NEW x \in analyzed
    PROVE  dominator_set(x) = DomSet(x)
  <1>. DEFINE up == CHOOSE f : Ups(f)
  <1>1. Ups(up)
    BY DomSetUps
  <1>2. dominator_set(x) = up[x]
    BY DEF dominator_set, Ups
  <1>. HIDE DEF up
  <1>. QED
    BY <1>1, <1>2, UpsDomSet

\* The tree answers dominance exactly.
LEMMA DominanceExactFrom ==
    ASSUME DomInv
    PROVE  DominanceExact
  <1>. SUFFICES ASSUME stage = "done"
                PROVE  DominanceExact
    BY DEF DominanceExact
  <1>1. SearchInv /\ stage # "dfs" /\ IdomExact /\ DomOrder
    BY IdomIsExact, DomOrdered DEF DomInv
  <1>2. analyzed = node_set /\ Root \in analyzed
    BY <1>1, NumberFacts
  <1>3. ASSUME NEW m \in node_set, NEW d \in Nodes
        PROVE  dominates(d, m) <=> Dom(d, m)
    <2>1. dominator_set(m) = DomSet(m)
      BY <1>2, DominatorSetExact
    <2>2. Dom(d, m) => d \in analyzed
      BY <1>1, <1>2, DomReachable
    <2>. QED
      BY <1>2, <2>1, <2>2 DEF dominates, DomSet
  <1>4. ASSUME NEW m \in node_set \ {Root}
        PROVE  /\ StrictDom(idom[m], m)
               /\ \A d \in Nodes : StrictDom(d, m) => Dom(d, idom[m])
    <2>1. m \in analyzed \ {Root}
      BY <1>2
    <2>2. \A d \in Nodes : StrictDom(d, m) => d \in analyzed
      BY <1>1, <1>2, DomReachable DEF StrictDom
    <2>. QED
      BY <1>1, <2>1, <2>2 DEF IdomExact
  <1>. QED
    BY <1>2, <1>3, <1>4 DEF DominanceExact

\* In every behaviour, the finished tree answers dominance exactly.
THEOREM DominanceExactAlways == Spec => []DominanceExact
  BY DomInvariant, DominanceExactFrom, PTL

-----------------------------------------------------------------------------
(* The runners of dominator_frontier. *)

\* The dominators of x that do not dominate stop.
Passed(stop, x) == {d \in analyzed : Dom(d, x) /\ (Dom(stop, x) => ~Dom(d, stop))}

\* f solves the recursion of the runner.
Runs(stop, f) ==
    f = [x \in analyzed |->
            IF x = stop THEN {} ELSE {x} \cup IF x \in DOMAIN idom THEN f[idom[x]] ELSE {}]

\* They satisfy the recursion of the runner.
LEMMA PassedRuns ==
    ASSUME DomInv, stage = "done", NEW stop \in analyzed
    PROVE  Runs(stop, [x \in analyzed |-> Passed(stop, x)])
  <1>. DEFINE f == [x \in analyzed |-> Passed(stop, x)]
  <1>1. IdomExact /\ DomOrder /\ Root \in analyzed
    BY IdomIsExact, DomOrdered, NumberFacts DEF DomInv
  <1>2. ASSUME NEW x \in analyzed
        PROVE  Passed(stop, x) =
                  IF x = stop THEN {} ELSE {x} \cup IF x \in DOMAIN idom THEN f[idom[x]] ELSE {}
    <2>0. Dom(x, x)
      BY DEF Dom
    <2>1. CASE x = stop
      BY <2>0, <2>1 DEF Passed
    <2>2. CASE x # stop /\ x = Root
      <3>1. x \notin DOMAIN idom
        BY <1>1, <2>2 DEF IdomExact
      <3>2. ~Dom(stop, x)
        BY <1>1, <2>2 DEF DomOrder
      <3>3. \A d \in analyzed : Dom(d, x) <=> d = x
        BY <1>1, <2>0, <2>2 DEF DomOrder
      <3>4. Passed(stop, x) = {x}
        BY <3>2, <3>3 DEF Passed
      <3>. QED
        BY <2>2, <3>1, <3>4
    <2>3. CASE x # stop /\ x # Root
      <3>1. /\ x \in DOMAIN idom /\ idom[x] \in analyzed /\ Dom(idom[x], x)
            /\ \A d \in analyzed : d # x /\ Dom(d, x) => Dom(d, idom[x])
        BY <1>1, <2>3 DEF IdomExact, StrictDom
      <3>2. \A d \in analyzed : Dom(d, x) <=> d = x \/ Dom(d, idom[x])
        BY <1>1, <2>0, <3>1 DEF DomOrder
      <3>3. Dom(stop, x) <=> Dom(stop, idom[x])
        BY <2>3, <3>2
      <3>4. Dom(stop, x) => ~Dom(x, stop)
        BY <1>1, <2>3 DEF DomOrder
      <3>5. Passed(stop, x) = {x} \cup Passed(stop, idom[x])
        BY <3>2, <3>3, <3>4 DEF Passed
      <3>. QED
        BY <2>3, <3>1, <3>5
    <2>. QED
      BY <2>1, <2>2, <2>3
  <1>3. f = [x \in analyzed |->
               IF x = stop THEN {} ELSE {x} \cup IF x \in DOMAIN idom THEN f[idom[x]] ELSE {}]
    BY <1>2
  <1>. QED
    BY <1>3 DEF Runs

\* Nothing else does.
LEMMA RunsPassed ==
    ASSUME DomInv, stage = "done", NEW stop \in analyzed, NEW f, Runs(stop, f)
    PROVE  \A x \in analyzed : f[x] = Passed(stop, x)
  <1>. DEFINE g == [x \in analyzed |-> Passed(stop, x)]
              S == {x \in analyzed : f[x] = g[x]}
  <1>1. IdomExact /\ Root \in analyzed
    BY IdomIsExact, NumberFacts DEF DomInv
  <1>2. Runs(stop, g)
    BY PassedRuns
  <1>3. \A x \in analyzed : g[x] = Passed(stop, x)
    OBVIOUS
  <1>. HIDE DEF g
  <1>4. \A x \in analyzed :
           /\ f[x] = IF x = stop THEN {} ELSE {x} \cup IF x \in DOMAIN idom THEN f[idom[x]] ELSE {}
           /\ g[x] = IF x = stop THEN {} ELSE {x} \cup IF x \in DOMAIN idom THEN g[idom[x]] ELSE {}
    BY <1>2 DEF Runs
  <1>5. Root \in S
    <2>1. Root \notin DOMAIN idom
      BY <1>1 DEF IdomExact
    <2>. QED
      BY <1>1, <1>4, <2>1
  <1>6. \A m \in analyzed \ {Root} : idom[m] \in S => m \in S
    <2>1. \A m \in analyzed \ {Root} : m \in DOMAIN idom
      BY <1>1 DEF IdomExact
    <2>. QED
      BY <1>4, <2>1
  <1>. HIDE DEF S
  <1>7. analyzed \subseteq S
    BY <1>5, <1>6, UpTheTree
  <1>. QED
    BY <1>3, <1>7 DEF S

\* The runner visits exactly them.
LEMMA RunnersExact ==
    ASSUME DomInv, stage = "done", NEW stop \in analyzed, NEW p \in analyzed
    PROVE  runners(p, stop) = Passed(stop, p)
  <1>. DEFINE up == CHOOSE f : Runs(stop, f)
  <1>1. Runs(stop, up)
    BY PassedRuns
  <1>2. runners(p, stop) = up[p]
    BY DEF runners, Runs
  <1>. HIDE DEF up
  <1>. QED
    BY <1>1, <1>2, RunsPassed

-----------------------------------------------------------------------------
\* The predecessors kept for a node are its predecessors, and when there is
\* but one it dominates the node.
LEMMA PredsExact ==
    ASSUME DomInv, stage = "done", NEW y \in analyzed \ {Root}
    PROVE  /\ Len(preds[y]) \in Nat
           /\ \A i \in 1 .. Len(preds[y]) : preds[y][i] \in analyzed /\ y \in Succ(preds[y][i])
           /\ \A p \in analyzed :
                 y \in Succ(p) => /\ \E i \in 1 .. Len(preds[y]) : preds[y][i] = p
                                  /\ Dom(idom[y], p)
                                  /\ Len(preds[y]) < 2 => StrictDom(p, y)
  <1>. DEFINE n == last_index
              x == number(y)
              q == lt.pred[x]
              j == lt.idom[x]
  <1>1. SearchInv /\ stage # "dfs"
    BY DEF DomInv
  <1>2. /\ n \in Nat /\ 1 \in 1 .. n /\ lt.vertex[1] = Root
        /\ \A m \in analyzed : number(m) \in 1 .. n /\ lt.vertex[number(m)] = m
        /\ \A i, k \in 1 .. n : lt.vertex[i] = lt.vertex[k] => i = k
        /\ Out \in [1 .. n -> SUBSET (1 .. n)]
        /\ \A i, k \in 1 .. n : k \in Out[i] <=> lt.vertex[k] \in Succ(lt.vertex[i])
        /\ analyzed = {lt.vertex[i] : i \in 1 .. n}
    BY <1>1, NumberFacts
  <1>3. /\ lt \in LtStates(n) /\ Tree(n, lt.parent, Out) /\ Preds(n, Out, lt)
    BY <1>1, LoopFacts
  <1>4. \A d, k \in 1 .. n : Dom(lt.vertex[d], lt.vertex[k]) <=> DomN(n, Out, d, k)
    BY <1>1, DomNumbers
  <1>5. preds[y] = [i \in 1 .. Len(q) |-> lt.vertex[q[i]]]
    BY DEF preds
  <1>. HIDE DEF n, x
  <1>6. x \in 1 .. n /\ lt.vertex[x] = y /\ x # 1
    BY <1>2 DEF x
  <1>7. x \in 2 .. n
    BY <1>6
  <1>8. q \in Seq(1 .. n)
    BY <1>3, <1>6 DEF LtStates
  <1>9. \A m \in 1 .. n : (\E i \in 1 .. Len(q) : q[i] = m) <=> x \in Out[m]
    BY <1>3, <1>6 DEF Preds
  <1>. HIDE DEF q
  <1>10. Len(q) \in Nat /\ \A i \in 1 .. Len(q) : q[i] \in 1 .. n
    <2>. DEFINE S == 1 .. n
    <2>. HIDE DEF S
    <2>1. q \in Seq(S)
      BY <1>8 DEF S
    <2>2. Len(q) \in Nat /\ \A i \in 1 .. Len(q) : q[i] \in S
      BY <2>1
    <2>. QED
      BY <2>2 DEF S
  <1>11. Len(preds[y]) = Len(q) /\ \A i \in 1 .. Len(q) : preds[y][i] = lt.vertex[q[i]]
    <2>1. preds[y] \in [1 .. Len(q) -> analyzed]
      BY <1>2, <1>5, <1>10
    <2>2. Len(preds[y]) = Len(q)
      BY <1>10, <2>1, FunctionIsSeq
    <2>. QED
      BY <1>5, <2>2
  <1>12. \A i \in 1 .. Len(q) : lt.vertex[q[i]] \in analyzed /\ y \in Succ(lt.vertex[q[i]])
    BY <1>2, <1>6, <1>9, <1>10
  <1>13. ASSUME NEW p \in analyzed, y \in Succ(p)
         PROVE  /\ \E i \in 1 .. Len(preds[y]) : preds[y][i] = p
                /\ Dom(idom[y], p)
                /\ Len(preds[y]) < 2 => StrictDom(p, y)
    <2>. DEFINE a == number(p)
    <2>1. a \in 1 .. n /\ lt.vertex[a] = p
      BY <1>2
    <2>. HIDE DEF a
    <2>2. x \in Out[a]
      BY <1>2, <1>6, <1>13, <2>1
    <2>3. PICK i \in 1 .. Len(q) : q[i] = a
      BY <1>9, <2>1, <2>2
    <2>4. \E k \in 1 .. Len(preds[y]) : preds[y][k] = p
      BY <1>11, <2>1, <2>3
    <2>5. Dom(idom[y], p)
      <3>. DEFINE d == number(idom[y])
      <3>1. idom[y] \in analyzed /\ StrictDom(idom[y], y)
        BY IdomIsExact DEF IdomExact
      <3>2. d \in 1 .. n /\ lt.vertex[d] = idom[y]
        BY <1>2, <3>1
      <3>. HIDE DEF d
      <3>3. d # x /\ DomN(n, Out, d, x)
        BY <1>4, <1>6, <3>1, <3>2 DEF StrictDom
      <3>4. DomN(n, Out, d, a)
        BY ONLY <1>2, <1>6, <2>1, <2>2, <3>2, <3>3, IdomOfPred
      <3>. QED
        BY <1>4, <2>1, <3>2, <3>4
    <2>6. ASSUME Len(preds[y]) < 2
          PROVE  StrictDom(p, y)
      <3>1. \A k \in 1 .. Len(q) : k = i
        BY <1>10, <1>11, <2>6
      <3>2. \A m \in 1 .. n : x \in Out[m] => m = a
        BY <1>9, <2>3, <3>1
      <3>3. lt.parent[x] \in 1 .. x - 1 /\ x \in Out[lt.parent[x]]
        BY <1>3, <1>7 DEF Tree
      <3>4. lt.parent[x] \in 1 .. n /\ lt.parent[x] # x
        BY <1>2, <1>7, <3>3
      <3>5. a # x
        BY <3>2, <3>3, <3>4
      <3>6. DomN(n, Out, a, x)
        BY ONLY <1>2, <1>7, <2>1, <3>2, <3>5, OnlyPredDominates
      <3>. QED
        BY <1>2, <1>4, <1>6, <2>1, <3>5, <3>6 DEF StrictDom
    <2>. QED
      BY <2>4, <2>5, <2>6
  <1>. QED
    BY <1>10, <1>11, <1>12, <1>13

\* Every frontier is exact, the root aside as a member.
LEMMA FrontierExactFrom ==
    ASSUME DomInv
    PROVE  FrontierExact
  <1>. SUFFICES ASSUME stage = "done", NEW r \in node_set
                PROVE  dominator_frontier(r) = {y \in node_set \ {Root} : InFrontier(y, r)}
    BY DEF FrontierExact
  <1>1. SearchInv /\ stage # "dfs" /\ IdomExact /\ DomOrder
    BY IdomIsExact, DomOrdered DEF DomInv
  <1>2. analyzed = node_set
    BY <1>1, NumberFacts
  <1>3. DOMAIN idom = node_set \ {Root}
    BY <1>1, <1>2 DEF IdomExact
  <1>. DEFINE Crosses(y) == /\ Len(preds[y]) >= 2
                            /\ \E i \in 1 .. Len(preds[y]) : r \in runners(preds[y][i], idom[y])
  <1>4. ASSUME NEW y \in node_set \ {Root}
        PROVE  Crosses(y) <=> InFrontier(y, r)
    <2>. DEFINE s == idom[y]
    <2>1. /\ s \in analyzed /\ Dom(s, y) /\ s # y
          /\ \A d \in analyzed : d # y /\ Dom(d, y) => Dom(d, s)
      BY <1>1, <1>2 DEF IdomExact, StrictDom
    <2>2. /\ Len(preds[y]) \in Nat
          /\ \A i \in 1 .. Len(preds[y]) : preds[y][i] \in analyzed /\ y \in Succ(preds[y][i])
          /\ \A p \in analyzed :
                y \in Succ(p) => /\ \E i \in 1 .. Len(preds[y]) : preds[y][i] = p
                                 /\ Dom(s, p)
                                 /\ Len(preds[y]) < 2 => StrictDom(p, y)
      BY <1>2, PredsExact
    <2>3. \A p \in analyzed : runners(p, s) = Passed(s, p)
      BY <2>1, RunnersExact
    <2>. HIDE DEF s
    <2>4. Dom(r, s) <=> StrictDom(r, y)
      <3>1. ASSUME Dom(r, s) PROVE StrictDom(r, y)
        <4>1. Dom(r, y)
          BY <1>1, <1>2, <2>1, <3>1 DEF DomOrder
        <4>2. r # y
          BY <1>1, <1>2, <2>1, <3>1 DEF DomOrder
        <4>. QED
          BY <4>1, <4>2 DEF StrictDom
      <3>2. ASSUME StrictDom(r, y) PROVE Dom(r, s)
        BY <1>2, <2>1, <3>2 DEF StrictDom
      <3>. QED
        BY <3>1, <3>2
    <2>5. ASSUME NEW p \in analyzed, y \in Succ(p)
          PROVE  r \in runners(p, s) <=> Dom(r, p) /\ ~StrictDom(r, y)
      <3>1. Dom(s, p)
        BY <2>2, <2>5
      <3>. QED
        BY <1>2, <2>3, <2>4, <3>1 DEF Passed
    <2>6. ASSUME Crosses(y) PROVE InFrontier(y, r)
      <3>1. PICK i \in 1 .. Len(preds[y]) : r \in runners(preds[y][i], s)
        BY <2>6 DEF s
      <3>2. preds[y][i] \in analyzed /\ y \in Succ(preds[y][i])
        BY <2>2
      <3>. QED
        BY <1>2, <2>5, <3>1, <3>2 DEF InFrontier
    <2>7. ASSUME InFrontier(y, r) PROVE Crosses(y)
      <3>1. PICK p \in node_set : y \in Succ(p) /\ Dom(r, p)
        BY <2>7 DEF InFrontier
      <3>2. ~StrictDom(r, y)
        BY <2>7 DEF InFrontier
      <3>3. r \in runners(p, s)
        BY <1>2, <2>5, <3>1, <3>2
      <3>4. Len(preds[y]) >= 2
        <4>1. SUFFICES ASSUME Len(preds[y]) < 2 PROVE FALSE
          BY <2>2
        <4>2. StrictDom(p, y)
          BY <1>2, <2>2, <3>1, <4>1
        <4>3. Dom(p, s)
          BY <1>2, <2>1, <4>2 DEF StrictDom
        <4>4. Dom(r, s)
          BY <1>1, <1>2, <2>1, <3>1, <4>3 DEF DomOrder
        <4>. QED
          BY <2>4, <3>2, <4>4
      <3>5. PICK i \in 1 .. Len(preds[y]) : preds[y][i] = p
        BY <1>2, <2>2, <3>1
      <3>. QED
        BY <3>3, <3>4, <3>5 DEF s
    <2>. QED
      BY <2>6, <2>7
  <1>5. dominator_frontier(r) = {y \in node_set \ {Root} : Crosses(y)}
    BY <1>3 DEF dominator_frontier
  <1>. HIDE DEF Crosses
  <1>. QED
    BY <1>4, <1>5

\* In every behaviour, the frontiers of the finished tree are exact.
THEOREM FrontierExactAlways == Spec => []FrontierExact
  BY DomInvariant, FrontierExactFrom, PTL
=============================================================================
