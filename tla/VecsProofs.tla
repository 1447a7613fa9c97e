----------------------------- MODULE VecsProofs -----------------------------
(***************************************************************************)
(* What the vector operators of Vecs return, and two forms of induction on *)
(* the natural numbers that speak of a set instead of a predicate.         *)
(***************************************************************************)
EXTENDS Vecs, WellFoundedInduction, TLAPS

-----------------------------------------------------------------------------
(* Natural numbers. *)

\* A nonempty set of natural numbers has a least element.
LEMMA LeastNat ==
    ASSUME NEW T \in SUBSET Nat, T # {}
    PROVE  \E x \in T : \A y \in T : x <= y
  <1>. DEFINE R == {r \in Nat \X Nat : r[1] < r[2]}
  <1>1. IsWellFoundedOn(OpToRel(<, Nat), Nat)
    BY NatLessThanWellFounded
  <1>2. OpToRel(<, Nat) = R
    BY DEF OpToRel
  <1>3. IsWellFoundedOn(R, Nat)
    BY <1>1, <1>2
  <1>4. \A x, y \in Nat : <<y, x>> \in R <=> y < x
    OBVIOUS
  <1>. HIDE DEF R
  <1>5. PICK x \in T : \A y \in T : ~(<<y, x>> \in R)
    BY <1>3, WFMin
  <1>6. ASSUME NEW y \in T
        PROVE  x <= y
    <2>1. x \in Nat /\ y \in Nat
      OBVIOUS
    <2>2. ~(<<y, x>> \in R)
      BY <1>5
    <2>3. ~(y < x)
      BY <1>4, <2>1, <2>2
    <2>. QED
      BY <2>1, <2>3
  <1>. QED
    BY <1>6

\* A set that holds 1 and, with each of 1..n-1, its successor holds 1..n.
LEMMA StepsCover ==
    ASSUME NEW n \in Nat, NEW T, n > 0 => 1 \in T,
           \A i \in 1 .. n - 1 : i \in T => i + 1 \in T
    PROVE  1 .. n \subseteq T
  <1>. DEFINE Missed == (1 .. n) \ T
  <1>1. SUFFICES ASSUME Missed # {}
                 PROVE  FALSE
    OBVIOUS
  <1>2. PICK x \in Missed : \A y \in Missed : x <= y
    <2>1. Missed \in SUBSET Nat
      OBVIOUS
    <2>. HIDE DEF Missed
    <2>. QED
      BY <1>1, <2>1, LeastNat
  <1>3. x # 1 /\ x - 1 \in 1 .. n - 1 /\ (x - 1) + 1 = x
    BY <1>2
  <1>4. x - 1 \in T
    BY <1>2, <1>3
  <1>. QED
    BY <1>2, <1>3, <1>4

\* A set that holds 0 and the successor of each of its members holds Nat.
LEMMA NatCovered ==
    ASSUME NEW T, 0 \in T, \A i \in Nat : i \in T => i + 1 \in T
    PROVE  Nat \subseteq T
  <1>. DEFINE Missed == Nat \ T
  <1>1. SUFFICES ASSUME Missed # {}
                 PROVE  FALSE
    OBVIOUS
  <1>2. PICK x \in Missed : \A y \in Missed : x <= y
    <2>1. Missed \in SUBSET Nat
      OBVIOUS
    <2>. HIDE DEF Missed
    <2>. QED
      BY <1>1, <2>1, LeastNat
  <1>3. x \in Nat /\ x # 0 /\ x - 1 \in Nat /\ (x - 1) + 1 = x /\ ~(x <= x - 1)
    BY <1>2
  <1>4. x - 1 \in T
    BY <1>2, <1>3
  <1>. QED
    BY <1>2, <1>3, <1>4

-----------------------------------------------------------------------------
(* Vectors. *)

\* A function on 1..n is a sequence of length n.
LEMMA FunctionIsSeq ==
    ASSUME NEW S, NEW n \in Nat, NEW f \in [1 .. n -> S]
    PROVE  f \in Seq(S) /\ Len(f) = n
  OBVIOUS

\* What swap_remove leaves in each slot.
LEMMA SwapRemoveFacts ==
    ASSUME NEW S, NEW n \in Nat, NEW s \in Seq(S), Len(s) = n + 1, NEW i \in 0 .. n
    PROVE  /\ SwapRemove(s, i) \in Seq(S)
           /\ Len(SwapRemove(s, i)) = n
           /\ \A j \in 0 .. n - 1 : At(SwapRemove(s, i), j) = At(s, IF j = i THEN n ELSE j)
  <1>1. SwapRemove(s, i) \in [1 .. n -> S]
    BY DEF SwapRemove
  <1>2. SwapRemove(s, i) \in Seq(S) /\ Len(SwapRemove(s, i)) = n
    BY <1>1, FunctionIsSeq
  <1>. QED
    BY <1>2 DEF SwapRemove, At

\* What a write through an index leaves in each slot.
LEMMA SetAtFacts ==
    ASSUME NEW S, NEW n \in Nat, NEW s \in Seq(S), Len(s) = n,
           NEW i \in 0 .. n - 1, NEW x \in S
    PROVE  /\ SetAt(s, i, x) \in Seq(S)
           /\ Len(SetAt(s, i, x)) = n
           /\ At(SetAt(s, i, x), i) = x
           /\ \A j \in 0 .. n - 1 : j # i => At(SetAt(s, i, x), j) = At(s, j)
  BY DEF SetAt, At

\* What push leaves in each slot.
LEMMA AppendFacts ==
    ASSUME NEW S, NEW n \in Nat, NEW s \in Seq(S), Len(s) = n, NEW x \in S
    PROVE  /\ Append(s, x) \in Seq(S)
           /\ Len(Append(s, x)) = n + 1
           /\ At(Append(s, x), n) = x
           /\ \A j \in 0 .. n - 1 : At(Append(s, x), j) = At(s, j)
  BY DEF At

\* What truncate leaves in each slot.
LEMMA TruncateFacts ==
    ASSUME NEW S, NEW s \in Seq(S), NEW n \in Nat
    PROVE  /\ Truncate(s, n) \in Seq(S)
           /\ Len(Truncate(s, n)) = IF n < Len(s) THEN n ELSE Len(s)
           /\ \A j \in Indices(Truncate(s, n)) : At(Truncate(s, n), j) = At(s, j)
  <1>1. CASE n < Len(s)
    <2>1. SubSeq(s, 1, n) \in Seq(S) /\ Len(SubSeq(s, 1, n)) = n
      BY <1>1
    <2>2. \A j \in 0 .. n - 1 : SubSeq(s, 1, n)[j + 1] = s[j + 1]
      BY <1>1
    <2>. QED
      BY <1>1, <2>1, <2>2 DEF Truncate, At, Indices
  <1>2. CASE ~(n < Len(s))
    BY <1>2 DEF Truncate
  <1>. QED
    BY <1>1, <1>2

\* Two sequences joined.
LEMMA ConcatFacts ==
    ASSUME NEW S, NEW s \in Seq(S), NEW t \in Seq(S)
    PROVE  /\ s \o t \in Seq(S) /\ Len(s \o t) = Len(s) + Len(t)
           /\ Len(s) \in Nat /\ Len(t) \in Nat
           /\ \A i \in 1 .. Len(s) : (s \o t)[i] = s[i]
           /\ \A i \in 1 .. Len(t) : (s \o t)[Len(s) + i] = t[i]
  OBVIOUS

\* Sequences that agree at every index are the same.
LEMMA SameSeq ==
    ASSUME NEW S, NEW s \in Seq(S), NEW t \in Seq(S), Len(s) = Len(t),
           \A i \in 0 .. Len(s) - 1 : At(s, i) = At(t, i)
    PROVE  s = t
  <1>1. /\ Len(s) \in Nat /\ DOMAIN s = 1 .. Len(s) /\ DOMAIN t = 1 .. Len(s)
        /\ s \in [1 .. Len(s) -> S] /\ t \in [1 .. Len(s) -> S]
    OBVIOUS
  <1>2. ASSUME NEW i \in 1 .. Len(s)
        PROVE  s[i] = t[i]
    <2>1. i - 1 \in 0 .. Len(s) - 1 /\ (i - 1) + 1 = i
      BY <1>1
    <2>. QED
      BY <2>1 DEF At
  <1>. QED
    BY <1>1, <1>2

\* Moving the head of one sequence to the end of another leaves their join.
LEMMA HeadMoves ==
    ASSUME NEW S, NEW s \in Seq(S), NEW t \in Seq(S), t # <<>>
    PROVE  /\ Append(s, Head(t)) \in Seq(S) /\ Tail(t) \in Seq(S)
           /\ Append(s, Head(t)) \o Tail(t) = s \o t
  <1>1. /\ Head(t) \in S /\ Tail(t) \in Seq(S) /\ Len(t) > 0 /\ Len(Tail(t)) = Len(t) - 1
        /\ Head(t) = t[1] /\ \A i \in 1 .. Len(t) - 1 : Tail(t)[i] = t[i + 1]
    OBVIOUS
  <1>. DEFINE a == Append(s, Head(t))
  <1>2. /\ a \in Seq(S) /\ Len(a) = Len(s) + 1 /\ a[Len(s) + 1] = t[1]
        /\ \A i \in 1 .. Len(s) : a[i] = s[i]
    BY <1>1
  <1>. HIDE DEF a
  <1>. DEFINE u == Tail(t)
  <1>3. /\ u \in Seq(S) /\ Len(u) = Len(t) - 1 /\ \A i \in 1 .. Len(t) - 1 : u[i] = t[i + 1]
    BY <1>1
  <1>. HIDE DEF u
  <1>4. /\ a \o u \in Seq(S) /\ Len(a \o u) = Len(a) + Len(u)
        /\ \A i \in 1 .. Len(a) : (a \o u)[i] = a[i]
        /\ \A i \in 1 .. Len(u) : (a \o u)[Len(a) + i] = u[i]
    <2>1. a \in Seq(S) /\ u \in Seq(S)
      BY <1>2, <1>3
    <2>. QED
      BY <2>1, ConcatFacts
  <1>5. /\ s \o t \in Seq(S) /\ Len(s \o t) = Len(s) + Len(t)
        /\ Len(s) \in Nat /\ Len(t) \in Nat
        /\ \A i \in 1 .. Len(s) : (s \o t)[i] = s[i]
        /\ \A i \in 1 .. Len(t) : (s \o t)[Len(s) + i] = t[i]
    BY ConcatFacts
  <1>6. Len(a \o u) = Len(s \o t)
    BY <1>2, <1>3, <1>4, <1>5
  <1>7. ASSUME NEW i \in 0 .. Len(a \o u) - 1
        PROVE  At(a \o u, i) = At(s \o t, i)
    <2>1. CASE i < Len(s)
      <3>1. i + 1 \in 1 .. Len(s) /\ i + 1 \in 1 .. Len(a)
        BY <1>2, <1>5, <2>1
      <3>. QED
        BY <1>2, <1>4, <1>5, <3>1 DEF At
    <2>2. CASE i = Len(s)
      <3>1. i + 1 \in 1 .. Len(a) /\ 1 \in 1 .. Len(t)
        BY <1>1, <1>2, <1>5, <2>2
      <3>2. (a \o u)[i + 1] = t[1]
        BY <1>2, <1>4, <2>2, <3>1
      <3>3. (s \o t)[i + 1] = t[1]
        BY <1>5, <2>2, <3>1
      <3>. QED
        BY <3>2, <3>3 DEF At
    <2>3. CASE i > Len(s)
      <3>. DEFINE j == i - Len(s)
      <3>1. /\ j \in 1 .. Len(u) /\ j \in 1 .. Len(t) - 1 /\ j + 1 \in 1 .. Len(t)
            /\ i + 1 = Len(a) + j /\ i + 1 = Len(s) + (j + 1)
        BY <1>2, <1>3, <1>4, <1>5, <2>3
      <3>. HIDE DEF j
      <3>2. (a \o u)[Len(a) + j] = t[j + 1]
        BY <1>3, <1>4, <3>1
      <3>3. (s \o t)[Len(s) + (j + 1)] = t[j + 1]
        BY <1>5, <3>1
      <3>. QED
        BY <3>1, <3>2, <3>3 DEF At
    <2>. QED
      BY <1>5, <1>6, <2>1, <2>2, <2>3
  <1>8. a \o u = s \o t
    BY <1>4, <1>5, <1>6, <1>7, SameSeq
  <1>. QED
    BY <1>2, <1>3, <1>8 DEF a, u

=============================================================================
