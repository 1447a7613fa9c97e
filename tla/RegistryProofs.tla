--------------------------- MODULE RegistryProofs ---------------------------
(***************************************************************************)
(* The chunked registry for any number of elements: where locate puts an   *)
(* id, that the chunks are laid out as indexing assumes, that no element   *)
(* moves, and that iterating and indexing show one flat vector.            *)
(***************************************************************************)
EXTENDS Registry, VecsProofs, FiniteSetTheorems, TLAPS

-----------------------------------------------------------------------------
(* Powers of two, which count subsets. *)

\* A set with one more element has twice as many subsets.
LEMMA PowerStep ==
    ASSUME NEW k \in Nat
    PROVE  2^k \in Nat /\ 2^(k + 1) = 2^k + 2^k
  <1>. DEFINE A == 1 .. k
              B == 1 .. k + 1
              T == {X \in SUBSET B : k + 1 \in X}
  <1>1. IsFiniteSet(A) /\ Cardinality(A) = k /\ IsFiniteSet(B) /\ Cardinality(B) = k + 1
    BY FS_Interval
  <1>2. IsFiniteSet(SUBSET A) /\ Cardinality(SUBSET A) = 2^k
    BY <1>1, FS_SUBSET
  <1>3. IsFiniteSet(SUBSET B) /\ Cardinality(SUBSET B) = 2^(k + 1)
    <2>1. IsFiniteSet(SUBSET B) /\ Cardinality(SUBSET B) = 2^Cardinality(B)
      BY <1>1, FS_SUBSET
    <2>. QED
      BY <1>1, <2>1
  <1>4. k + 1 \notin A /\ B = A \cup {k + 1}
    OBVIOUS
  <1>5. IsFiniteSet(T)
    <2>1. T \subseteq SUBSET B
      OBVIOUS
    <2>. HIDE DEF T
    <2>. QED
      BY <1>3, <2>1, FS_Subset
  <1>6. Cardinality(T) = 2^k
    <2>. DEFINE SA == SUBSET A
                f == [X \in SA |-> X \cup {k + 1}]
                g == [Z \in T |-> Z \ {k + 1}]
    <2>0. /\ \A X \in SA : X \cup {k + 1} \in T /\ (X \cup {k + 1}) \ {k + 1} = X
          /\ \A Z \in T : Z \ {k + 1} \in SA /\ (Z \ {k + 1}) \cup {k + 1} = Z
      <3>. HIDE DEF A, B
      <3>. QED
        BY <1>4
    <2>. HIDE DEF SA, T
    <2>1. f \in [SA -> T] /\ \A X, Y \in SA : f[X] = f[Y] => X = Y
      <3>1. \A X \in SA : f[X] = X \cup {k + 1}
        OBVIOUS
      <3>2. f \in [SA -> T]
        BY <2>0
      <3>. HIDE DEF f
      <3>. QED
        BY <2>0, <3>1, <3>2
    <2>2. g \in [T -> SA] /\ \A X, Y \in T : g[X] = g[Y] => X = Y
      <3>1. \A X \in T : g[X] = X \ {k + 1}
        OBVIOUS
      <3>2. g \in [T -> SA]
        BY <2>0
      <3>. HIDE DEF g
      <3>. QED
        BY <2>0, <3>1, <3>2
    <2>3. IsFiniteSet(SA) /\ Cardinality(SA) = 2^k
      BY <1>2 DEF SA
    <2>. HIDE DEF f, g
    <2>4. Cardinality(SA) \in Nat /\ Cardinality(T) \in Nat
      BY <1>5, <2>3, FS_CardinalityType
    <2>5. ~(Cardinality(T) < Cardinality(SA))
      BY <1>5, <2>1, <2>3, FS_PigeonHole
    <2>6. ~(Cardinality(SA) < Cardinality(T))
      BY <1>5, <2>2, <2>3, FS_PigeonHole
    <2>. QED
      BY <2>3, <2>4, <2>5, <2>6
  <1>7. SUBSET B = (SUBSET A) \cup T /\ (SUBSET A) \cap T = {}
    <2>. HIDE DEF A, B
    <2>. QED
      BY <1>4
  <1>8. Cardinality((SUBSET A) \cap T) = 0
    BY <1>7, FS_EmptySet
  <1>9. 2^k \in Nat
    BY <1>2, FS_CardinalityType
  <1>. HIDE DEF A, B, T
  <1>10. Cardinality(SUBSET B) = 2^k + 2^k - 0
    BY <1>2, <1>5, <1>6, <1>7, <1>8, FS_Union
  <1>. QED
    BY <1>3, <1>9, <1>10

\* The empty set has one subset.
LEMMA PowerZero == 2^0 = 1
  <1>1. IsFiniteSet({}) /\ Cardinality({}) = 0
    BY FS_EmptySet
  <1>2. Cardinality(SUBSET {}) = 2^0
    BY <1>1, FS_SUBSET
  <1>3. SUBSET {} = {{}}
    OBVIOUS
  <1>4. Cardinality({{}}) = 1
    BY FS_Singleton
  <1>. QED
    BY <1>2, <1>3, <1>4

\* Every power of two exceeds its exponent.
LEMMA PowerExceeds == \A k \in Nat : 2^k \in Nat /\ k < 2^k
  <1>. DEFINE T == {k \in Nat : k < 2^k}
  <1>1. 0 \in T
    BY PowerZero
  <1>2. \A k \in Nat : k \in T => k + 1 \in T
    BY PowerStep
  <1>3. Nat \subseteq T
    <2>. HIDE DEF T
    <2>. QED
      BY <1>1, <1>2, NatCovered
  <1>. QED
    BY <1>3, PowerStep

\* A larger exponent at least doubles the power.
LEMMA PowersGrow ==
    ASSUME NEW j \in Nat, NEW k \in Nat, j < k
    PROVE  2^(j + 1) <= 2^k
  <1>. DEFINE T == {i \in Nat : 2^(j + 1) <= 2^(j + 1 + i)}
  <1>1. 0 \in T
    <2>1. j + 1 + 0 = j + 1
      OBVIOUS
    <2>. QED
      BY <2>1, PowerExceeds
  <1>2. ASSUME NEW i \in Nat, i \in T
        PROVE  i + 1 \in T
    <2>1. j + 1 + (i + 1) = (j + 1 + i) + 1 /\ j + 1 + i \in Nat
      OBVIOUS
    <2>2. 2^(j + 1 + i) \in Nat /\ 2^((j + 1 + i) + 1) = 2^(j + 1 + i) + 2^(j + 1 + i)
      BY <2>1, PowerStep
    <2>3. 2^(j + 1) \in Nat
      BY PowerExceeds
    <2>. QED
      BY <1>2, <2>1, <2>2, <2>3
  <1>3. Nat \subseteq T
    <2>. HIDE DEF T
    <2>. QED
      BY <1>1, <1>2, NatCovered
  <1>4. k - (j + 1) \in Nat /\ j + 1 + (k - (j + 1)) = k
    OBVIOUS
  <1>. QED
    BY <1>3, <1>4

-----------------------------------------------------------------------------
(* Where an element lives. *)

\* No two chunks claim one id.
LEMMA OneChunk ==
    ASSUME NEW j \in Nat, NEW k \in Nat, NEW m \in Nat,
           2^j <= m, m < 2^(j + 1), 2^k <= m, m < 2^(k + 1)
    PROVE  j = k
  <1>1. j < k => 2^(j + 1) <= 2^k
    BY PowersGrow
  <1>2. k < j => 2^(k + 1) <= 2^j
    BY PowersGrow
  <1>3. 2^j \in Nat /\ 2^k \in Nat /\ 2^(j + 1) \in Nat /\ 2^(k + 1) \in Nat
    BY PowerExceeds
  <1>. QED
    BY <1>1, <1>2, <1>3

\* Every id has a chunk.
LEMMA SomeChunk ==
    ASSUME NEW n \in Nat
    PROVE  \E k \in 0 .. n : 2^k <= n + 1 /\ n + 1 < 2^(k + 1)
  <1>. DEFINE T == {k \in Nat : n + 1 < 2^(k + 1)}
  <1>1. n \in T
    BY PowerExceeds
  <1>2. PICK k \in T : \A y \in T : k <= y
    <2>1. T \in SUBSET Nat /\ T # {}
      BY <1>1
    <2>. HIDE DEF T
    <2>. QED
      BY <2>1, LeastNat
  <1>3. k \in 0 .. n
    BY <1>1, <1>2
  <1>4. 2^k <= n + 1
    <2>1. CASE k = 0
      BY <2>1, PowerZero
    <2>2. CASE k # 0
      <3>1. k - 1 \in Nat /\ (k - 1) + 1 = k /\ ~(k <= k - 1)
        BY <1>3, <2>2
      <3>2. k - 1 \notin T
        BY <1>2, <3>1
      <3>3. 2^k \in Nat
        BY <1>3, PowerExceeds
      <3>. QED
        BY <3>1, <3>2, <3>3
    <2>. QED
      BY <2>1, <2>2
  <1>. QED
    BY <1>2, <1>3, <1>4

\* locate splits an id into a chunk and an offset below the chunk's size.
LEMMA LocateFacts ==
    ASSUME NEW n \in Nat
    PROVE  /\ locate(n).chunk \in 0 .. n /\ locate(n).offset \in Nat
           /\ locate(n).offset < 2^locate(n).chunk
           /\ n + 1 = 2^locate(n).chunk + locate(n).offset
           /\ locate(n) = [chunk |-> locate(n).chunk, offset |-> locate(n).offset]
  <1>. DEFINE k == CHOOSE k \in 0 .. n : 2^k <= n + 1 /\ n + 1 < 2^(k + 1)
  <1>1. k \in 0 .. n /\ 2^k <= n + 1 /\ n + 1 < 2^(k + 1)
    BY SomeChunk
  <1>2. locate(n) = [chunk |-> k, offset |-> n + 1 - 2^k]
    BY DEF locate
  <1>. HIDE DEF k
  <1>3. 2^k \in Nat /\ 2^(k + 1) = 2^k + 2^k
    BY <1>1, PowerStep
  <1>. QED
    BY <1>1, <1>2, <1>3

\* The split is the only one: the cells of the chunks and the ids correspond.
LEMMA LocateIs ==
    ASSUME NEW n \in Nat, NEW k \in Nat, NEW o \in Nat, o < 2^k, n + 1 = 2^k + o
    PROVE  locate(n).chunk = k /\ locate(n).offset = o
  <1>. DEFINE j == locate(n).chunk
              p == locate(n).offset
  <1>1. j \in Nat /\ p \in Nat /\ p < 2^j /\ n + 1 = 2^j + p
    BY LocateFacts
  <1>. HIDE DEF j, p
  <1>2. /\ 2^k \in Nat /\ 2^(k + 1) = 2^k + 2^k
        /\ 2^j \in Nat /\ 2^(j + 1) = 2^j + 2^j
    BY <1>1, PowerStep
  <1>3. 2^j <= n + 1 /\ n + 1 < 2^(j + 1) /\ 2^k <= n + 1 /\ n + 1 < 2^(k + 1)
    BY <1>1, <1>2
  <1>4. j = k
    BY <1>1, <1>3, OneChunk
  <1>. QED
    BY <1>1, <1>2, <1>4 DEF j, p

-----------------------------------------------------------------------------
(* Iterating: FlattenSeq joins the chunks from the left. *)

\* The first m joins, as a function that satisfies the recursion.
Joins(s, m, f) ==
    f = [i \in 1 .. m |-> IF i = 1 THEN s[i] ELSE f[i - 1] \o s[i]]

\* The recursion defines a function, whatever is joined.
LEMMA JoinsExist == \A s : \A m \in Nat : \E f : Joins(s, m, f)
  <1>. SUFFICES ASSUME NEW s
                PROVE  \A m \in Nat : \E f : Joins(s, m, f)
    OBVIOUS
  <1>. DEFINE T == {m \in Nat : \E f : Joins(s, m, f)}
  <1>1. 0 \in T
    <2>1. Joins(s, 0, [i \in 1 .. 0 |-> s])
      BY DEF Joins
    <2>. QED
      BY <2>1
  <1>2. ASSUME NEW m \in Nat, m \in T
        PROVE  m + 1 \in T
    <2>1. PICK f : Joins(s, m, f)
      BY <1>2
    <2>2. \A i \in 1 .. m : f[i] = IF i = 1 THEN s[i] ELSE f[i - 1] \o s[i]
      BY <2>1 DEF Joins
    <2>. DEFINE x == IF m + 1 = 1 THEN s[m + 1] ELSE f[m] \o s[m + 1]
                g == [i \in 1 .. m + 1 |-> IF i = m + 1 THEN x ELSE f[i]]
    <2>3. /\ DOMAIN g = 1 .. m + 1 /\ g[m + 1] = x
          /\ \A i \in 1 .. m : g[i] = f[i]
          /\ g = [i \in 1 .. m + 1 |-> g[i]]
      <3>. HIDE DEF x
      <3>1. DOMAIN g = 1 .. m + 1 /\ g[m + 1] = x /\ g = [i \in 1 .. m + 1 |-> g[i]]
        OBVIOUS
      <3>2. \A i \in 1 .. m : i \in 1 .. m + 1 /\ i # m + 1
        OBVIOUS
      <3>3. \A i \in 1 .. m : g[i] = f[i]
        BY <3>2
      <3>. QED
        BY <3>1, <3>3
    <2>. HIDE DEF g, x
    <2>4. \A i \in 1 .. m + 1 : g[i] = IF i = 1 THEN s[i] ELSE g[i - 1] \o s[i]
      <3>. SUFFICES ASSUME NEW i \in 1 .. m + 1
                    PROVE  g[i] = IF i = 1 THEN s[i] ELSE g[i - 1] \o s[i]
        OBVIOUS
      <3>1. i # 1 => i - 1 \in 1 .. m
        OBVIOUS
      <3>2. CASE i = m + 1
        BY <2>3, <3>1, <3>2 DEF x
      <3>3. CASE i # m + 1
        <4>1. i \in 1 .. m
          BY <3>3
        <4>. QED
          BY <2>2, <2>3, <3>1, <4>1
      <3>. QED
        BY <3>2, <3>3
    <2>5. Joins(s, m + 1, g)
      BY <2>3, <2>4 DEF Joins
    <2>. QED
      BY <2>5
  <1>3. Nat \subseteq T
    <2>. HIDE DEF T
    <2>. QED
      BY <1>1, <1>2, NatCovered
  <1>. QED
    BY <1>3

Chain(s, m, f) == f[1] = s[1] /\ \A i \in 2 .. m : f[i] = f[i - 1] \o s[i]

\* FlattenSeq by its recursion.
LEMMA FlattenFacts ==
    ASSUME NEW s, NEW m \in Nat \ {0}, Len(s) = m
    PROVE  \E f : FlattenSeq(s) = f[m] /\ Chain(s, m, f)
  <1>. DEFINE f == CHOOSE f : Joins(s, m, f)
  <1>1. Joins(s, m, f)
    BY JoinsExist
  <1>2. FlattenSeq(s) = f[m]
    BY DEF FlattenSeq, Joins
  <1>. HIDE DEF f
  <1>3. \A i \in 1 .. m : f[i] = IF i = 1 THEN s[i] ELSE f[i - 1] \o s[i]
    BY <1>1 DEF Joins
  <1>4. f[1] = s[1]
    BY <1>3
  <1>5. \A i \in 2 .. m : i \in 1 .. m /\ i # 1
    OBVIOUS
  <1>6. \A i \in 2 .. m : f[i] = f[i - 1] \o s[i]
    BY <1>3, <1>5
  <1>. QED
    BY <1>2, <1>4, <1>6 DEF Chain

-----------------------------------------------------------------------------
(* The chunks behind a registry of n elements. *)

Chunk == [cap : Nat, elems : Seq(Values), moves : Nat]

\* How many of n elements live in chunk k.
Fill(k, n) == IF n + 1 <= 2^k THEN 0 ELSE IF 2^(k + 1) <= n + 1 THEN 2^k ELSE n + 1 - 2^k

\* How many of n elements live in the first m chunks.
Capped(m, n) == IF n + 1 <= 2^m THEN n ELSE 2^m - 1

\* Layout of chunks cs for n elements, in buffers that never moved.
Laid(cs, n) ==
    \A k \in 0 .. Len(cs) - 1 :
        /\ At(cs, k).cap = 2^k /\ Len(At(cs, k).elems) = Fill(k, n)
        /\ At(cs, k).moves = 0

\* The first m + 1 chunks hold what the first m hold and the fill of one more.
LEMMA FillFacts ==
    ASSUME NEW n \in Nat, NEW k \in Nat
    PROVE  /\ 2^k \in Nat /\ 2^(k + 1) = 2^k + 2^k /\ 2^k > 0
           /\ Fill(k, n) \in 0 .. 2^k /\ Capped(k, n) \in Nat
           /\ Capped(k + 1, n) = Capped(k, n) + Fill(k, n)
           /\ Fill(k, n) # 0 => Capped(k, n) = 2^k - 1
  BY PowerStep, PowerExceeds DEF Fill, Capped

\* One element more fills the cell locate names, and no other.
LEMMA FillNext ==
    ASSUME NEW n \in Nat, NEW k \in Nat
    PROVE  /\ k = locate(n).chunk =>
                 Fill(k, n) = locate(n).offset /\ Fill(k, n + 1) = locate(n).offset + 1
           /\ k # locate(n).chunk => Fill(k, n + 1) = Fill(k, n)
  <1>. DEFINE K == locate(n).chunk
              O == locate(n).offset
  <1>1. K \in Nat /\ O \in Nat /\ O < 2^K /\ n + 1 = 2^K + O
    BY LocateFacts
  <1>. HIDE DEF K, O
  <1>2. /\ 2^k \in Nat /\ 2^(k + 1) = 2^k + 2^k
        /\ 2^K \in Nat /\ 2^(K + 1) = 2^K + 2^K
    BY <1>1, PowerStep
  <1>3. CASE k = K
    BY <1>1, <1>2, <1>3 DEF Fill, K, O
  <1>4. CASE k < K
    <2>1. 2^(k + 1) <= 2^K
      BY <1>1, <1>4, PowersGrow
    <2>. QED
      BY <1>1, <1>2, <1>4, <2>1 DEF Fill, K
  <1>5. CASE K < k
    <2>1. 2^(K + 1) <= 2^k
      BY <1>1, <1>5, PowersGrow
    <2>. QED
      BY <1>1, <1>2, <1>5, <2>1 DEF Fill, K
  <1>. QED
    BY <1>1, <1>3, <1>4, <1>5

\* The cells the chunks hold are below n, those of the first m below Capped.
LEMMA CellsBelow ==
    ASSUME NEW n \in Nat, NEW m \in Nat, NEW k \in 0 .. m - 1, NEW o \in 0 .. Fill(k, n) - 1
    PROVE  2^k + o \in 1 .. Capped(m, n)
  <1>1. 2^(k + 1) <= 2^m
    BY PowersGrow
  <1>2. k \in Nat /\ 2^k \in Nat \ {0} /\ 2^(k + 1) = 2^k + 2^k /\ 2^m \in Nat
    BY PowerStep, PowerExceeds
  <1>3. Fill(k, n) \in 0 .. 2^k /\ o \in Nat /\ o < Fill(k, n)
    BY <1>2, FillFacts
  <1>4. o < 2^k /\ 2^k + o <= n
    BY <1>2, <1>3 DEF Fill
  <1>. QED
    BY <1>1, <1>2, <1>3, <1>4 DEF Capped

\* g holds the elements of the first i chunks, each where its id says.
Joined(cs, n, i, g) ==
    /\ g \in Seq(Values) /\ Len(g) = Capped(i, n)
    /\ \A k \in 0 .. i - 1 : \A o \in 0 .. Fill(k, n) - 1 :
          g[2^k + o] = At(At(cs, k).elems, o)

\* Joining one more chunk appends its elements.
LEMMA JoinOne ==
    ASSUME NEW cs, NEW n \in Nat, NEW i \in Nat, NEW g, Joined(cs, n, i, g),
           NEW t \in Seq(Values), Len(t) = Fill(i, n),
           \A o \in 0 .. Fill(i, n) - 1 : At(t, o) = At(At(cs, i).elems, o)
    PROVE  Joined(cs, n, i + 1, g \o t)
  <1>1. /\ Fill(i, n) \in Nat /\ Capped(i, n) \in Nat /\ 2^i \in Nat
        /\ Capped(i + 1, n) = Capped(i, n) + Fill(i, n)
        /\ Fill(i, n) # 0 => Capped(i, n) = 2^i - 1
    BY FillFacts
  <1>2. g \in Seq(Values) /\ Len(g) = Capped(i, n)
    BY DEF Joined
  <1>3. /\ g \o t \in Seq(Values) /\ Len(g \o t) = Len(g) + Len(t)
        /\ \A j \in 1 .. Len(g) : (g \o t)[j] = g[j]
        /\ \A j \in 1 .. Len(t) : (g \o t)[Len(g) + j] = t[j]
    <2>1. g \o t \in Seq(Values) /\ Len(g \o t) = Len(g) + Len(t)
      BY <1>2, ConcatFacts
    <2>2. \A j \in 1 .. Len(g) : (g \o t)[j] = g[j]
      BY <1>2, ConcatFacts
    <2>3. \A j \in 1 .. Len(t) : (g \o t)[Len(g) + j] = t[j]
      BY <1>2, ConcatFacts
    <2>. QED
      BY <2>1, <2>2, <2>3
  <1>4. ASSUME NEW o \in 0 .. Fill(i, n) - 1
        PROVE  (g \o t)[2^i + o] = t[o + 1]
    <2>0. Fill(i, n) # 0 /\ o \in Nat /\ o < Fill(i, n)
      BY <1>1
    <2>1. o + 1 \in 1 .. Len(t) /\ Len(g) + (o + 1) = 2^i + o
      BY <1>1, <1>2, <2>0
    <2>2. (g \o t)[Len(g) + (o + 1)] = t[o + 1]
      BY <1>3, <2>1
    <2>. QED
      BY <2>1, <2>2
  <1>5. ASSUME NEW k \in 0 .. i - 1, NEW o \in 0 .. Fill(k, n) - 1
        PROVE  (g \o t)[2^k + o] = At(At(cs, k).elems, o)
    <2>1. 2^k + o \in 1 .. Len(g)
      BY <1>2, CellsBelow
    <2>2. g[2^k + o] = At(At(cs, k).elems, o)
      BY DEF Joined
    <2>. QED
      BY <1>3, <2>1, <2>2
  <1>6. \A k \in 0 .. (i + 1) - 1 : k = i \/ k \in 0 .. i - 1
    OBVIOUS
  <1>7. \A o : At(t, o) = t[o + 1]
    BY DEF At
  <1>8. \A k \in 0 .. (i + 1) - 1 : \A o \in 0 .. Fill(k, n) - 1 :
          (g \o t)[2^k + o] = At(At(cs, k).elems, o)
    BY <1>4, <1>5, <1>6, <1>7
  <1>9. Len(g \o t) = Capped(i + 1, n)
    BY <1>1, <1>2, <1>3
  <1>. QED
    BY <1>3, <1>8, <1>9 DEF Joined

\* Joining the first m chunks puts every element where its id says.
LEMMA JoinedFacts ==
    ASSUME NEW cs \in Seq(Chunk), NEW n \in Nat, Laid(cs, n), NEW m \in 0 .. Len(cs)
    PROVE  Joined(cs, n, m, FlattenSeq([k \in 1 .. m |-> cs[k].elems]))
  <1>. DEFINE s == [k \in 1 .. m |-> cs[k].elems]
              F == FlattenSeq(s)
  <1>1. Len(s) = m /\ m \in Nat /\ \A k \in 1 .. m : s[k] = cs[k].elems
    OBVIOUS
  <1>2. CASE m = 0
    <2>1. s = <<>>
      BY <1>2
    <2>2. F = <<>>
      BY <2>1 DEF FlattenSeq
    <2>3. Capped(0, n) = 0
      BY PowerZero DEF Capped
    <2>. HIDE DEF F
    <2>4. Joined(cs, n, m, F)
      BY <1>2, <2>2, <2>3 DEF Joined
    <2>. QED
      BY <2>4 DEF F
  <1>3. CASE m # 0
    <2>1. ASSUME NEW k \in 0 .. m - 1
          PROVE  /\ s[k + 1] = At(cs, k).elems
                 /\ At(cs, k).elems \in Seq(Values) /\ Len(At(cs, k).elems) = Fill(k, n)
      <3>1. k + 1 \in 1 .. m /\ k \in 0 .. Len(cs) - 1 /\ cs[k + 1] \in Chunk
        OBVIOUS
      <3>2. At(cs, k) = cs[k + 1]
        BY DEF At
      <3>. HIDE DEF s
      <3>. QED
        BY <1>1, <3>1, <3>2 DEF Laid, Chunk
    <2>2. F = FlattenSeq(s) /\ m \in Nat \ {0} /\ 0 \in 0 .. m - 1
      BY <1>1, <1>3
    <2>. HIDE DEF s, F
    <2>. PICK f : F = f[m] /\ Chain(s, m, f)
      BY <1>1, <2>2, FlattenFacts
    <2>3. /\ F = f[m] /\ f[1] = s[1]
          /\ \A i \in 2 .. m : f[i] = f[i - 1] \o s[i]
      BY DEF Chain
    <2>. DEFINE T == {i \in 1 .. m : Joined(cs, n, i, f[i])}
    <2>4. Joined(cs, n, 1, f[1])
      <3>. DEFINE t == At(cs, 0).elems
      <3>1. f[1] = t /\ t \in Seq(Values) /\ Len(t) = Fill(0, n)
        <4>1. s[0 + 1] = t /\ t \in Seq(Values) /\ Len(t) = Fill(0, n)
          BY <2>1, <2>2
        <4>. QED
          BY <2>3, <4>1
      <3>2. Joined(cs, n, 0, <<>>)
        <4>1. Capped(0, n) = 0
          BY PowerZero DEF Capped
        <4>. QED
          BY <4>1 DEF Joined
      <3>3. <<>> \o t = t
        BY <3>1
      <3>. HIDE DEF t
      <3>4. Joined(cs, n, 0 + 1, <<>> \o t)
        <4>1. \A o \in 0 .. Fill(0, n) - 1 : At(t, o) = At(At(cs, 0).elems, o)
          BY DEF t
        <4>. QED
          BY <3>1, <3>2, <4>1, JoinOne
      <3>. QED
        BY <3>1, <3>3, <3>4
    <2>5. ASSUME NEW i \in 1 .. m - 1, Joined(cs, n, i, f[i])
          PROVE  Joined(cs, n, i + 1, f[i + 1])
      <3>1. i \in Nat /\ i \in 0 .. m - 1 /\ i + 1 \in 2 .. m /\ (i + 1) - 1 = i
        BY <1>1
      <3>2. f[i + 1] = f[i] \o At(cs, i).elems
        <4>1. f[i + 1] = f[i] \o s[i + 1]
          BY <2>3, <3>1
        <4>. QED
          BY <2>1, <3>1, <4>1
      <3>3. At(cs, i).elems \in Seq(Values) /\ Len(At(cs, i).elems) = Fill(i, n)
        BY <2>1, <3>1
      <3>. QED
        BY <2>5, <3>1, <3>2, <3>3, JoinOne
    <2>6. 1 .. m \subseteq T
      <3>1. m > 0 => 1 \in T
        BY <1>1, <2>4
      <3>2. \A i \in 1 .. m - 1 : i \in T => i + 1 \in T
        BY <1>1, <2>5
      <3>. HIDE DEF T
      <3>. QED
        BY <1>1, <3>1, <3>2, StepsCover
    <2>7. m \in T
      <3>. HIDE DEF T
      <3>. QED
        BY <2>2, <2>6
    <2>. QED
      BY <2>3, <2>7 DEF F, s
  <1>. QED
    BY <1>2, <1>3

-----------------------------------------------------------------------------
(* Chunks that hold n elements, and what an operation does to one of them. *)

Good(cs, n) == cs \in Seq(Chunk) /\ n \in Nat /\ Laid(cs, n) /\ n + 1 <= 2^Len(cs)

\* The element of id i in chunks cs.
Cell(cs, i) == At(At(cs, locate(i).chunk).elems, locate(i).offset)

\* The cell of every id below n exists.
LEMMA CellThere ==
    ASSUME NEW cs, NEW n, Good(cs, n), NEW i \in 0 .. n - 1
    PROVE  /\ locate(i).chunk \in 0 .. Len(cs) - 1
           /\ locate(i).offset \in 0 .. Fill(locate(i).chunk, n) - 1
           /\ Len(At(cs, locate(i).chunk).elems) = Fill(locate(i).chunk, n)
           /\ i + 1 = 2^locate(i).chunk + locate(i).offset
  <1>. DEFINE K == locate(i).chunk
              O == locate(i).offset
              L == Len(cs)
  <1>1. cs \in Seq(Chunk) /\ n \in Nat /\ L \in Nat /\ n + 1 <= 2^L /\ i \in Nat /\ i < n
    BY DEF Good
  <1>2. K \in Nat /\ O \in Nat /\ O < 2^K /\ i + 1 = 2^K + O
    BY <1>1, LocateFacts
  <1>. HIDE DEF K, O, L
  <1>3. 2^K \in Nat /\ 2^(K + 1) = 2^K + 2^K /\ 2^L \in Nat
    BY <1>1, <1>2, PowerStep
  <1>4. K < L
    <2>1. L = K \/ L < K => 2^L <= 2^K
      <3>1. L < K => 2^(L + 1) <= 2^K /\ 2^(L + 1) = 2^L + 2^L
        BY <1>1, <1>2, PowersGrow, PowerStep
      <3>. QED
        BY <1>3, <3>1
    <2>. QED
      BY <1>1, <1>2, <1>3, <2>1
  <1>5. O \in 0 .. Fill(K, n) - 1
    BY <1>1, <1>2, <1>3 DEF Fill
  <1>6. K \in 0 .. L - 1
    BY <1>1, <1>2, <1>4
  <1>7. Len(At(cs, K).elems) = Fill(K, n)
    BY <1>6 DEF Good, Laid, L
  <1>. QED
    BY <1>2, <1>5, <1>6, <1>7 DEF K, O, L

WithElems(cs, K, es) == SetAt(cs, K, [At(cs, K) EXCEPT !.elems = es])

\* Other elements in chunk K: the layout then is that of m elements.
LEMMA SetChunk ==
    ASSUME NEW cs \in Seq(Chunk), NEW n \in Nat, NEW m \in Nat, Laid(cs, n),
           m + 1 <= 2^Len(cs), NEW K \in 0 .. Len(cs) - 1,
           \A k \in Nat : k # K => Fill(k, m) = Fill(k, n),
           NEW es \in Seq(Values), Len(es) = Fill(K, m)
    PROVE  /\ Good(WithElems(cs, K, es), m) /\ Len(WithElems(cs, K, es)) = Len(cs)
           /\ At(WithElems(cs, K, es), K).elems = es
           /\ \A k \in 0 .. Len(cs) - 1 : k # K => At(WithElems(cs, K, es), k) = At(cs, k)
  <1>. DEFINE c == [At(cs, K) EXCEPT !.elems = es]
              ds == WithElems(cs, K, es)
  <1>1. Len(cs) \in Nat /\ At(cs, K) \in Chunk
    BY DEF At
  <1>2. c \in Chunk /\ c.elems = es /\ c.cap = At(cs, K).cap /\ c.moves = At(cs, K).moves
    BY <1>1 DEF Chunk
  <1>3. ds = SetAt(cs, K, c)
    BY DEF WithElems
  <1>. HIDE DEF c, ds
  <1>4. /\ ds \in Seq(Chunk) /\ Len(ds) = Len(cs) /\ At(ds, K) = c
        /\ \A k \in 0 .. Len(cs) - 1 : k # K => At(ds, k) = At(cs, k)
    <2>1. ds \in Seq(Chunk) /\ Len(ds) = Len(cs)
      BY <1>1, <1>2, <1>3 DEF SetAt
    <2>2. At(ds, K) = c
      BY <1>1, <1>2, <1>3 DEF SetAt, At
    <2>3. \A k \in 0 .. Len(cs) - 1 : k # K => At(ds, k) = At(cs, k)
      BY <1>1, <1>2, <1>3 DEF SetAt, At
    <2>. QED
      BY <2>1, <2>2, <2>3
  <1>5. ASSUME NEW k \in 0 .. Len(ds) - 1
        PROVE  /\ At(ds, k).cap = 2^k /\ Len(At(ds, k).elems) = Fill(k, m)
               /\ At(ds, k).moves = 0
    <2>1. k \in 0 .. Len(cs) - 1 /\ k \in Nat
      BY <1>1, <1>4
    <2>2. /\ At(cs, k).cap = 2^k /\ Len(At(cs, k).elems) = Fill(k, n)
          /\ At(cs, k).moves = 0
      BY <2>1 DEF Laid
    <2>3. CASE k = K
      BY <1>2, <1>4, <2>2, <2>3
    <2>4. CASE k # K
      BY <1>4, <2>1, <2>2, <2>4
    <2>. QED
      BY <2>3, <2>4
  <1>. QED
    BY <1>2, <1>4, <1>5 DEF Good, Laid, ds

\* The elements of the other chunks, and those left alone in chunk K, stay.
LEMMA CellsKept ==
    ASSUME NEW cs, NEW n, Good(cs, n), NEW ds, NEW K,
           \A k \in 0 .. Len(cs) - 1 : k # K => At(ds, k) = At(cs, k),
           NEW i \in 0 .. n - 1,
           locate(i).chunk = K =>
               At(At(ds, K).elems, locate(i).offset) = At(At(cs, K).elems, locate(i).offset)
    PROVE  Cell(ds, i) = Cell(cs, i)
  <1>1. locate(i).chunk \in 0 .. Len(cs) - 1
    BY CellThere
  <1>. QED
    BY <1>1 DEF Cell

\* The chunk that locate names for the next id is there or is the next to come.
LEMMA NextChunk ==
    ASSUME NEW cs, NEW n, Good(cs, n)
    PROVE  \/ locate(n).chunk < Len(cs)
           \/ locate(n).chunk = Len(cs) /\ locate(n).offset = 0
  <1>. DEFINE K == locate(n).chunk
              O == locate(n).offset
              L == Len(cs)
  <1>1. cs \in Seq(Chunk) /\ n \in Nat /\ L \in Nat /\ n + 1 <= 2^L
    BY DEF Good
  <1>2. K \in Nat /\ O \in Nat /\ n + 1 = 2^K + O
    BY <1>1, LocateFacts
  <1>. HIDE DEF K, O, L
  <1>3. L < K => 2^(L + 1) <= 2^K /\ 2^(L + 1) = 2^L + 2^L
    BY <1>1, <1>2, PowersGrow, PowerStep
  <1>4. 2^K \in Nat /\ 2^L \in Nat /\ 2^L > 0
    BY <1>1, <1>2, PowerExceeds
  <1>. QED
    BY <1>1, <1>2, <1>3, <1>4 DEF K, O, L

\* push finds its chunk, fills the cell behind the last and moves nothing.
LEMMA PushFacts ==
    ASSUME Good(chunks, len), NEW e \in Values, PushElement(e)
    PROVE  /\ Good(chunks', len') /\ len' = len + 1 /\ Cell(chunks', len) = e
           /\ \A i \in 0 .. len - 1 : Cell(chunks', i) = Cell(chunks, i)
  <1>. DEFINE K == locate(len).chunk
              O == locate(len).offset
              L == Len(chunks)
              w == WithCapacity(2^K)
              cs == IF O = 0 /\ L = K THEN Append(chunks, w) ELSE chunks
  <1>1. /\ K < Len(cs) /\ chunks' = SetAt(cs, K, VecPush(At(cs, K), e)) /\ len' = len + 1
    BY DEF PushElement
  <1>2. /\ chunks \in Seq(Chunk) /\ len \in Nat /\ L \in Nat /\ Laid(chunks, len)
        /\ len + 1 <= 2^L
    BY DEF Good
  <1>3. K \in Nat /\ O \in Nat /\ O < 2^K /\ len + 1 = 2^K + O
    BY <1>2, LocateFacts
  <1>. HIDE DEF K, O
  <1>4. Fill(K, len) = O /\ Fill(K, len + 1) = O + 1
        /\ \A k \in Nat : k # K => Fill(k, len + 1) = Fill(k, len)
    BY <1>2, <1>3, FillNext DEF K, O
  <1>5. 2^K \in Nat /\ 2^(K + 1) = 2^K + 2^K
    BY <1>3, PowerStep
  <1>6. /\ cs \in Seq(Chunk) /\ Laid(cs, len) /\ len + 1 <= 2^Len(cs)
        /\ \A k \in 0 .. L - 1 : At(cs, k) = At(chunks, k)
    <2>1. CASE O = 0 /\ L = K
      <3>1. w \in Chunk /\ w.cap = 2^K /\ Len(w.elems) = 0 /\ w.moves = 0
        BY <1>5 DEF WithCapacity, Chunk
      <3>2. cs = Append(chunks, w)
        BY <2>1
      <3>. HIDE DEF cs, w
      <3>3. /\ cs \in Seq(Chunk) /\ Len(cs) = L + 1 /\ At(cs, L) = w
            /\ \A k \in 0 .. L - 1 : At(cs, k) = At(chunks, k)
        BY <1>2, <3>1, <3>2, AppendFacts
      <3>4. \A k \in 0 .. L : k = K \/ k \in 0 .. L - 1
        BY <1>2, <2>1
      <3>5. Laid(cs, len)
        BY <1>2, <1>4, <2>1, <3>1, <3>3, <3>4 DEF Laid
      <3>. QED
        BY <1>3, <1>5, <2>1, <3>3, <3>5
    <2>2. CASE ~(O = 0 /\ L = K)
      <3>1. cs = chunks
        BY <2>2
      <3>. QED
        BY <1>2, <3>1
    <2>. QED
      BY <2>1, <2>2
  <1>. HIDE DEF cs
  <1>. DEFINE old == At(cs, K).elems
              es == Append(old, e)
  <1>7. Len(cs) \in Nat /\ K \in 0 .. Len(cs) - 1
    BY <1>1, <1>3, <1>6
  <1>8. /\ At(cs, K) \in Chunk /\ At(cs, K).cap = 2^K /\ old \in Seq(Values) /\ Len(old) = O
    <2>1. At(cs, K) \in Chunk
      BY <1>6, <1>7 DEF At
    <2>. QED
      BY <1>4, <1>6, <1>7, <2>1 DEF Laid, Chunk
  <1>9. VecPush(At(cs, K), e) = [At(cs, K) EXCEPT !.elems = es]
    BY <1>3, <1>8 DEF VecPush, Chunk
  <1>10. /\ es \in Seq(Values) /\ Len(es) = O + 1 /\ At(es, O) = e
         /\ \A j \in 0 .. O - 1 : At(es, j) = At(old, j)
    BY <1>3, <1>8, AppendFacts
  <1>11. (len + 1) + 1 <= 2^Len(cs)
    <2>1. K + 1 = Len(cs) \/ K + 1 < Len(cs)
      BY <1>3, <1>7
    <2>2. K + 1 \in Nat /\ 2^(K + 1) <= 2^Len(cs)
      BY <1>3, <1>5, <1>7, <2>1, PowersGrow, PowerExceeds
    <2>. QED
      BY <1>2, <1>3, <1>5, <1>7, <2>2, PowerExceeds
  <1>. HIDE DEF es, old, L
  <1>12. /\ Good(chunks', len + 1) /\ At(chunks', K).elems = es
         /\ \A k \in 0 .. Len(cs) - 1 : k # K => At(chunks', k) = At(cs, k)
    <2>1. chunks' = WithElems(cs, K, es)
      BY <1>1, <1>9 DEF WithElems
    <2>2. Len(es) = Fill(K, len + 1) /\ len + 1 \in Nat
      BY <1>2, <1>4, <1>10
    <2>. QED
      <3>1. /\ cs \in Seq(Chunk) /\ len \in Nat /\ Laid(cs, len) /\ (len + 1) + 1 <= 2^Len(cs)
            /\ K \in 0 .. Len(cs) - 1 /\ es \in Seq(Values)
            /\ \A k \in Nat : k # K => Fill(k, len + 1) = Fill(k, len)
        BY <1>2, <1>4, <1>6, <1>7, <1>10, <1>11
      <3>. QED
        BY <2>1, <2>2, <3>1, SetChunk
  <1>13. Good(cs, len)
    BY <1>2, <1>6 DEF Good
  <1>14. Cell(chunks', len) = e
    BY <1>10, <1>12 DEF Cell, K, O
  <1>15. ASSUME NEW i \in 0 .. len - 1
         PROVE  Cell(chunks', i) = Cell(chunks, i)
    <2>1. locate(i).chunk = K => locate(i).offset \in 0 .. O - 1
      BY <1>4, <1>13, CellThere
    <2>2. Cell(chunks', i) = Cell(cs, i)
      <3>1. locate(i).chunk = K =>
              At(At(chunks', K).elems, locate(i).offset) = At(At(cs, K).elems, locate(i).offset)
        BY <1>10, <1>12, <2>1 DEF old
      <3>. QED
        BY <1>12, <1>13, <3>1, CellsKept
    <2>3. locate(i).chunk \in 0 .. L - 1
      BY CellThere DEF L
    <2>4. Cell(cs, i) = Cell(chunks, i)
      BY <1>6, <2>3 DEF Cell
    <2>. QED
      BY <2>2, <2>4
  <1>. QED
    BY <1>1, <1>12, <1>14, <1>15

\* One turn of truncate drops the last element and nothing else.
LEMMA TruncateStepFacts ==
    ASSUME Good(chunks, len), job.target \in Nat, TruncateStep
    PROVE  /\ len \in Nat \ {0} /\ Good(chunks', len') /\ len' = len - 1
           /\ \A i \in 0 .. len - 2 : Cell(chunks', i) = Cell(chunks, i)
  <1>. DEFINE m == len - 1
              K == locate(m).chunk
              O == locate(m).offset
  <1>1. /\ len > job.target /\ len' = m
        /\ chunks' = [chunks EXCEPT ![K + 1].elems = Truncate(@, O)]
    BY DEF TruncateStep
  <1>2. /\ chunks \in Seq(Chunk) /\ len \in Nat /\ Len(chunks) \in Nat /\ Laid(chunks, len)
        /\ len + 1 <= 2^Len(chunks)
    BY DEF Good
  <1>3. len \in Nat \ {0} /\ m \in Nat /\ m \in 0 .. len - 1 /\ m + 1 = len
    BY <1>1, <1>2
  <1>. HIDE DEF m
  <1>4. /\ K \in 0 .. Len(chunks) - 1 /\ K \in Nat /\ O \in Nat
    BY <1>3, CellThere, LocateFacts
  <1>. HIDE DEF K, O
  <1>5. Fill(K, m) = O /\ Fill(K, len) = O + 1
        /\ \A k \in Nat : k # K => Fill(k, m) = Fill(k, len)
    BY <1>3, <1>4, FillNext DEF K, O
  <1>6. /\ At(chunks, K) \in Chunk /\ At(chunks, K).elems \in Seq(Values)
        /\ Len(At(chunks, K).elems) = O + 1
    <2>1. At(chunks, K) \in Chunk
      BY <1>2, <1>4 DEF At
    <2>. QED
      BY <1>2, <1>4, <1>5, <2>1 DEF Laid, Chunk
  <1>. DEFINE old == At(chunks, K).elems
              es == Truncate(old, O)
  <1>7. chunks' = WithElems(chunks, K, es)
    BY <1>1, <1>2, <1>4 DEF WithElems, SetAt, At
  <1>. HIDE DEF old
  <1>8. /\ es \in Seq(Values) /\ Len(es) = O
        /\ \A j \in 0 .. O - 1 : At(es, j) = At(old, j)
    <2>1. old \in Seq(Values) /\ Len(old) = O + 1 /\ O < O + 1
      BY <1>4, <1>6 DEF old
    <2>2. es \in Seq(Values) /\ Len(es) = O
      BY <1>4, <2>1, TruncateFacts
    <2>3. \A j \in Indices(es) : At(es, j) = At(old, j)
      BY <1>4, <2>1, TruncateFacts
    <2>. HIDE DEF es
    <2>. QED
      BY <2>2, <2>3 DEF Indices
  <1>. HIDE DEF es
  <1>9. m + 1 <= 2^Len(chunks)
    BY <1>2, <1>3, PowerExceeds
  <1>10. /\ Good(chunks', m) /\ At(chunks', K).elems = es
         /\ \A k \in 0 .. Len(chunks) - 1 : k # K => At(chunks', k) = At(chunks, k)
    <2>1. Len(es) = Fill(K, m)
      BY <1>5, <1>8
    <2>2. /\ chunks \in Seq(Chunk) /\ len \in Nat /\ m \in Nat /\ Laid(chunks, len)
          /\ m + 1 <= 2^Len(chunks) /\ K \in 0 .. Len(chunks) - 1 /\ es \in Seq(Values)
          /\ \A k \in Nat : k # K => Fill(k, m) = Fill(k, len)
      BY <1>2, <1>3, <1>4, <1>5, <1>8, <1>9
    <2>. QED
      BY <1>7, <2>1, <2>2, SetChunk
  <1>11. ASSUME NEW i \in 0 .. len - 2
         PROVE  Cell(chunks', i) = Cell(chunks, i)
    <2>1. i \in 0 .. len - 1 /\ i \in Nat /\ i < m
      BY <1>3
    <2>2. locate(i).chunk = K => locate(i).offset \in 0 .. O - 1
      <3>1. i + 1 = 2^locate(i).chunk + locate(i).offset /\ m + 1 = 2^K + O /\ locate(i).offset \in Nat
        BY <1>3, <2>1, LocateFacts DEF K, O
      <3>. QED
        BY <1>4, <2>1, <1>3, <3>1, PowerExceeds
    <2>3. locate(i).chunk = K =>
            At(At(chunks', K).elems, locate(i).offset) = At(At(chunks, K).elems, locate(i).offset)
      BY <1>8, <1>10, <2>2 DEF old
    <2>. QED
      BY <1>10, <2>1, <2>3, CellsKept
  <1>. QED
    BY <1>1, <1>3, <1>10, <1>11 DEF m

\* replace and the writes through references change one element.
LEMMA ReplaceFacts ==
    ASSUME Good(chunks, len), NEW id \in Nat, NEW v \in Values, Replace(id, v)
    PROVE  /\ Good(chunks', len') /\ len' = len /\ id \in 0 .. len - 1
           /\ Cell(chunks', id) = v
           /\ \A i \in 0 .. len - 1 : i # id => Cell(chunks', i) = Cell(chunks, i)
  <1>. DEFINE K == locate(id).chunk
              O == locate(id).offset
              old == At(chunks, K).elems
              es == SetAt(old, O, v)
  <1>1. /\ id < len /\ len' = len
        /\ chunks' = [chunks EXCEPT ![K + 1].elems = SetAt(@, O, v)]
    BY DEF Replace
  <1>2. /\ chunks \in Seq(Chunk) /\ len \in Nat /\ Len(chunks) \in Nat /\ Laid(chunks, len)
        /\ len + 1 <= 2^Len(chunks)
    BY DEF Good
  <1>3. id \in 0 .. len - 1
    BY <1>1, <1>2
  <1>4. /\ K \in 0 .. Len(chunks) - 1 /\ O \in 0 .. Fill(K, len) - 1
        /\ Len(old) = Fill(K, len) /\ id + 1 = 2^K + O
    BY <1>3, CellThere
  <1>. HIDE DEF K, O
  <1>5. K \in Nat /\ Fill(K, len) \in Nat
    BY <1>2, <1>4, FillFacts
  <1>6. old \in Seq(Values)
    <2>1. At(chunks, K) \in Chunk
      BY <1>2, <1>4 DEF At
    <2>. QED
      BY <2>1 DEF Chunk
  <1>7. chunks' = WithElems(chunks, K, es)
    BY <1>1, <1>2, <1>4 DEF WithElems, SetAt, At
  <1>. HIDE DEF old
  <1>8. /\ es \in Seq(Values) /\ Len(es) = Fill(K, len) /\ At(es, O) = v
        /\ \A j \in 0 .. Fill(K, len) - 1 : j # O => At(es, j) = At(old, j)
    BY <1>4, <1>5, <1>6, SetAtFacts
  <1>. HIDE DEF es
  <1>9. /\ Good(chunks', len) /\ At(chunks', K).elems = es
        /\ \A k \in 0 .. Len(chunks) - 1 : k # K => At(chunks', k) = At(chunks, k)
    <2>1. /\ chunks \in Seq(Chunk) /\ len \in Nat /\ Laid(chunks, len)
          /\ len + 1 <= 2^Len(chunks) /\ K \in 0 .. Len(chunks) - 1
          /\ es \in Seq(Values) /\ Len(es) = Fill(K, len)
      BY <1>2, <1>4, <1>8
    <2>. QED
      BY <1>7, <2>1, SetChunk
  <1>10. Cell(chunks', id) = v
    BY <1>8, <1>9 DEF Cell, K, O
  <1>11. ASSUME NEW i \in 0 .. len - 1, i # id
         PROVE  Cell(chunks', i) = Cell(chunks, i)
    <2>1. /\ locate(i).offset \in 0 .. Fill(locate(i).chunk, len) - 1
          /\ i + 1 = 2^locate(i).chunk + locate(i).offset
      BY CellThere
    <2>2. locate(i).chunk = K => locate(i).offset # O
      BY <1>4, <1>11, <2>1
    <2>3. locate(i).chunk = K =>
            At(At(chunks', K).elems, locate(i).offset) = At(At(chunks, K).elems, locate(i).offset)
      BY <1>8, <1>9, <2>1, <2>2 DEF old
    <2>. QED
      BY <1>9, <2>3, CellsKept
  <1>. QED
    BY <1>1, <1>3, <1>9, <1>10, <1>11

FlatOf(cs) == FlattenSeq([k \in 1 .. Len(cs) |-> cs[k].elems])

\* The registry read as one vector: element n is the one in the cell of id n.
LEMMA FlatOfIs ==
    ASSUME NEW cs, NEW n, Good(cs, n)
    PROVE  /\ FlatOf(cs) \in Seq(Values) /\ Len(FlatOf(cs)) = n
           /\ \A i \in 0 .. n - 1 : At(FlatOf(cs), i) = Cell(cs, i)
  <1>. DEFINE L == Len(cs)
  <1>1. /\ cs \in Seq(Chunk) /\ n \in Nat /\ L \in Nat /\ Laid(cs, n)
        /\ n + 1 <= 2^L
    BY DEF Good
  <1>2. Joined(cs, n, L, FlatOf(cs))
    <2>1. L \in 0 .. Len(cs)
      BY <1>1
    <2>2. FlatOf(cs) = FlattenSeq([k \in 1 .. L |-> cs[k].elems])
      BY DEF FlatOf
    <2>. HIDE DEF L
    <2>. QED
      BY <1>1, <2>1, <2>2, JoinedFacts
  <1>. HIDE DEF L
  <1>3. FlatOf(cs) \in Seq(Values) /\ Len(FlatOf(cs)) = n
    BY <1>1, <1>2 DEF Joined, Capped
  <1>4. ASSUME NEW i \in 0 .. n - 1
        PROVE  At(FlatOf(cs), i) = Cell(cs, i)
    <2>1. /\ locate(i).chunk \in 0 .. L - 1
          /\ locate(i).offset \in 0 .. Fill(locate(i).chunk, n) - 1
          /\ i + 1 = 2^locate(i).chunk + locate(i).offset
      BY CellThere DEF L
    <2>2. FlatOf(cs)[2^locate(i).chunk + locate(i).offset] = Cell(cs, i)
      BY <1>2, <2>1 DEF Joined, Cell
    <2>. QED
      BY <2>1, <2>2 DEF At
  <1>. QED
    BY <1>3, <1>4

\* The same of the registry as it is.
LEMMA FlatIs ==
    ASSUME Good(chunks, len)
    PROVE  /\ Flat \in Seq(Values) /\ Len(Flat) = len
           /\ \A i \in 0 .. len - 1 : At(Flat, i) = Cell(chunks, i)
  <1>1. Flat = FlatOf(chunks)
    BY DEF Flat, FlatOf
  <1>. QED
    BY <1>1, FlatOfIs

\* Start gives the id of a chunk's first element, for a chunk that has one.
LEMMA StartIs ==
    ASSUME Good(chunks, len), NEW k \in 0 .. Len(chunks) - 1, Fill(k, len) # 0
    PROVE  Start(k + 1) = 2^k - 1
  <1>1. chunks \in Seq(Chunk) /\ len \in Nat /\ Laid(chunks, len) /\ k \in 0 .. Len(chunks) /\ k \in Nat
    BY DEF Good
  <1>2. Start(k + 1) = Len(FlattenSeq([j \in 1 .. k |-> chunks[j].elems]))
    <2>1. (k + 1) - 1 = k
      BY <1>1
    <2>. QED
      BY <2>1 DEF Start
  <1>3. Len(FlattenSeq([j \in 1 .. k |-> chunks[j].elems])) = Capped(k, len)
    BY <1>1, JoinedFacts DEF Joined
  <1>. QED
    BY <1>1, <1>2, <1>3, FillFacts

\* What the caller writes is an element.
LEMMA RoutedType ==
    ASSUME NEW p \in Picks, NEW n, NEW e \in Values
    PROVE  Routed(p, n, e) \in Values
  <1>1. p.new \in Seq(Values) /\ Len(p.ids) = Len(p.new)
    BY RegistryAssumption
  <1>2. CASE Want(p, n) # {}
    <2>1. (CHOOSE i \in Want(p, n) : TRUE) \in 1 .. Len(p.ids)
      BY <1>2 DEF Want
    <2>. QED
      BY <1>1, <1>2, <2>1 DEF Routed
  <1>. QED
    BY <1>2 DEF Routed

\* select_mut gives each element asked for to the position that asked for it.
LEMMA SelectFacts ==
    ASSUME Good(chunks, len), NEW p \in Picks, SelectMut(p)
    PROVE  /\ Good(chunks', len') /\ len' = len
           /\ \A i \in 0 .. len - 1 : Cell(chunks', i) = Routed(p, i, Cell(chunks, i))
  <1>. DEFINE L == Len(chunks)
              New(k) == [o \in 1 .. Len(chunks[k].elems) |->
                           Routed(p, Start(k) + o - 1, chunks[k].elems[o])]
              ch(k) == [chunks[k] EXCEPT !.elems = New(k)]
  <1>1. chunks' = [k \in 1 .. L |-> ch(k)] /\ len' = len
    BY DEF SelectMut
  <1>2. /\ chunks \in Seq(Chunk) /\ len \in Nat /\ L \in Nat /\ Laid(chunks, len)
        /\ len + 1 <= 2^L
    BY DEF Good
  <1>3. ASSUME NEW k \in 0 .. L - 1
        PROVE  /\ k + 1 \in 1 .. L /\ chunks[k + 1] \in Chunk
               /\ chunks[k + 1].cap = 2^k /\ chunks[k + 1].moves = 0
               /\ chunks[k + 1].elems \in Seq(Values)
               /\ Len(chunks[k + 1].elems) = Fill(k, len) /\ Fill(k, len) \in Nat
    <2>1. k + 1 \in 1 .. L /\ chunks[k + 1] \in Chunk
      BY <1>2
    <2>2. At(chunks, k) = chunks[k + 1]
      BY DEF At
    <2>3. Fill(k, len) \in Nat
      <3>1. k \in Nat /\ len \in Nat
        BY <1>2
      <3>2. Fill(k, len) \in 0 .. 2^k /\ 2^k \in Nat
        BY <3>1, FillFacts
      <3>. QED
        BY <3>2
    <2>4. /\ chunks[k + 1].cap = 2^k /\ chunks[k + 1].moves = 0
          /\ Len(chunks[k + 1].elems) = Fill(k, len)
      BY <1>2, <2>2 DEF Laid
    <2>5. chunks[k + 1].elems \in Seq(Values)
      BY <2>1 DEF Chunk
    <2>. QED
      BY <2>1, <2>3, <2>4, <2>5
  <1>4. ASSUME NEW k \in 0 .. L - 1
        PROVE  /\ New(k + 1) \in Seq(Values) /\ Len(New(k + 1)) = Fill(k, len)
               /\ \A o \in 0 .. Fill(k, len) - 1 :
                     New(k + 1)[o + 1] = Routed(p, Start(k + 1) + (o + 1) - 1, chunks[k + 1].elems[o + 1])
    <2>. DEFINE f == Fill(k, len)
                N == New(k + 1)
    <2>1. chunks[k + 1].elems \in Seq(Values) /\ Len(chunks[k + 1].elems) = f /\ f \in Nat
      BY <1>3
    <2>2. \A o \in 1 .. f : Routed(p, Start(k + 1) + o - 1, chunks[k + 1].elems[o]) \in Values
      <3>1. \A o \in 1 .. f : chunks[k + 1].elems[o] \in Values
        BY <2>1
      <3>. QED
        BY <3>1, RoutedType
    <2>3. /\ N \in [1 .. f -> Values]
          /\ \A o \in 1 .. f : N[o] = Routed(p, Start(k + 1) + o - 1, chunks[k + 1].elems[o])
      BY <2>1, <2>2
    <2>. HIDE DEF N, f
    <2>4. N \in Seq(Values) /\ Len(N) = f
      BY <2>1, <2>3
    <2>5. \A o \in 0 .. f - 1 : o + 1 \in 1 .. f
      BY <2>1
    <2>6. \A o \in 0 .. f - 1 :
             N[o + 1] = Routed(p, Start(k + 1) + (o + 1) - 1, chunks[k + 1].elems[o + 1])
      BY <2>3, <2>5
    <2>. QED
      BY <2>4, <2>6 DEF N, f
  <1>. HIDE DEF New
  <1>5. ASSUME NEW k \in 0 .. L - 1
        PROVE  /\ ch(k + 1) \in Chunk /\ ch(k + 1).elems = New(k + 1)
               /\ ch(k + 1).cap = 2^k /\ ch(k + 1).moves = 0
    BY <1>3, <1>4 DEF Chunk
  <1>. HIDE DEF ch
  <1>6. chunks' \in Seq(Chunk) /\ Len(chunks') = L /\ \A k \in 0 .. L - 1 : At(chunks', k) = ch(k + 1)
    <2>1. \A k \in 1 .. L : ch(k) \in Chunk
      <3>. SUFFICES ASSUME NEW k \in 1 .. L
                    PROVE  ch(k) \in Chunk
        OBVIOUS
      <3>1. k - 1 \in 0 .. L - 1 /\ (k - 1) + 1 = k
        BY <1>2
      <3>2. ch((k - 1) + 1) \in Chunk
        BY <1>5, <3>1
      <3>. QED
        BY <3>1, <3>2
    <2>2. chunks' \in [1 .. L -> Chunk]
      BY <1>1, <2>1
    <2>3. \A k \in 0 .. L - 1 : k + 1 \in 1 .. L
      BY <1>2
    <2>. HIDE DEF L
    <2>4. chunks' \in Seq(Chunk) /\ Len(chunks') = L
      BY <1>2, <2>2
    <2>5. \A k \in 0 .. L - 1 : At(chunks', k) = ch(k + 1)
      BY <1>1, <2>3 DEF At
    <2>. QED
      BY <2>4, <2>5
  <1>7. Good(chunks', len)
    BY <1>2, <1>4, <1>5, <1>6 DEF Good, Laid
  <1>8. ASSUME NEW i \in 0 .. len - 1
        PROVE  Cell(chunks', i) = Routed(p, i, Cell(chunks, i))
    <2>. DEFINE K == locate(i).chunk
                O == locate(i).offset
    <2>1. K \in 0 .. L - 1 /\ O \in 0 .. Fill(K, len) - 1 /\ i + 1 = 2^K + O
      BY CellThere
    <2>. HIDE DEF K, O
    <2>2. Start(K + 1) = 2^K - 1
      <3>1. Fill(K, len) # 0
        BY <1>3, <2>1
      <3>. QED
        BY <2>1, <3>1, StartIs
    <2>3. Start(K + 1) + (O + 1) - 1 = i
      BY <2>1, <2>2, PowerExceeds
    <2>4. At(ch(K + 1).elems, O) = Routed(p, i, chunks[K + 1].elems[O + 1])
      BY <1>4, <1>5, <2>1, <2>3 DEF At
    <2>5. At(At(chunks, K).elems, O) = chunks[K + 1].elems[O + 1]
      BY DEF At
    <2>. QED
      BY <1>6, <2>1, <2>4, <2>5 DEF Cell, K, O
  <1>. QED
    BY <1>1, <1>7, <1>8

-----------------------------------------------------------------------------
(* The inductive invariant. *)

Job == [op : {"none", "truncate", "build"}, target : Nat, source : Seq(Values)]

RegInv == /\ Good(chunks, len)
          /\ job \in Job /\ (job.op # "build" => job.source = <<>>)

\* The empty registry satisfies the invariant.
LEMMA InitRegistry == Init => RegInv
  <1>. SUFFICES ASSUME Init
                PROVE  RegInv
    OBVIOUS
  <1>1. chunks = <<>> /\ len = 0 /\ Len(chunks) = 0 /\ job = NoJob
    BY DEF Init
  <1>2. Good(chunks, len)
    BY <1>1, PowerZero DEF Good, Laid
  <1>. QED
    BY <1>1, <1>2 DEF RegInv, NoJob, Job

\* No operation and no turn of a loop breaks the invariant.
LEMMA NextRegistry == RegInv /\ [Next]_vars => RegInv'
  <1>. SUFFICES ASSUME RegInv, [Next]_vars
                PROVE  RegInv'
    OBVIOUS
  <1>1. /\ Good(chunks, len) /\ job \in Job /\ (job.op # "build" => job.source = <<>>)
        /\ job.target \in Nat /\ job.source \in Seq(Values)
    BY DEF RegInv, Job
  <1>2. NoJob \in Job /\ NoJob.source = <<>>
    BY DEF NoJob, Job
  <1>3. UNCHANGED <<chunks, len>> => Good(chunks', len')
    BY <1>1
  <1>4. chunks' = <<>> /\ len' = 0 => Good(chunks', len')
    BY PowerZero DEF Good, Laid
  <1>5. ASSUME NEW v \in Values, Push(v)
        PROVE  RegInv'
    <2>1. PushElement(v) /\ UNCHANGED job
      BY <1>5 DEF Push, Idle
    <2>. QED
      BY <1>1, <2>1, PushFacts DEF RegInv
  <1>6. ASSUME NEW id \in 0 .. IdLimit - 1, NEW v \in Values, Replace(id, v)
        PROVE  RegInv'
    <2>1. id \in Nat
      BY RegistryAssumption
    <2>2. UNCHANGED job
      BY <1>6 DEF Replace, Idle
    <2>. QED
      BY <1>1, <1>6, <2>1, <2>2, ReplaceFacts DEF RegInv
  <1>7. ASSUME NEW p \in Picks, SelectMut(p)
        PROVE  RegInv'
    <2>1. UNCHANGED job
      BY <1>7 DEF SelectMut, Idle
    <2>. QED
      BY <1>1, <1>7, <2>1, SelectFacts DEF RegInv
  <1>8. ASSUME NEW n \in 0 .. MaxLen, TruncateBegin(n)
        PROVE  RegInv'
    <2>1. n \in Nat /\ job' = [op |-> "truncate", target |-> n, source |-> <<>>]
      <3>1. n \in Nat
        BY RegistryAssumption
      <3>2. job' = [NoJob EXCEPT !.op = "truncate", !.target = n]
        BY <1>8 DEF TruncateBegin
      <3>. QED
        BY <3>1, <3>2 DEF NoJob
    <2>2. job' \in Job /\ job'.source = <<>>
      BY <2>1 DEF Job
    <2>. QED
      BY <1>3, <1>8, <2>2 DEF TruncateBegin, RegInv
  <1>9. CASE TruncateStep
    <2>1. UNCHANGED job
      BY <1>9 DEF TruncateStep
    <2>. QED
      BY <1>1, <1>9, <2>1, TruncateStepFacts DEF RegInv
  <1>10. CASE CloneBegin
    <2>1. Flat \in Seq(Values)
      BY <1>1, FlatIs
    <2>2. job' \in Job /\ job'.op = "build" /\ chunks' = <<>> /\ len' = 0
      BY <1>10, <2>1 DEF CloneBegin, Job
    <2>. QED
      BY <1>4, <2>2 DEF RegInv
  <1>11. ASSUME NEW s \in Loads, DeserializeBegin(s)
         PROVE  RegInv'
    <2>1. job' \in Job /\ job'.op = "build" /\ chunks' = <<>> /\ len' = 0
      BY <1>11, RegistryAssumption DEF DeserializeBegin, Job
    <2>. QED
      BY <1>4, <2>1 DEF RegInv
  <1>12. CASE BuildStep
    <2>1. /\ job.source # <<>> /\ job.op = "build" /\ PushElement(Head(job.source))
          /\ job' = [job EXCEPT !.source = Tail(@)]
      BY <1>12 DEF BuildStep
    <2>2. Head(job.source) \in Values /\ Tail(job.source) \in Seq(Values)
      BY <1>1, <2>1
    <2>3. job' \in Job /\ job'.op = "build"
      BY <1>1, <2>1, <2>2 DEF Job
    <2>. QED
      BY <1>1, <2>1, <2>2, <2>3, PushFacts DEF RegInv
  <1>13. CASE JobEnd
    BY <1>2, <1>3, <1>13 DEF JobEnd, RegInv
  <1>14. CASE UNCHANGED vars
    BY <1>1, <1>3, <1>14 DEF vars, RegInv
  <1>. QED
    BY <1>5, <1>6, <1>7, <1>8, <1>9, <1>10, <1>11, <1>12, <1>13, <1>14 DEF Next

\* The invariant holds for ever.
LEMMA RegistryKept == Spec => []RegInv
  BY InitRegistry, NextRegistry, PTL DEF Spec

\* Every chunk of the registry was allocated for 2^k elements and the chunks are
\* filled in order, for any number of elements: what indexing takes for granted.
THEOREM LayoutAlways == Spec => []Layout
  <1>1. Spec => []RegInv
    BY RegistryKept
  <1>2. RegInv => Layout
    <2>. SUFFICES ASSUME RegInv, NEW k \in Indices(chunks)
                  PROVE  /\ At(chunks, k).cap = 2^k
                         /\ Len(At(chunks, k).elems) =
                              IF len <= 2^k - 1 THEN 0
                              ELSE IF len >= 2^(k + 1) - 1 THEN 2^k ELSE len + 1 - 2^k
      BY DEF Layout
    <2>1. /\ k \in 0 .. Len(chunks) - 1 /\ k \in Nat /\ len \in Nat
          /\ At(chunks, k).cap = 2^k /\ Len(At(chunks, k).elems) = Fill(k, len)
      BY DEF RegInv, Good, Laid, Indices
    <2>2. 2^k \in Nat /\ 2^(k + 1) \in Nat
      BY <2>1, PowerExceeds
    <2>. QED
      BY <2>1, <2>2 DEF Fill
  <1>. QED
    BY <1>1, <1>2, PTL

\* iter yields exactly the elements below len, element n under id n, and no
\* index below len panics, however often the registry grew, shrank or was
\* rebuilt.
THEOREM IterMatchesIndexAlways == Spec => []IterMatchesIndex
  <1>1. Spec => []RegInv
    BY RegistryKept
  <1>2. RegInv => IterMatchesIndex
    <2>. SUFFICES ASSUME RegInv
                  PROVE  IterMatchesIndex
      OBVIOUS
    <2>1. Good(chunks, len)
      BY DEF RegInv
    <2>2. Len(Flat) = len /\ \A n \in 0 .. len - 1 : at(n) = At(Flat, n)
      BY <2>1, FlatIs DEF at, Cell
    <2>3. ASSUME NEW n \in 0 .. len - 1
          PROVE  Present(n)
      <3>1. /\ locate(n).chunk \in 0 .. Len(chunks) - 1
            /\ locate(n).offset \in 0 .. Len(At(chunks, locate(n).chunk).elems) - 1
        BY <2>1, CellThere
      <3>2. len \in Nat /\ Len(chunks) \in Nat
        BY <2>1 DEF Good
      <3>. QED
        BY <3>1, <3>2 DEF Present
    <2>. QED
      BY <2>2, <2>3 DEF IterMatchesIndex
  <1>. QED
    BY <1>1, <1>2, PTL

-----------------------------------------------------------------------------
(* Addresses: what makes it safe to hold references while other ids are    *)
(* looked up, and the registry to be grown behind its users.               *)

\* An element below len lives in a buffer that was never moved.
LEMMA AddressIs ==
    ASSUME NEW cs, NEW n, Good(cs, n), NEW i \in 0 .. n - 1
    PROVE  At(cs, locate(i).chunk).moves = 0
  BY CellThere DEF Good, Laid

\* No step moves an element that is there before and after it: growing
\* allocates behind the last chunk, and no chunk ever outgrows its buffer.
THEOREM AddressStableAlways == Spec => AddressStable
  <1>1. RegInv /\ RegInv' =>
           \A n \in 0 .. len - 1 : n < len' => Address(n)' = Address(n)
    <2>. SUFFICES ASSUME RegInv, RegInv', NEW n \in 0 .. len - 1, n < len'
                  PROVE  Address(n)' = Address(n)
      OBVIOUS
    <2>1. Good(chunks, len) /\ Good(chunks', len')
      BY DEF RegInv
    <2>2. n \in 0 .. len' - 1
      <3>1. len \in Nat /\ len' \in Nat
        BY <2>1 DEF Good
      <3>2. n \in Nat /\ n < len'
        BY <3>1
      <3>3. \A a \in Nat : \A b \in Nat : a < b => a \in 0 .. b - 1
        OBVIOUS
      <3>. QED
        BY <3>1, <3>2, <3>3
    <2>3. At(chunks, locate(n).chunk).moves = 0
      BY <2>1, AddressIs
    <2>4. At(chunks', locate(n).chunk).moves = 0
      BY <2>1, <2>2, AddressIs
    <2>. QED
      BY <2>3, <2>4 DEF Address, locate
  <1>2. RegInv /\ RegInv' /\ [Next]_vars =>
           [\/ CloneBegin
            \/ \E s \in Loads : DeserializeBegin(s)
            \/ \A n \in 0 .. len - 1 : n < len' => Address(n)' = Address(n)]_vars
    BY <1>1
  <1>. QED
    BY <1>2, RegistryKept, PTL DEF Spec, AddressStable

\* Neither push nor truncate indexes a chunk that is not there: the chunk of the
\* next element exists or is the one push allocates, and the chunk of the last
\* element exists. The code indexes self.chunks unchecked in both.
ChunksThere ==
    LET next == locate(len)
    IN /\ next.chunk < Len(chunks) \/ (next.offset = 0 /\ next.chunk = Len(chunks))
       /\ len > 0 => locate(len - 1).chunk < Len(chunks)

\* Pushing and truncating never panic on a missing chunk.
THEOREM ChunksThereAlways == Spec => []ChunksThere
  <1>1. RegInv => ChunksThere
    <2>. SUFFICES ASSUME RegInv
                  PROVE  ChunksThere
      OBVIOUS
    <2>1. Good(chunks, len) /\ len \in Nat /\ Len(chunks) \in Nat
      BY DEF RegInv, Good
    <2>2. locate(len).chunk < Len(chunks) \/ (locate(len).offset = 0 /\ locate(len).chunk = Len(chunks))
      BY <2>1, NextChunk
    <2>3. ASSUME len > 0
          PROVE  locate(len - 1).chunk < Len(chunks)
      <3>1. len - 1 \in 0 .. len - 1
        BY <2>1, <2>3
      <3>2. locate(len - 1).chunk \in 0 .. Len(chunks) - 1
        BY <2>1, <3>1, CellThere
      <3>. QED
        BY <2>1, <3>2
    <2>. QED
      BY <2>2, <2>3 DEF ChunksThere
  <1>. QED
    BY <1>1, RegistryKept, PTL

-----------------------------------------------------------------------------
(* The registry as one flat vector. *)

\* What the vector is: the elements in place and those still to be collected.
View == Flat \o job.source

\* The vector after a step, of the chunks and the elements still to come.
LEMMA Views ==
    ASSUME RegInv, RegInv'
    PROVE  /\ View = FlatOf(chunks) \o job.source
           /\ View' = FlatOf(chunks') \o job'.source
           /\ job.source \in Seq(Values) /\ job'.source \in Seq(Values)
           /\ FlatOf(chunks) \in Seq(Values) /\ FlatOf(chunks') \in Seq(Values)
           /\ Len(FlatOf(chunks)) = len /\ Len(FlatOf(chunks')) = len'
           /\ len \in Nat /\ len' \in Nat
           /\ \A i \in 0 .. len - 1 : At(FlatOf(chunks), i) = Cell(chunks, i)
           /\ \A i \in 0 .. len' - 1 : At(FlatOf(chunks'), i) = Cell(chunks', i)
  <1>1. Flat = FlatOf(chunks) /\ Flat' = FlatOf(chunks')
    BY DEF Flat, FlatOf
  <1>2. Good(chunks, len) /\ Good(chunks', len')
    BY DEF RegInv
  <1>3. job.source \in Seq(Values) /\ job'.source \in Seq(Values)
    BY DEF RegInv, Job
  <1>4. len \in Nat /\ len' \in Nat
    BY <1>2 DEF Good
  <1>. QED
    BY <1>1, <1>2, <1>3, <1>4, FlatOfIs DEF View

\* While nothing is being collected the vector is the elements in place.
LEMMA NothingToCome ==
    ASSUME NEW s \in Seq(Values)
    PROVE  s \o <<>> = s /\ <<>> \o s = s
  OBVIOUS

\* Pushing appends; what is appended is out of the way of every cell below len.
LEMMA PushAppends ==
    ASSUME RegInv, RegInv', NEW e \in Values, PushElement(e)
    PROVE  FlatOf(chunks') = Append(FlatOf(chunks), e)
  <1>. DEFINE f == FlatOf(chunks)
              g == FlatOf(chunks')
  <1>1. /\ f \in Seq(Values) /\ g \in Seq(Values) /\ Len(f) = len /\ Len(g) = len'
        /\ len \in Nat
        /\ \A i \in 0 .. len - 1 : At(f, i) = Cell(chunks, i)
        /\ \A i \in 0 .. len' - 1 : At(g, i) = Cell(chunks', i)
    BY Views
  <1>2. /\ len' = len + 1 /\ Cell(chunks', len) = e
        /\ \A i \in 0 .. len - 1 : Cell(chunks', i) = Cell(chunks, i)
    BY PushFacts DEF RegInv
  <1>. HIDE DEF f, g
  <1>3. /\ Append(f, e) \in Seq(Values) /\ Len(Append(f, e)) = len + 1
        /\ At(Append(f, e), len) = e
        /\ \A i \in 0 .. len - 1 : At(Append(f, e), i) = At(f, i)
    BY <1>1, AppendFacts
  <1>4. ASSUME NEW i \in 0 .. Len(g) - 1
        PROVE  At(g, i) = At(Append(f, e), i)
    <2>1. i \in 0 .. len' - 1 /\ (i = len \/ i \in 0 .. len - 1)
      BY <1>1, <1>2
    <2>. QED
      BY <1>1, <1>2, <1>3, <2>1
  <1>5. g = Append(f, e)
    BY <1>1, <1>2, <1>3, <1>4, SameSeq
  <1>. QED
    BY <1>5 DEF f, g

\* Replacing one element replaces it in the vector.
LEMMA ReplaceSets ==
    ASSUME RegInv, RegInv', NEW id \in Nat, NEW v \in Values, Replace(id, v)
    PROVE  /\ FlatOf(chunks') = SetAt(FlatOf(chunks), id, v)
           /\ id \in 0 .. len - 1 /\ at(id) = At(FlatOf(chunks), id)
  <1>. DEFINE f == FlatOf(chunks)
              g == FlatOf(chunks')
  <1>1. /\ f \in Seq(Values) /\ g \in Seq(Values) /\ Len(f) = len /\ Len(g) = len'
        /\ len \in Nat
        /\ \A i \in 0 .. len - 1 : At(f, i) = Cell(chunks, i)
        /\ \A i \in 0 .. len' - 1 : At(g, i) = Cell(chunks', i)
    BY Views
  <1>2. /\ len' = len /\ id \in 0 .. len - 1 /\ Cell(chunks', id) = v
        /\ \A i \in 0 .. len - 1 : i # id => Cell(chunks', i) = Cell(chunks, i)
    BY ReplaceFacts DEF RegInv
  <1>. HIDE DEF f, g
  <1>3. /\ SetAt(f, id, v) \in Seq(Values) /\ Len(SetAt(f, id, v)) = len
        /\ At(SetAt(f, id, v), id) = v
        /\ \A i \in 0 .. len - 1 : i # id => At(SetAt(f, id, v), i) = At(f, i)
    BY <1>1, <1>2, SetAtFacts
  <1>4. ASSUME NEW i \in 0 .. Len(g) - 1
        PROVE  At(g, i) = At(SetAt(f, id, v), i)
    <2>1. i \in 0 .. len' - 1 /\ i \in 0 .. len - 1
      BY <1>1, <1>2
    <2>. QED
      BY <1>1, <1>2, <1>3, <2>1
  <1>5. g = SetAt(f, id, v)
    BY <1>1, <1>2, <1>3, <1>4, SameSeq
  <1>6. at(id) = At(f, id)
    BY <1>1, <1>2 DEF at, Cell
  <1>. QED
    BY <1>2, <1>5, <1>6 DEF f, g

\* One turn of truncate takes the last element off the vector.
LEMMA TruncatePops ==
    ASSUME RegInv, RegInv', TruncateStep
    PROVE  /\ len > 0 /\ at(len - 1) = FlatOf(chunks)[len]
           /\ FlatOf(chunks') = SubSeq(FlatOf(chunks), 1, len - 1)
  <1>. DEFINE f == FlatOf(chunks)
              g == FlatOf(chunks')
              h == SubSeq(f, 1, len - 1)
  <1>1. /\ f \in Seq(Values) /\ g \in Seq(Values) /\ Len(f) = len /\ Len(g) = len'
        /\ len \in Nat
        /\ \A i \in 0 .. len - 1 : At(f, i) = Cell(chunks, i)
        /\ \A i \in 0 .. len' - 1 : At(g, i) = Cell(chunks', i)
    BY Views
  <1>2. job.target \in Nat
    BY DEF RegInv, Job
  <1>3. /\ len \in Nat \ {0} /\ len' = len - 1
        /\ \A i \in 0 .. len - 2 : Cell(chunks', i) = Cell(chunks, i)
    BY <1>2, TruncateStepFacts DEF RegInv
  <1>. HIDE DEF f, g
  <1>4. /\ h \in Seq(Values) /\ Len(h) = len - 1
        /\ \A i \in 0 .. len - 2 : h[i + 1] = f[i + 1]
    BY <1>1, <1>3
  <1>. HIDE DEF h
  <1>5. ASSUME NEW i \in 0 .. Len(g) - 1
        PROVE  At(g, i) = At(h, i)
    <2>1. i \in 0 .. len' - 1 /\ i \in 0 .. len - 1 /\ i \in 0 .. len - 2
      BY <1>1, <1>3
    <2>2. At(g, i) = At(f, i)
      BY <1>1, <1>3, <2>1
    <2>. QED
      BY <1>4, <2>1, <2>2 DEF At
  <1>6. g = h
    BY <1>1, <1>3, <1>4, <1>5, SameSeq
  <1>7. at(len - 1) = f[len]
    <2>1. len - 1 \in 0 .. len - 1 /\ (len - 1) + 1 = len
      BY <1>3
    <2>2. At(f, len - 1) = Cell(chunks, len - 1)
      BY <1>1, <2>1
    <2>3. At(f, len - 1) = f[len]
      BY <2>1 DEF At
    <2>. QED
      BY <2>2, <2>3 DEF at, Cell
  <1>. QED
    BY <1>3, <1>6, <1>7 DEF f, g, h

-----------------------------------------------------------------------------
(* Every step of the registry is a step of the vector, or none. *)

\* A number below the modulus is its own remainder.
LEMMA SmallRemainder ==
    ASSUME NEW n \in Nat, NEW m \in Nat, n < m
    PROVE  n % m = n
  OBVIOUS

\* What a call returns is what the vector would: the identifier push makes is
\* the length only while the identifier's type is wide enough.
LEMMA PushSimulates ==
    ASSUME RegInv, RegInv', MaxLen <= IdLimit, NEW v \in Values, Push(v)
    PROVE  FlatView!Next
  <1>1. /\ job = NoJob /\ job' = job /\ len < MaxLen /\ PushElement(v)
        /\ ret' = <<"push", IdFrom(len), v>>
    BY DEF Push, Idle
  <1>2. job.source = <<>> /\ job'.source = <<>>
    BY <1>1 DEF NoJob
  <1>3. /\ View = FlatOf(chunks) \o job.source /\ View' = FlatOf(chunks') \o job'.source
        /\ FlatOf(chunks) \in Seq(Values) /\ FlatOf(chunks') \in Seq(Values)
        /\ Len(FlatOf(chunks)) = len /\ len \in Nat
    BY Views
  <1>4. View = FlatOf(chunks) /\ View' = FlatOf(chunks')
    BY <1>2, <1>3, NothingToCome
  <1>5. FlatOf(chunks') = Append(FlatOf(chunks), v)
    BY <1>1, PushAppends
  <1>6. IdFrom(len) = len
    <2>1. IdLimit \in Nat /\ MaxLen \in Nat
      BY RegistryAssumption
    <2>2. len < IdLimit
      BY <1>1, <1>3, <2>1
    <2>. QED
      BY <1>3, <2>1, <2>2, SmallRemainder DEF IdFrom
  <1>7. View' = Append(View, v) /\ ret' = <<"push", Len(View), v>>
    BY <1>1, <1>3, <1>4, <1>5, <1>6
  <1>8. FlatView!Push(v)
    BY <1>7 DEF FlatView!Push, View
  <1>. QED
    BY <1>8 DEF FlatView!Next

\* replace.
LEMMA ReplaceSimulates ==
    ASSUME RegInv, RegInv', NEW id \in Nat, NEW v \in Values, Replace(id, v)
    PROVE  FlatView!Next
  <1>1. job = NoJob /\ job' = job /\ ret' = <<"replace", id, at(id)>>
    BY DEF Replace, Idle
  <1>2. job.source = <<>> /\ job'.source = <<>>
    BY <1>1 DEF NoJob
  <1>3. /\ View = FlatOf(chunks) \o job.source /\ View' = FlatOf(chunks') \o job'.source
        /\ FlatOf(chunks) \in Seq(Values) /\ FlatOf(chunks') \in Seq(Values)
        /\ Len(FlatOf(chunks)) = len /\ len \in Nat
    BY Views
  <1>4. View = FlatOf(chunks) /\ View' = FlatOf(chunks')
    BY <1>2, <1>3, NothingToCome
  <1>5. /\ View' = SetAt(View, id, v) /\ id \in 0 .. Len(View) - 1 /\ at(id) = At(View, id)
    BY <1>3, <1>4, ReplaceSets
  <1>6. FlatView!Replace(id, v) /\ id \in FlatView!Indices(View)
    BY <1>1, <1>5
    DEF FlatView!Replace, FlatView!Indices, FlatView!SetAt, FlatView!At, SetAt, At, View
  <1>. QED
    BY <1>6 DEF FlatView!Next, View

\* One turn of truncate.
LEMMA TruncateSimulates ==
    ASSUME RegInv, RegInv', TruncateStep
    PROVE  FlatView!Next
  <1>1. job.op = "truncate" /\ job' = job /\ ret' = <<"pop", len - 1, at(len - 1)>>
    BY DEF TruncateStep
  <1>2. job.source = <<>> /\ job'.source = <<>>
    BY <1>1 DEF RegInv
  <1>3. /\ View = FlatOf(chunks) \o job.source /\ View' = FlatOf(chunks') \o job'.source
        /\ FlatOf(chunks) \in Seq(Values) /\ FlatOf(chunks') \in Seq(Values)
        /\ Len(FlatOf(chunks)) = len /\ len \in Nat
    BY Views
  <1>4. View = FlatOf(chunks) /\ View' = FlatOf(chunks')
    BY <1>2, <1>3, NothingToCome
  <1>5. /\ Len(View) > 0 /\ at(len - 1) = View[Len(View)] /\ len = Len(View)
        /\ View' = SubSeq(View, 1, Len(View) - 1)
    BY <1>3, <1>4, TruncatePops
  <1>6. View # <<>>
    BY <1>5
  <1>7. FlatView!Pop
    BY <1>1, <1>5, <1>6 DEF FlatView!Pop, View
  <1>. QED
    BY <1>7 DEF FlatView!Next

\* select_mut: the element of id n goes to the one position that asked for it.
LEMMA SelectSimulates ==
    ASSUME RegInv, RegInv', NEW p \in Picks, SelectMut(p)
    PROVE  FlatView!Next
  <1>. DEFINE I == 1 .. Len(p.ids)
  <1>1. /\ job = NoJob /\ job' = job
        /\ \A i \in I : p.ids[i] < len /\ Want(p, p.ids[i]) = {i}
        /\ ret' = <<"select", p.ids, [i \in I |-> At(Flat, p.ids[i])]>>
    BY DEF SelectMut, Idle
  <1>2. job.source = <<>> /\ job'.source = <<>>
    BY <1>1 DEF NoJob
  <1>3. /\ View = FlatOf(chunks) \o job.source /\ View' = FlatOf(chunks') \o job'.source
        /\ FlatOf(chunks) \in Seq(Values) /\ FlatOf(chunks') \in Seq(Values)
        /\ Len(FlatOf(chunks)) = len /\ Len(FlatOf(chunks')) = len'
        /\ len \in Nat
        /\ \A i \in 0 .. len - 1 : At(FlatOf(chunks), i) = Cell(chunks, i)
        /\ \A i \in 0 .. len' - 1 : At(FlatOf(chunks'), i) = Cell(chunks', i)
    BY Views
  <1>4. View = FlatOf(chunks) /\ View' = FlatOf(chunks') /\ View = Flat
    <2>1. Flat = FlatOf(chunks)
      BY DEF Flat, FlatOf
    <2>. QED
      BY <1>2, <1>3, <2>1, NothingToCome
  <1>5. /\ len' = len
        /\ \A i \in 0 .. len - 1 : Cell(chunks', i) = Routed(p, i, Cell(chunks, i))
    BY SelectFacts DEF RegInv
  <1>6. p.ids \in Seq(Nat) /\ \A i \in I : p.ids[i] \in 0 .. len - 1
    <2>1. p.ids \in Seq(Nat)
      BY RegistryAssumption
    <2>2. \A i \in I : p.ids[i] \in Nat
      BY <2>1
    <2>. QED
      BY <1>1, <1>3, <2>1, <2>2
  <1>. DEFINE R == [k \in 1 .. Len(View) |->
                      IF \E i \in I : p.ids[i] = k - 1
                      THEN p.new[CHOOSE i \in I : p.ids[i] = k - 1]
                      ELSE View[k]]
  <1>7. ASSUME NEW k \in 1 .. len
        PROVE  View'[k] = R[k]
    <2>1. k - 1 \in 0 .. len - 1 /\ (k - 1) + 1 = k /\ k \in 1 .. Len(View)
      BY <1>3, <1>4
    <2>2. View'[k] = Cell(chunks', k - 1) /\ View[k] = Cell(chunks, k - 1)
      <3>1. At(View', k - 1) = Cell(chunks', k - 1) /\ At(View, k - 1) = Cell(chunks, k - 1)
        BY <1>3, <1>4, <1>5, <2>1
      <3>. QED
        BY <2>1, <3>1 DEF At
    <2>3. View'[k] = Routed(p, k - 1, View[k])
      BY <1>5, <2>1, <2>2
    <2>4. Want(p, k - 1) = {i \in I : p.ids[i] = k - 1}
      BY DEF Want
    <2>5. CASE Want(p, k - 1) = {}
      <3>1. ~ \E i \in I : p.ids[i] = k - 1
        BY <2>4, <2>5
      <3>2. Routed(p, k - 1, View[k]) = View[k]
        BY <2>5 DEF Routed
      <3>. QED
        BY <2>1, <2>3, <3>1, <3>2
    <2>6. CASE Want(p, k - 1) # {}
      <3>1. PICK i \in I : p.ids[i] = k - 1
        BY <2>4, <2>6
      <3>2. Want(p, k - 1) = {i}
        BY <1>1, <3>1
      <3>3. (CHOOSE j \in Want(p, k - 1) : TRUE) = i
        BY <3>2
      <3>4. (CHOOSE j \in I : p.ids[j] = k - 1) = i
        <4>1. \A j \in I : p.ids[j] = k - 1 => j = i
          BY <2>4, <3>2
        <4>. QED
          BY <3>1, <4>1
      <3>5. Routed(p, k - 1, View[k]) = p.new[i]
        BY <2>6, <3>3 DEF Routed
      <3>6. R[k] = p.new[i]
        BY <2>1, <3>1, <3>4
      <3>. QED
        BY <2>3, <3>5, <3>6
    <2>. QED
      BY <2>5, <2>6
  <1>8. View' = R
    <2>1. View' \in [1 .. len -> Values] /\ Len(View) = len
      BY <1>3, <1>4, <1>5
    <2>2. R = [k \in 1 .. len |-> R[k]]
      BY <2>1
    <2>. HIDE DEF R
    <2>. QED
      BY <1>7, <2>1, <2>2
  <1>9. ret' = <<"select", p.ids, [i \in I |-> At(View, p.ids[i])]>>
    BY <1>1, <1>4
  <1>10. \A i \in I : p.ids[i] \in 0 .. Len(View) - 1
    BY <1>3, <1>4, <1>6
  <1>11. FlatView!Select(p)
    BY <1>8, <1>9, <1>10 DEF FlatView!Select, FlatView!Indices, FlatView!At, At, View
  <1>. QED
    BY <1>11 DEF FlatView!Next

\* deserialize starts from the vector that was read; clone from a copy of the
\* vector there was, which is the same vector.
LEMMA BuildBegins ==
    ASSUME RegInv, RegInv'
    PROVE  /\ \A s \in Loads : DeserializeBegin(s) => FlatView!Next
           /\ CloneBegin => View' = View /\ ret' = ret
  <1>1. /\ View = FlatOf(chunks) \o job.source /\ View' = FlatOf(chunks') \o job'.source
        /\ job'.source \in Seq(Values)
        /\ FlatOf(chunks) \in Seq(Values) /\ FlatOf(chunks') \in Seq(Values)
        /\ Len(FlatOf(chunks')) = len'
    BY Views
  <1>2. len' = 0 => View' = job'.source
    <2>. SUFFICES ASSUME len' = 0
                  PROVE  View' = job'.source
      OBVIOUS
    <2>1. FlatOf(chunks') = <<>>
      BY <1>1
    <2>. QED
      BY <1>1, <2>1, NothingToCome
  <1>3. ASSUME NEW s \in Loads, DeserializeBegin(s)
        PROVE  FlatView!Next
    <2>1. len' = 0 /\ job' = [op |-> "build", target |-> 0, source |-> s]
          /\ ret' = <<"load", <<>>, <<>>>>
      BY <1>3 DEF DeserializeBegin
    <2>2. View' = s
      BY <1>2, <2>1
    <2>3. FlatView!Load(s)
      BY <2>1, <2>2 DEF FlatView!Load, View
    <2>. QED
      BY <2>3 DEF FlatView!Next
  <1>4. ASSUME CloneBegin
        PROVE  View' = View /\ ret' = ret
    <2>1. /\ len' = 0 /\ job = NoJob /\ ret' = ret
          /\ job' = [op |-> "build", target |-> 0, source |-> Flat]
      BY <1>4 DEF CloneBegin
    <2>2. View' = Flat
      BY <1>2, <2>1
    <2>3. View = Flat
      <3>1. job.source = <<>> /\ Flat = FlatOf(chunks)
        BY <2>1 DEF NoJob, Flat, FlatOf
      <3>. QED
        BY <1>1, <3>1, NothingToCome
    <2>. QED
      BY <2>1, <2>2, <2>3
  <1>. QED
    BY <1>3, <1>4

\* The vector does not see a loop begin, collect or end.
LEMMA LoopsUnseen ==
    ASSUME RegInv, RegInv',
           \/ \E n \in 0 .. MaxLen : TruncateBegin(n)
           \/ BuildStep
           \/ JobEnd
           \/ UNCHANGED vars
    PROVE  View' = View /\ ret' = ret
  <1>1. /\ View = FlatOf(chunks) \o job.source /\ View' = FlatOf(chunks') \o job'.source
        /\ job.source \in Seq(Values)
        /\ FlatOf(chunks) \in Seq(Values) /\ FlatOf(chunks') \in Seq(Values)
    BY Views
  <1>2. NoJob.source = <<>>
    BY DEF NoJob
  <1>3. ASSUME NEW n \in 0 .. MaxLen, TruncateBegin(n)
        PROVE  View' = View /\ ret' = ret
    <2>1. /\ chunks' = chunks /\ ret' = ret /\ job = NoJob
          /\ job' = [NoJob EXCEPT !.op = "truncate", !.target = n]
      BY <1>3 DEF TruncateBegin
    <2>2. job'.source = job.source
      BY <2>1 DEF NoJob
    <2>. QED
      BY <1>1, <2>1, <2>2
  <1>4. CASE BuildStep
    <2>1. /\ job.source # <<>> /\ PushElement(Head(job.source)) /\ ret' = ret
          /\ job' = [job EXCEPT !.source = Tail(@)]
      BY <1>4 DEF BuildStep
    <2>2. Head(job.source) \in Values /\ job'.source = Tail(job.source)
      BY <1>1, <2>1 DEF RegInv, Job
    <2>3. FlatOf(chunks') = Append(FlatOf(chunks), Head(job.source))
      BY <2>1, <2>2, PushAppends
    <2>4. Append(FlatOf(chunks), Head(job.source)) \o Tail(job.source) = FlatOf(chunks) \o job.source
      BY <1>1, <2>1, HeadMoves
    <2>. QED
      BY <1>1, <2>1, <2>2, <2>3, <2>4
  <1>5. CASE JobEnd
    <2>1. chunks' = chunks /\ ret' = ret /\ job' = NoJob
      BY <1>5 DEF JobEnd
    <2>2. job.source = <<>>
      BY <1>5 DEF JobEnd, RegInv
    <2>. QED
      BY <1>1, <1>2, <2>1, <2>2
  <1>6. CASE UNCHANGED vars
    BY <1>1, <1>6 DEF vars
  <1>. QED
    BY <1>3, <1>4, <1>5, <1>6

\* Where a step leads, seen as the vector.
LEMMA RegistrySimulates ==
    ASSUME MaxLen <= IdLimit
    PROVE  RegInv /\ RegInv' /\ [Next]_vars => [FlatView!Next]_<<View, ret>>
  <1>. SUFFICES ASSUME RegInv, RegInv', [Next]_vars
                PROVE  FlatView!Next \/ (View' = View /\ ret' = ret)
    OBVIOUS
  <1>1. \A v \in Values : Push(v) => FlatView!Next
    BY PushSimulates
  <1>2. \A id \in 0 .. IdLimit - 1 : \A v \in Values : Replace(id, v) => FlatView!Next
    <2>1. \A id \in 0 .. IdLimit - 1 : id \in Nat
      BY RegistryAssumption
    <2>. QED
      BY <2>1, ReplaceSimulates
  <1>3. \A p \in Picks : SelectMut(p) => FlatView!Next
    BY SelectSimulates
  <1>4. TruncateStep => FlatView!Next
    BY TruncateSimulates
  <1>. QED
    BY <1>1, <1>2, <1>3, <1>4, BuildBegins, LoopsUnseen DEF Next

\* The empty registry is the empty vector.
LEMMA RegistryStarts == Init => FlatView!Init
  <1>. SUFFICES ASSUME Init
                PROVE  FlatView!Init
    OBVIOUS
  <1>1. /\ chunks = <<>> /\ len = 0 /\ job.source = <<>> /\ ret = <<"load", <<>>, <<>>>>
    BY DEF Init, NoJob
  <1>2. Flat \in Seq(Values) /\ Len(Flat) = 0
    BY <1>1, InitRegistry, FlatIs DEF RegInv
  <1>3. Flat \o job.source = <<>>
    BY <1>1, <1>2
  <1>. QED
    BY <1>1, <1>3 DEF FlatView!Init

\* The chunks cannot be seen: every call does and returns what it would on one
\* flat vector, as long as the identifiers can count the elements.  (Beyond that
\* push returns an identifier that is already taken, which the vector does not.)
THEOREM FlatVecImplemented ==
    ASSUME MaxLen <= IdLimit
    PROVE  Spec => ImplementsFlatVec
  <1>1. RegInv /\ RegInv' /\ [Next]_vars => [FlatView!Next]_<<Flat \o job.source, ret>>
    BY RegistrySimulates DEF View
  <1>. QED
    BY <1>1, RegistryStarts, RegistryKept, PTL DEF Spec, ImplementsFlatVec, FlatView!Spec

=============================================================================
