------------------------ MODULE RecyclingArenaProofs ------------------------
(***************************************************************************)
(* The free list of RecyclingArena, for any number of slots and any        *)
(* identifier width, and the simulation of Slab it gives.  FreeListExact   *)
(* is inductive by itself; that live counts the live payloads follows with *)
(* it.                                                                     *)
(***************************************************************************)
EXTENDS RecyclingArena, VecsProofs, FiniteSetTheorems

IInv == TypeOK /\ FreeListExact /\ LiveCounted

-----------------------------------------------------------------------------
(* The free list of a vector of slots. *)

VacantIn(ss) == {id \in Indices(ss) : ~At(ss, id).live}

\* IsFreeList with the slots and the head of the list as parameters.
Threads(p, n, ss, head) ==
    /\ p \in [1 .. n -> VacantIn(ss)]
    /\ \A id \in VacantIn(ss) : \E i \in 1 .. n : p[i] = id
    /\ \A i, j \in 1 .. n : p[i] = p[j] => i = j
    /\ head = IF n = 0 THEN None ELSE p[1]
    /\ \A i \in 1 .. n : At(ss, p[i]).next = IF i = n THEN None ELSE p[i + 1]

\* The free list as a relation between a path, the slots and the head, in both
\* states.
LEMMA ThreadsIs ==
    /\ Vacant = VacantIn(slots) /\ Vacant' = VacantIn(slots')
    /\ \A p, n : IsFreeList(p, n) <=> Threads(p, n, slots, free)
    /\ \A p, n : IsFreeList(p, n)' <=> Threads(p, n, slots', free')
  BY DEF Vacant, VacantIn, IsFreeList, Threads

\* A free list is as long as there are vacant slots.
LEMMA ThreadsLength ==
    ASSUME NEW ss \in Seq(Slot), NEW head, NEW n \in Nat, NEW p, Threads(p, n, ss, head)
    PROVE  /\ IsFiniteSet(VacantIn(ss)) /\ Cardinality(VacantIn(ss)) = n
           /\ n <= Len(ss)
  <1>. DEFINE V == VacantIn(ss)
  <1>1. p \in Bijection(1 .. n, V)
    BY DEF Threads, Bijection, Injection, Surjection, IsInjective
  <1>2. ExistsBijection(1 .. n, V)
    BY <1>1 DEF ExistsBijection
  <1>3. IsFiniteSet(V) /\ Cardinality(V) = n
    BY <1>2, FS_NatBijection, FS_CountingElements
  <1>4. IsFiniteSet(0 .. Len(ss) - 1) /\ Cardinality(0 .. Len(ss) - 1) = Len(ss)
    <2>1. Len(ss) \in Nat /\ Len(ss) - 1 \in Int /\ 0 \in Int
      OBVIOUS
    <2>2. /\ IsFiniteSet(0 .. Len(ss) - 1)
          /\ Cardinality(0 .. Len(ss) - 1) = IF 0 > Len(ss) - 1 THEN 0 ELSE (Len(ss) - 1) - 0 + 1
      BY <2>1, FS_Interval
    <2>. QED
      BY <2>1, <2>2
  <1>5. V \subseteq 0 .. Len(ss) - 1
    BY DEF VacantIn, Indices
  <1>. HIDE DEF V
  <1>6. Cardinality(V) <= Cardinality(0 .. Len(ss) - 1)
    BY <1>4, <1>5, FS_Subset
  <1>. QED
    BY <1>3, <1>4, <1>6 DEF V

\* A vector of slots has at most one free list with a given head.
LEMMA ThreadsUnique ==
    ASSUME NEW ss \in Seq(Slot), NEW head, NEW n \in Nat,
           NEW p, Threads(p, n, ss, head), NEW q, Threads(q, n, ss, head)
    PROVE  p = q
  <1>. DEFINE Same == {i \in 1 .. n : p[i] = q[i]}
  <1>1. n > 0 => 1 \in Same
    BY DEF Threads
  <1>2. ASSUME NEW i \in 1 .. n - 1, i \in Same
        PROVE  i + 1 \in Same
    <2>1. i \in 1 .. n /\ i + 1 \in 1 .. n /\ i # n /\ p[i] = q[i]
      BY <1>2
    <2>2. At(ss, p[i]).next = p[i + 1] /\ At(ss, q[i]).next = q[i + 1]
      BY <2>1 DEF Threads
    <2>. QED
      BY <2>1, <2>2
  <1>. HIDE DEF Same
  <1>3. 1 .. n \subseteq Same
    BY <1>1, <1>2, StepsCover
  <1>4. \A i \in 1 .. n : p[i] = q[i]
    BY <1>3 DEF Same
  <1>5. p \in [1 .. n -> VacantIn(ss)] /\ q \in [1 .. n -> VacantIn(ss)]
    BY DEF Threads
  <1>. QED
    BY <1>4, <1>5

\* FreeOrder is the free list there is.
LEMMA FreeOrderIs ==
    ASSUME slots \in Seq(Slot), NEW n \in Nat, NEW p, Threads(p, n, slots, free)
    PROVE  FreeOrder = p
  <1>1. Cardinality(Vacant) = n /\ Vacant = VacantIn(slots)
    <2>1. Cardinality(VacantIn(slots)) = n
      BY ThreadsLength
    <2>. QED
      BY <2>1, ThreadsIs
  <1>2. p \in [1 .. n -> Vacant] /\ IsFreeList(p, n)
    <2>1. IsFreeList(p, n)
      BY ThreadsIs
    <2>2. p \in [1 .. n -> VacantIn(slots)]
      BY DEF Threads
    <2>. QED
      BY <1>1, <2>1, <2>2
  <1>3. \A q : IsFreeList(q, n) => q = p
    BY ThreadsIs, ThreadsUnique
  <1>. QED
    BY <1>1, <1>2, <1>3 DEF FreeOrder

-----------------------------------------------------------------------------
(* What the operations do to the free list. *)

\* Vacating a slot puts it in front of the list.
LEMMA VacateThreads ==
    ASSUME NEW ss \in Seq(Slot), NEW head, NEW n \in Nat, NEW p, Threads(p, n, ss, head),
           NEW id \in Indices(ss), At(ss, id).live
    PROVE  /\ Threads([i \in 1 .. n + 1 |-> IF i = 1 THEN id ELSE p[i - 1]], n + 1,
                      SetAt(ss, id, FreeSlot(head)), id)
           /\ VacantIn(SetAt(ss, id, FreeSlot(head))) = VacantIn(ss) \cup {id}
           /\ id \notin VacantIn(ss)
  <1>. DEFINE tt == SetAt(ss, id, FreeSlot(head))
              q == [i \in 1 .. n + 1 |-> IF i = 1 THEN id ELSE p[i - 1]]
              V == VacantIn(ss)
              W == VacantIn(tt)
  <1>1. ~FreeSlot(head).live /\ FreeSlot(head).next = head
    BY DEF FreeSlot
  <1>2. /\ Len(tt) = Len(ss) /\ At(tt, id) = FreeSlot(head)
        /\ \A j \in Indices(ss) : j # id => At(tt, j) = At(ss, j)
    BY DEF SetAt, At, Indices
  <1>3. W = V \cup {id} /\ id \notin V
    <2>. HIDE DEF tt
    <2>1. Indices(tt) = Indices(ss)
      BY <1>2 DEF Indices
    <2>2. \A x \in Indices(ss) : ~At(tt, x).live <=> ~At(ss, x).live \/ x = id
      BY <1>1, <1>2
    <2>. QED
      BY <2>1, <2>2 DEF VacantIn
  <1>4. /\ p \in [1 .. n -> V]
        /\ \A x \in V : \E i \in 1 .. n : p[i] = x
        /\ \A i, j \in 1 .. n : p[i] = p[j] => i = j
        /\ head = IF n = 0 THEN None ELSE p[1]
        /\ \A i \in 1 .. n : At(ss, p[i]).next = IF i = n THEN None ELSE p[i + 1]
    BY DEF Threads
  <1>5. V \subseteq Indices(ss)
    BY DEF VacantIn
  <1>. HIDE DEF tt, V, W
  <1>6. /\ q[1] = id
        /\ \A i \in 1 .. n : i + 1 \in 2 .. n + 1 /\ q[i + 1] = p[i]
        /\ \A i \in 2 .. n + 1 : i - 1 \in 1 .. n /\ (i - 1) + 1 = i /\ q[i] = p[i - 1]
        /\ 1 .. n + 1 = {1} \cup 2 .. n + 1
    OBVIOUS
  <1>7. q \in [1 .. n + 1 -> W]
    BY <1>3, <1>4
  <1>. HIDE DEF q
  <1>8. \A x \in W : \E i \in 1 .. n + 1 : q[i] = x
    <2>1. \A x \in V : \E i \in 1 .. n + 1 : q[i] = x
      <3>. SUFFICES ASSUME NEW x \in V
                    PROVE  \E i \in 1 .. n + 1 : q[i] = x
        OBVIOUS
      <3>1. PICK i \in 1 .. n : p[i] = x
        BY <1>4
      <3>2. i + 1 \in 1 .. n + 1 /\ q[i + 1] = x
        BY <1>6, <3>1
      <3>. QED
        BY <3>2
    <2>2. 1 \in 1 .. n + 1 /\ q[1] = id
      BY <1>6
    <2>. QED
      BY <1>3, <2>1, <2>2
  <1>9. \A i, j \in 1 .. n + 1 : q[i] = q[j] => i = j
    <2>. SUFFICES ASSUME NEW i \in 1 .. n + 1, NEW j \in 1 .. n + 1, q[i] = q[j]
                  PROVE  i = j
      OBVIOUS
    <2>1. \A k \in 2 .. n + 1 : q[k] # id
      BY <1>3, <1>4, <1>6
    <2>2. CASE i = 1 \/ j = 1
      BY <1>6, <2>1, <2>2
    <2>3. CASE i \in 2 .. n + 1 /\ j \in 2 .. n + 1
      BY <1>4, <1>6, <2>3
    <2>. QED
      BY <2>2, <2>3
  <1>10. \A i \in 1 .. n + 1 : At(tt, q[i]).next = IF i = n + 1 THEN None ELSE q[i + 1]
    <2>1. At(tt, q[1]).next = IF 1 = n + 1 THEN None ELSE q[1 + 1]
      BY <1>1, <1>2, <1>4, <1>6
    <2>2. ASSUME NEW i \in 2 .. n + 1
          PROVE  At(tt, q[i]).next = IF i = n + 1 THEN None ELSE q[i + 1]
      <3>1. i - 1 \in 1 .. n /\ q[i] = p[i - 1] /\ p[i - 1] \in V
        BY <1>4, <1>6
      <3>2. At(tt, q[i]) = At(ss, p[i - 1])
        BY <1>2, <1>3, <1>5, <3>1
      <3>3. At(ss, p[i - 1]).next = IF i - 1 = n THEN None ELSE p[(i - 1) + 1]
        BY <1>4, <3>1
      <3>4. i # n + 1 => i \in 1 .. n /\ q[i + 1] = p[i] /\ p[(i - 1) + 1] = p[i]
        BY <1>6
      <3>. QED
        BY <3>2, <3>3, <3>4
    <2>. QED
      BY <1>6, <2>1, <2>2
  <1>11. Threads(q, n + 1, tt, id)
    BY <1>6, <1>7, <1>8, <1>9, <1>10 DEF Threads, W
  <1>. QED
    BY <1>3, <1>11 DEF tt, q, V, W

\* Reusing the head takes it off the list.
LEMMA ReuseThreads ==
    ASSUME NEW ss \in Seq(Slot), NEW head, NEW n \in Nat, NEW p, Threads(p, n, ss, head),
           head # None, NEW v
    PROVE  /\ n > 0 /\ head = p[1] /\ head \in VacantIn(ss)
           /\ Threads([i \in 1 .. n - 1 |-> p[i + 1]], n - 1,
                      SetAt(ss, head, LiveSlot(v)), At(ss, head).next)
           /\ VacantIn(SetAt(ss, head, LiveSlot(v))) = VacantIn(ss) \ {head}
  <1>. DEFINE tt == SetAt(ss, head, LiveSlot(v))
              q == [i \in 1 .. n - 1 |-> p[i + 1]]
              V == VacantIn(ss)
              W == VacantIn(tt)
  <1>1. /\ p \in [1 .. n -> V]
        /\ \A x \in V : \E i \in 1 .. n : p[i] = x
        /\ \A i, j \in 1 .. n : p[i] = p[j] => i = j
        /\ \A i \in 1 .. n : At(ss, p[i]).next = IF i = n THEN None ELSE p[i + 1]
    BY DEF Threads
  <1>2. n > 0 /\ head = p[1]
    BY DEF Threads
  <1>3. head \in V /\ V \subseteq Indices(ss)
    BY <1>1, <1>2 DEF VacantIn
  <1>4. LiveSlot(v).live
    BY DEF LiveSlot
  <1>5. /\ Len(tt) = Len(ss) /\ At(tt, head) = LiveSlot(v)
        /\ \A j \in Indices(ss) : j # head => At(tt, j) = At(ss, j)
    BY <1>3 DEF SetAt, At, Indices
  <1>. HIDE DEF tt
  <1>6. W = V \ {head}
    <2>1. Indices(tt) = Indices(ss)
      BY <1>5 DEF Indices
    <2>2. \A x \in Indices(ss) : ~At(tt, x).live <=> ~At(ss, x).live /\ x # head
      BY <1>3, <1>4, <1>5 DEF VacantIn
    <2>. QED
      BY <2>1, <2>2 DEF VacantIn
  <1>. HIDE DEF V, W
  <1>7. /\ \A i \in 1 .. n - 1 : i \in 1 .. n /\ i + 1 \in 2 .. n /\ i + 1 \in 1 .. n /\ q[i] = p[i + 1]
        /\ \A i \in 2 .. n : i - 1 \in 1 .. n - 1 /\ (i - 1) + 1 = i /\ q[i - 1] = p[i]
    BY <1>2
  <1>8. \A i \in 2 .. n : p[i] # head
    BY <1>1, <1>2
  <1>9. q \in [1 .. n - 1 -> W]
    BY <1>1, <1>6, <1>7, <1>8
  <1>. HIDE DEF q
  <1>10. \A x \in W : \E i \in 1 .. n - 1 : q[i] = x
    <2>. SUFFICES ASSUME NEW x \in W
                  PROVE  \E i \in 1 .. n - 1 : q[i] = x
      OBVIOUS
    <2>1. PICK i \in 1 .. n : p[i] = x
      BY <1>1, <1>6
    <2>2. i \in 2 .. n
      BY <1>2, <1>6, <2>1
    <2>. QED
      BY <1>7, <2>1, <2>2
  <1>11. \A i, j \in 1 .. n - 1 : q[i] = q[j] => i = j
    <2>. SUFFICES ASSUME NEW i \in 1 .. n - 1, NEW j \in 1 .. n - 1, q[i] = q[j]
                  PROVE  i = j
      OBVIOUS
    <2>1. i + 1 \in 1 .. n /\ j + 1 \in 1 .. n /\ p[i + 1] = p[j + 1]
      BY <1>7
    <2>2. i + 1 = j + 1
      BY <1>1, <2>1
    <2>. QED
      BY <2>2
  <1>12. At(ss, head).next = IF n - 1 = 0 THEN None ELSE q[1]
    <2>1. At(ss, p[1]).next = IF 1 = n THEN None ELSE p[1 + 1]
      BY <1>1, <1>2
    <2>2. n # 1 => q[1] = p[1 + 1]
      BY <1>2, <1>7
    <2>. QED
      BY <1>2, <2>1, <2>2
  <1>13. \A i \in 1 .. n - 1 : At(tt, q[i]).next = IF i = n - 1 THEN None ELSE q[i + 1]
    <2>. SUFFICES ASSUME NEW i \in 1 .. n - 1
                  PROVE  At(tt, q[i]).next = IF i = n - 1 THEN None ELSE q[i + 1]
      OBVIOUS
    <2>1. q[i] = p[i + 1] /\ i + 1 \in 1 .. n /\ p[i + 1] \in V /\ p[i + 1] # head
      BY <1>1, <1>7, <1>8
    <2>2. At(tt, q[i]) = At(ss, p[i + 1])
      BY <1>3, <1>5, <2>1
    <2>3. At(ss, p[i + 1]).next = IF i + 1 = n THEN None ELSE p[(i + 1) + 1]
      BY <1>1, <2>1
    <2>4. i # n - 1 => i + 1 \in 1 .. n - 1
      BY <1>2
    <2>5. i # n - 1 => q[i + 1] = p[(i + 1) + 1]
      BY <1>7, <2>4
    <2>6. i = n - 1 <=> i + 1 = n
      BY <1>2
    <2>. QED
      BY <2>2, <2>3, <2>5, <2>6
  <1>14. Threads(q, n - 1, tt, At(ss, head).next)
    BY <1>9, <1>10, <1>11, <1>12, <1>13 DEF Threads, W
  <1>. QED
    BY <1>2, <1>3, <1>6, <1>14 DEF tt, q, V, W

\* A change that leaves the vacant slots and their links alone keeps the list.
LEMMA SameThreads ==
    ASSUME NEW ss, NEW tt, NEW head, NEW n, NEW p, Threads(p, n, ss, head),
           VacantIn(tt) = VacantIn(ss),
           \A id \in VacantIn(ss) : At(tt, id) = At(ss, id)
    PROVE  Threads(p, n, tt, head)
  BY DEF Threads

\* Writing a live payload leaves the free list alone.
LEMMA WriteThreads ==
    ASSUME NEW ss \in Seq(Slot), NEW head, NEW n \in Nat, NEW p, Threads(p, n, ss, head),
           NEW id \in Indices(ss), At(ss, id).live, NEW v
    PROVE  /\ Threads(p, n, SetAt(ss, id, LiveSlot(v)), head)
           /\ VacantIn(SetAt(ss, id, LiveSlot(v))) = VacantIn(ss)
  <1>. DEFINE tt == SetAt(ss, id, LiveSlot(v))
  <1>1. LiveSlot(v).live
    BY DEF LiveSlot
  <1>2. /\ Len(tt) = Len(ss) /\ At(tt, id) = LiveSlot(v)
        /\ \A j \in Indices(ss) : j # id => At(tt, j) = At(ss, j)
    BY DEF SetAt, At, Indices
  <1>. HIDE DEF tt
  <1>3. VacantIn(tt) = VacantIn(ss)
    <2>1. Indices(tt) = Indices(ss)
      BY <1>2 DEF Indices
    <2>2. \A x \in Indices(ss) : ~At(tt, x).live <=> ~At(ss, x).live
      BY <1>1, <1>2
    <2>. QED
      BY <2>1, <2>2 DEF VacantIn
  <1>4. \A x \in VacantIn(ss) : At(tt, x) = At(ss, x)
    BY <1>2 DEF VacantIn
  <1>. QED
    BY <1>3, <1>4, SameThreads DEF tt

\* A slot appended live is not on the free list.
LEMMA AppendThreads ==
    ASSUME NEW ss \in Seq(Slot), NEW head, NEW n \in Nat, NEW p, Threads(p, n, ss, head), NEW v
    PROVE  /\ Threads(p, n, Append(ss, LiveSlot(v)), head)
           /\ VacantIn(Append(ss, LiveSlot(v))) = VacantIn(ss)
  <1>. DEFINE tt == Append(ss, LiveSlot(v))
              k == Len(ss)
  <1>1. LiveSlot(v).live
    BY DEF LiveSlot
  <1>2. /\ k \in Nat /\ Len(tt) = k + 1 /\ At(tt, k) = LiveSlot(v)
        /\ \A j \in 0 .. k - 1 : At(tt, j) = At(ss, j)
    BY DEF At
  <1>3. Indices(tt) = 0 .. k /\ Indices(ss) = 0 .. k - 1
    BY <1>2 DEF Indices
  <1>. HIDE DEF tt, k
  <1>4. VacantIn(tt) = VacantIn(ss)
    <2>1. \A x \in 0 .. k - 1 : ~At(tt, x).live <=> ~At(ss, x).live
      BY <1>2
    <2>2. At(tt, k).live
      BY <1>1, <1>2
    <2>3. 0 .. k = (0 .. k - 1) \cup {k}
      BY <1>2
    <2>. QED
      BY <1>3, <2>1, <2>2, <2>3 DEF VacantIn
  <1>5. \A x \in VacantIn(ss) : At(tt, x) = At(ss, x)
    BY <1>2, <1>3 DEF VacantIn
  <1>. QED
    BY <1>4, <1>5, SameThreads DEF tt

-----------------------------------------------------------------------------
(* The inductive invariant. *)

\* What the invariant says of the current state, with the list at hand.
LEMMA InvGives ==
    ASSUME IInv
    PROVE  /\ slots \in Seq(Slot) /\ free \in Ids \cup {None}
           /\ \E n \in Nat : \E p : Threads(p, n, slots, free) /\ live = Len(slots) - n
  <1>1. slots \in Seq(Slot) /\ free \in Ids \cup {None}
    BY DEF IInv, TypeOK
  <1>. PICK n \in 0 .. Len(slots) : \E p : IsFreeList(p, n)
    BY DEF IInv, FreeListExact
  <1>2. PICK p : IsFreeList(p, n)
    OBVIOUS
  <1>3. n \in Nat /\ Threads(p, n, slots, free)
    BY <1>1, <1>2, ThreadsIs
  <1>4. Cardinality(VacantIn(slots)) = n
    BY <1>1, <1>3, ThreadsLength
  <1>5. live = Len(slots) - n
    BY <1>4, ThreadsIs DEF IInv, LiveCounted
  <1>. QED
    BY <1>1, <1>3, <1>5

\* A next state with a free list of the right length satisfies the invariant.
LEMMA InvFrom ==
    ASSUME slots' \in Seq(Slot), free' \in Ids \cup {None},
           NEW n \in Nat, NEW p, Threads(p, n, slots', free'), live' = Len(slots') - n
    PROVE  IInv'
  <1>1. Cardinality(VacantIn(slots')) = n /\ n <= Len(slots') /\ Len(slots') \in Nat
    BY ThreadsLength
  <1>2. TypeOK'
    BY <1>1 DEF TypeOK
  <1>3. LiveCounted'
    <2>1. Vacant' = VacantIn(slots')
      BY ThreadsIs
    <2>. QED
      BY <1>1, <2>1 DEF LiveCounted
  <1>4. FreeListExact'
    <2>1. IsFreeList(p, n)' /\ n \in 0 .. Len(slots') /\ p \in [1 .. n -> Vacant']
      BY <1>1, ThreadsIs DEF Threads
    <2>. QED
      BY <2>1 DEF FreeListExact
  <1>. QED
    BY <1>2, <1>3, <1>4 DEF IInv

\* The empty arena has the empty free list.
LEMMA InitEstablishes == Init => IInv
  <1>. SUFFICES ASSUME Init
                PROVE  IInv
    OBVIOUS
  <1>1. slots = <<>> /\ free = None /\ live = 0 /\ slots \in Seq(Slot) /\ Len(slots) = 0
    BY DEF Init
  <1>2. VacantIn(slots) = {} /\ Vacant = {}
    BY <1>1, ThreadsIs DEF VacantIn, Indices
  <1>3. <<>> \in [1 .. 0 -> {}]
    OBVIOUS
  <1>4. IsFreeList(<<>>, 0)
    BY <1>1, <1>2, <1>3 DEF IsFreeList
  <1>5. FreeListExact
    <2>1. 0 \in 0 .. Len(slots) /\ <<>> \in [1 .. 0 -> Vacant]
      BY <1>1, <1>2, <1>3
    <2>2. \E p \in [1 .. 0 -> Vacant] : IsFreeList(p, 0)
      BY <1>4, <2>1, Zenon
    <2>. QED
      BY <2>1, <2>2, Zenon DEF FreeListExact
  <1>6. LiveCounted
    BY <1>1, <1>2, FS_EmptySet DEF LiveCounted
  <1>. QED
    BY <1>1, <1>5, <1>6 DEF IInv, TypeOK

\* Every call keeps the invariant.
LEMMA NextPreserves == IInv /\ [Next]_vars => IInv'
  <1>. SUFFICES ASSUME IInv, [Next]_vars
                PROVE  IInv'
    OBVIOUS
  <1>1. slots \in Seq(Slot) /\ free \in Ids \cup {None} /\ Ids \subseteq Nat
    BY InvGives DEF Ids
  <1>. PICK n \in Nat : \E p : Threads(p, n, slots, free) /\ live = Len(slots) - n
    BY InvGives
  <1>2. PICK p : Threads(p, n, slots, free) /\ live = Len(slots) - n
    OBVIOUS
  <1>3. \A v \in Values : LiveSlot(v) \in Slot
    BY DEF LiveSlot, Slot
  <1>4. ASSUME NEW v \in Values, PushReuse(v)
        PROVE  IInv'
    <2>1. /\ free # None /\ free \in Indices(slots) /\ free' = At(slots, free).next
          /\ slots' = SetAt(slots, free, LiveSlot(v)) /\ live' = live + 1
      BY <1>4 DEF PushReuse
    <2>. DEFINE q == [i \in 1 .. n - 1 |-> p[i + 1]]
    <2>2. n > 0 /\ free \in VacantIn(slots) /\ Threads(q, n - 1, slots', free')
      BY <1>1, <1>2, <2>1, ReuseThreads
    <2>. HIDE DEF q
    <2>3. slots' \in Seq(Slot) /\ Len(slots') = Len(slots)
      BY <1>1, <1>3, <2>1 DEF SetAt, Indices
    <2>4. free' \in Ids \cup {None}
      <3>1. At(slots, free) \in Slot /\ ~At(slots, free).live
        BY <1>1, <2>1, <2>2 DEF At, Indices, VacantIn
      <3>. QED
        BY <2>1, <3>1 DEF Slot
    <2>5. n - 1 \in Nat /\ live' = Len(slots') - (n - 1)
      BY <1>1, <1>2, <2>1, <2>2, <2>3
    <2>. QED
      BY <2>2, <2>3, <2>4, <2>5, InvFrom
  <1>5. ASSUME NEW v \in Values, PushAppend(v)
        PROVE  IInv'
    <2>1. slots' = Append(slots, LiveSlot(v)) /\ live' = live + 1 /\ free' = free
      BY <1>5 DEF PushAppend
    <2>2. Threads(p, n, slots', free')
      BY <1>1, <1>2, <2>1, AppendThreads
    <2>3. slots' \in Seq(Slot) /\ Len(slots') = Len(slots) + 1
      BY <1>1, <1>3, <2>1
    <2>4. live' = Len(slots') - n
      BY <1>1, <1>2, <2>1, <2>3
    <2>. QED
      BY <1>1, <2>1, <2>2, <2>3, <2>4, InvFrom
  <1>6. ASSUME NEW id \in Ids, Remove(id)
        PROVE  IInv'
    <2>1. /\ id \in Indices(slots) /\ At(slots, id).live
          /\ slots' = SetAt(slots, id, FreeSlot(free)) /\ free' = id /\ live' = live - 1
      BY <1>6 DEF Remove, contains
    <2>. DEFINE q == [i \in 1 .. n + 1 |-> IF i = 1 THEN id ELSE p[i - 1]]
    <2>2. Threads(q, n + 1, slots', free')
      BY <1>1, <1>2, <2>1, VacateThreads
    <2>. HIDE DEF q
    <2>3. FreeSlot(free) \in Slot
      BY <1>1 DEF FreeSlot, Slot
    <2>4. slots' \in Seq(Slot) /\ Len(slots') = Len(slots)
      BY <1>1, <2>1, <2>3 DEF SetAt, Indices
    <2>5. live' = Len(slots') - (n + 1)
      BY <1>1, <1>2, <2>1, <2>4
    <2>. QED
      BY <2>1, <2>2, <2>4, <2>5, InvFrom
  <1>7. ASSUME NEW id \in Ids, NEW v \in Values, Write(id, v)
        PROVE  IInv'
    <2>1. /\ id \in Indices(slots) /\ At(slots, id).live
          /\ slots' = SetAt(slots, id, LiveSlot(v)) /\ free' = free /\ live' = live
      BY <1>7 DEF Write, contains
    <2>2. Threads(p, n, slots', free')
      BY <1>1, <1>2, <2>1, WriteThreads
    <2>3. slots' \in Seq(Slot) /\ Len(slots') = Len(slots)
      BY <1>1, <1>3, <2>1 DEF SetAt, Indices
    <2>. QED
      BY <1>1, <1>2, <2>1, <2>2, <2>3, InvFrom
  <1>8. CASE Clear
    <2>1. slots' = <<>> /\ free' = None /\ live' = 0 /\ slots' \in Seq(Slot) /\ Len(slots') = 0
      BY <1>8 DEF Clear
    <2>2. Threads(<<>>, 0, slots', free')
      BY <2>1 DEF Threads, VacantIn, Indices
    <2>. QED
      BY <2>1, <2>2, InvFrom
  <1>9. CASE UNCHANGED vars
    <2>1. slots' = slots /\ free' = free /\ live' = live
      BY <1>9 DEF vars
    <2>. QED
      BY <1>1, <1>2, <2>1, InvFrom
  <1>. QED
    BY <1>4, <1>5, <1>6, <1>7, <1>8, <1>9 DEF Next

\* The free list of every reachable arena has no cycle, no live slot on it and
\* no vacant slot off it: push can never reach its unreachable!() nor lose a
\* slot.
THEOREM FreeListExactAlways == Spec => []FreeListExact
  <1>1. IInv => FreeListExact
    BY DEF IInv
  <1>. QED
    BY <1>1, InitEstablishes, NextPreserves, PTL DEF Spec

\* What len() and is_empty() answer from counts the live payloads.
THEOREM LiveCountedAlways == Spec => []LiveCounted
  <1>1. IInv => LiveCounted
    BY DEF IInv
  <1>. QED
    BY <1>1, InitEstablishes, NextPreserves, PTL DEF Spec

\* The slots, the head and the counter of every reachable arena have their
\* types: the counter never wraps below zero.
THEOREM TypeAlways == Spec => []TypeOK
  <1>1. IInv => TypeOK
    BY DEF IInv
  <1>. QED
    BY <1>1, InitEstablishes, NextPreserves, PTL DEF Spec

-----------------------------------------------------------------------------
(* The simulation of Slab. *)

Model(ss) == [k \in 1 .. Len(ss) |-> ss[k].value]

\* The slots seen as a vector of optional payloads.
LEMMA ModelFacts ==
    ASSUME NEW ss \in Seq(Slot)
    PROVE  /\ Model(ss) \in Seq(Values \cup {None}) /\ Len(Model(ss)) = Len(ss)
           /\ Indices(Model(ss)) = Indices(ss)
           /\ \A id \in Indices(ss) : /\ At(Model(ss), id) = At(ss, id).value
                                      /\ At(ss, id).live <=> At(Model(ss), id) # None
  <1>1. \A k \in 1 .. Len(ss) : ss[k] \in Slot
    OBVIOUS
  <1>2. \A x \in Slot : x.value \in Values \cup {None} /\ (x.live <=> x.value # None)
    BY RecyclingAssumption DEF Slot
  <1>3. Model(ss) \in [1 .. Len(ss) -> Values \cup {None}]
    BY <1>1, <1>2 DEF Model
  <1>4. Model(ss) \in Seq(Values \cup {None}) /\ Len(Model(ss)) = Len(ss)
    BY <1>3, FunctionIsSeq
  <1>5. \A id \in Indices(ss) : id + 1 \in 1 .. Len(ss) /\ At(Model(ss), id) = At(ss, id).value
    BY DEF Model, At, Indices
  <1>6. \A id \in Indices(ss) : At(ss, id) \in Slot
    BY <1>1, <1>5 DEF At
  <1>. QED
    BY <1>2, <1>4, <1>5, <1>6 DEF Indices

\* Storing into a slot stores into that vector.
LEMMA ModelSetAt ==
    ASSUME NEW ss \in Seq(Slot), NEW id \in Indices(ss), NEW x \in Slot
    PROVE  Model(SetAt(ss, id, x)) = SetAt(Model(ss), id, x.value)
  <1>. DEFINE n == Len(ss)
              tt == SetAt(ss, id, x)
  <1>1. /\ tt \in Seq(Slot) /\ Len(tt) = n /\ id + 1 \in 1 .. n /\ n \in Nat
        /\ \A k \in 1 .. n : tt[k] = IF k = id + 1 THEN x ELSE ss[k]
    BY DEF SetAt, Indices
  <1>2. Model(tt) = [k \in 1 .. n |-> IF k = id + 1 THEN x.value ELSE ss[k].value]
    <2>. HIDE DEF tt, n
    <2>. QED
      BY <1>1 DEF Model
  <1>3. SetAt(Model(ss), id, x.value) = [k \in 1 .. n |-> IF k = id + 1 THEN x.value ELSE ss[k].value]
    <2>1. Model(ss) = [k \in 1 .. n |-> ss[k].value]
      BY DEF Model
    <2>. HIDE DEF n
    <2>. QED
      BY <2>1, <1>1 DEF SetAt
  <1>. QED
    BY <1>2, <1>3

\* Appending a slot appends to that vector.
LEMMA ModelAppend ==
    ASSUME NEW ss \in Seq(Slot), NEW x \in Slot
    PROVE  Model(Append(ss, x)) = Append(Model(ss), x.value)
  <1>. DEFINE n == Len(ss)
              tt == Append(ss, x)
              S == Values \cup {None}
  <1>1. Model(ss) \in Seq(S) /\ Len(Model(ss)) = n /\ n \in Nat
    BY ModelFacts
  <1>2. x.value \in S
    BY DEF Slot
  <1>3. /\ tt \in Seq(Slot) /\ Len(tt) = n + 1
        /\ \A k \in 1 .. n + 1 : tt[k] = IF k = n + 1 THEN x ELSE ss[k]
    OBVIOUS
  <1>4. Model(ss) = [k \in 1 .. n |-> ss[k].value]
    BY DEF Model
  <1>. HIDE DEF n, tt, S
  <1>5. Model(tt) = [k \in 1 .. n + 1 |-> IF k = n + 1 THEN x.value ELSE ss[k].value]
    BY <1>3 DEF Model
  <1>6. /\ Append(Model(ss), x.value) \in Seq(S) /\ Len(Append(Model(ss), x.value)) = n + 1
        /\ \A k \in 1 .. n + 1 :
             Append(Model(ss), x.value)[k] = IF k = n + 1 THEN x.value ELSE Model(ss)[k]
    BY <1>1, <1>2
  <1>7. \A k \in 1 .. n + 1 : Append(Model(ss), x.value)[k] = IF k = n + 1 THEN x.value ELSE ss[k].value
    BY <1>1, <1>4, <1>6
  <1>8. Append(Model(ss), x.value) = [k \in 1 .. n + 1 |-> Append(Model(ss), x.value)[k]]
    BY <1>1, <1>6
  <1>. QED
    BY <1>5, <1>7, <1>8 DEF tt

\* The list as the abstract stack: its head and its tail.
LEMMA HeadTail ==
    ASSUME NEW V, NEW n \in Nat, n # 0, NEW p \in [1 .. n -> V]
    PROVE  /\ p # <<>>
           /\ Head(p) = p[1]
           /\ Tail(p) = [i \in 1 .. n - 1 |-> p[i + 1]]
  <1>1. p \in Seq(V) /\ Len(p) = n
    BY FunctionIsSeq
  <1>. DEFINE t == Tail(p)
  <1>2. t \in Seq(V) /\ Len(t) = n - 1 /\ \A i \in 1 .. n - 1 : t[i] = p[i + 1]
    BY <1>1
  <1>3. t = [i \in 1 .. n - 1 |-> p[i + 1]]
    <2>. HIDE DEF t
    <2>1. t = [i \in 1 .. n - 1 |-> t[i]]
      BY <1>2
    <2>. QED
      BY <1>2, <2>1
  <1>4. p # <<>> /\ Head(p) = p[1]
    BY <1>1
  <1>. QED
    BY <1>3, <1>4

\* The abstract stack with a new head.
LEMMA NewHead ==
    ASSUME NEW V, NEW n \in Nat, NEW p \in [1 .. n -> V], NEW id \in V
    PROVE  <<id>> \o p = [i \in 1 .. n + 1 |-> IF i = 1 THEN id ELSE p[i - 1]]
  <1>1. p \in Seq(V) /\ Len(p) = n
    BY FunctionIsSeq
  <1>. QED
    BY <1>1

\* The empty arena is the empty slab.
LEMMA InitSimulates == Init => Abstract!Init
  <1>. SUFFICES ASSUME Init
                PROVE  Abstract!Init
    OBVIOUS
  <1>1. slots = <<>> /\ free = None /\ slots \in Seq(Slot) /\ Len(slots) = 0
    BY DEF Init
  <1>2. Threads(<<>>, 0, slots, free)
    BY <1>1 DEF Threads, VacantIn, Indices
  <1>3. FreeOrder = <<>>
    BY <1>1, <1>2, FreeOrderIs
  <1>4. [k \in 1 .. Len(slots) |-> slots[k].value] = <<>>
    BY <1>1
  <1>. QED
    BY <1>3, <1>4 DEF Init, Abstract!Init

FreeOrderUnique ==
    \A n \in Nat : \A p : slots \in Seq(Slot) /\ Threads(p, n, slots, free) => FreeOrder = p

\* There is one free list after a step too.
LEMMA FreeOrderNext == FreeOrderUnique'
  <1>1. FreeOrderUnique
    BY FreeOrderIs DEF FreeOrderUnique
  <1>. QED
    BY <1>1, PTL

\* The vector of the slab before and after a step, under the name of the proof.
LEMMA ModelIs ==
    /\ Model(slots) = [k \in 1 .. Len(slots) |-> slots[k].value]
    /\ Model(slots') = [k \in 1 .. Len(slots') |-> slots'[k].value]
  BY DEF Model

\* Every step of the arena is the step of the slab with the same name.
LEMMA StepSimulates ==
    IInv /\ IInv' /\ [Next]_vars =>
        [Abstract!Next]_<<[k \in 1 .. Len(slots) |-> slots[k].value], FreeOrder, ret>>
  <1>. SUFFICES ASSUME IInv, IInv', [Next]_vars
                PROVE  [Abstract!Next]_<<[k \in 1 .. Len(slots) |-> slots[k].value], FreeOrder, ret>>
    OBVIOUS
  <1>1. /\ slots \in Seq(Slot) /\ free \in Ids \cup {None} /\ Ids \subseteq Nat
        /\ slots' \in Seq(Slot)
    BY InvGives DEF Ids, IInv, TypeOK
  <1>. PICK n \in Nat : \E p : Threads(p, n, slots, free) /\ live = Len(slots) - n
    BY InvGives
  <1>2. PICK p : Threads(p, n, slots, free) /\ live = Len(slots) - n
    OBVIOUS
  <1>3. FreeOrder = p
    BY <1>1, <1>2, FreeOrderIs
  <1>4. p \in [1 .. n -> VacantIn(slots)] /\ (free = None <=> n = 0)
    <2>1. p \in [1 .. n -> VacantIn(slots)] /\ free = IF n = 0 THEN None ELSE p[1]
      BY <1>2 DEF Threads
    <2>2. VacantIn(slots) \subseteq Nat
      BY DEF VacantIn, Indices
    <2>. QED
      BY <2>1, <2>2, RecyclingAssumption
  <1>5. \A v \in Values : LiveSlot(v) \in Slot /\ LiveSlot(v).value = v
    BY DEF LiveSlot, Slot
  <1>6. /\ Len(Model(slots)) = Len(slots) /\ Indices(Model(slots)) = Indices(slots)
        /\ \A id \in Indices(slots) : At(slots, id).live <=> At(Model(slots), id) # None
        /\ \A id \in Indices(slots) : At(Model(slots), id) = At(slots, id).value
    BY <1>1, ModelFacts
  <1>7. ASSUME NEW v \in Values, PushReuse(v)
        PROVE  Abstract!Next
    <2>1. /\ free # None /\ free \in Indices(slots) /\ free' = At(slots, free).next
          /\ slots' = SetAt(slots, free, LiveSlot(v)) /\ ret' = <<"push", free, v>>
      BY <1>7 DEF PushReuse
    <2>. DEFINE q == [i \in 1 .. n - 1 |-> p[i + 1]]
    <2>2. n > 0 /\ free = p[1]
      BY <1>1, <1>2, <2>1, ReuseThreads
    <2>3. Threads(q, n - 1, slots', free')
      BY <1>1, <1>2, <2>1, ReuseThreads
    <2>4. p # <<>> /\ Head(p) = free /\ Tail(p) = q
      <3>1. p \in [1 .. n -> VacantIn(slots)] /\ n \in Nat /\ n # 0
        BY <1>2, <1>4, <2>2
      <3>2. p # <<>> /\ Head(p) = p[1] /\ Tail(p) = q
        BY <3>1, HeadTail
      <3>. QED
        BY <2>2, <3>2
    <2>. HIDE DEF q
    <2>5. FreeOrder' = Tail(p)
      BY <1>1, <1>2, <2>2, <2>4, <2>3, FreeOrderNext DEF FreeOrderUnique
    <2>6. Model(slots') = SetAt(Model(slots), free, v)
      BY <1>1, <1>5, <2>1, ModelSetAt
    <2>7. Abstract!Reuse(v)
      BY <1>3, <2>1, <2>4, <2>5, <2>6, ModelIs DEF Abstract!Reuse, Abstract!SetAt, SetAt
    <2>. QED
      BY <2>7 DEF Abstract!Next
  <1>8. ASSUME NEW v \in Values, PushAppend(v)
        PROVE  Abstract!Next
    <2>1. /\ free = None /\ IdFrom(Len(slots)) = Len(slots) /\ free' = free
          /\ slots' = Append(slots, LiveSlot(v)) /\ ret' = <<"push", IdFrom(Len(slots)), v>>
      BY <1>8 DEF PushAppend
    <2>2. p = <<>>
      BY <1>4, <2>1
    <2>3. Threads(p, n, slots', free')
      BY <1>1, <1>2, <2>1, AppendThreads
    <2>4. FreeOrder' = p
      BY <1>1, <1>2, <2>3, FreeOrderNext DEF FreeOrderUnique
    <2>5. Model(slots') = Append(Model(slots), v)
      BY <1>1, <1>5, <2>1, ModelAppend
    <2>6. Len(slots) < IdLimit
      BY <1>1, <2>1, RecyclingAssumption DEF IdFrom
    <2>7. Abstract!Issue(v)
      BY <1>3, <1>6, <2>1, <2>2, <2>4, <2>5, <2>6, ModelIs DEF Abstract!Issue
    <2>. QED
      BY <2>7 DEF Abstract!Next
  <1>9. ASSUME NEW id \in Ids, Remove(id)
        PROVE  Abstract!Next
    <2>1. /\ id \in Indices(slots) /\ At(slots, id).live
          /\ slots' = SetAt(slots, id, FreeSlot(free)) /\ free' = id
          /\ ret' = <<"take", id, At(slots, id).value>>
      BY <1>9 DEF Remove, contains
    <2>. DEFINE q == [i \in 1 .. n + 1 |-> IF i = 1 THEN id ELSE p[i - 1]]
    <2>2. Threads(q, n + 1, slots', free')
      BY <1>1, <1>2, <2>1, VacateThreads
    <2>3. <<id>> \o p = q
      <3>1. p \in [1 .. n -> Nat]
        BY <1>4 DEF VacantIn, Indices
      <3>2. id \in Nat
        BY <1>1
      <3>. QED
        BY <1>2, <3>1, <3>2, NewHead
    <2>. HIDE DEF q
    <2>4. FreeOrder' = <<id>> \o p
      BY <1>1, <1>2, <2>2, <2>3, FreeOrderNext DEF FreeOrderUnique
    <2>5. FreeSlot(free) \in Slot /\ FreeSlot(free).value = None
      BY <1>1 DEF FreeSlot, Slot
    <2>6. Model(slots') = SetAt(Model(slots), id, None)
      BY <1>1, <2>1, <2>5, ModelSetAt
    <2>7. Abstract!Take(id)
      <3>1. At(Model(slots), id) # None /\ At(Model(slots), id) = At(slots, id).value
        BY <1>6, <2>1
      <3>. QED
        BY <1>3, <2>1, <2>4, <2>6, <3>1, ModelIs
        DEF Abstract!Take, Abstract!SetAt, SetAt, Abstract!At, At
    <2>8. id \in Abstract!Indices([k \in 1 .. Len(slots) |-> slots[k].value])
      BY <1>6, <2>1, ModelIs DEF Abstract!Indices, Indices
    <2>. QED
      BY <2>7, <2>8 DEF Abstract!Next
  <1>10. ASSUME NEW id \in Ids, NEW v \in Values, Write(id, v)
         PROVE  Abstract!Next
    <2>1. /\ id \in Indices(slots) /\ At(slots, id).live
          /\ slots' = SetAt(slots, id, LiveSlot(v)) /\ free' = free
          /\ ret' = <<"write", id, v>>
      BY <1>10 DEF Write, contains
    <2>2. Threads(p, n, slots', free')
      BY <1>1, <1>2, <2>1, WriteThreads
    <2>3. FreeOrder' = p
      BY <1>1, <1>2, <2>2, FreeOrderNext DEF FreeOrderUnique
    <2>4. Model(slots') = SetAt(Model(slots), id, v)
      BY <1>1, <1>5, <2>1, ModelSetAt
    <2>5. Abstract!Write(id, v)
      <3>1. At(Model(slots), id) # None
        BY <1>6, <2>1
      <3>. QED
        BY <1>3, <2>1, <2>3, <2>4, <3>1, ModelIs
        DEF Abstract!Write, Abstract!SetAt, SetAt, Abstract!At, At
    <2>6. id \in Abstract!Indices([k \in 1 .. Len(slots) |-> slots[k].value])
      BY <1>6, <2>1, ModelIs DEF Abstract!Indices, Indices
    <2>. QED
      BY <2>5, <2>6 DEF Abstract!Next
  <1>11. CASE Clear
    <2>1. slots' = <<>> /\ free' = None /\ ret' = <<"clear", 0, None>> /\ Len(slots') = 0
      BY <1>11 DEF Clear
    <2>2. Threads(<<>>, 0, slots', free')
      BY <2>1 DEF Threads, VacantIn, Indices
    <2>3. FreeOrder' = <<>>
      BY <1>1, <2>2, FreeOrderNext DEF FreeOrderUnique
    <2>4. [k \in 1 .. Len(slots') |-> slots'[k].value] = <<>>
      BY <2>1
    <2>. QED
      BY <2>1, <2>3, <2>4 DEF Abstract!Next, Abstract!Clear
  <1>12. CASE UNCHANGED vars
    <2>1. slots' = slots /\ free' = free /\ ret' = ret
      BY <1>12 DEF vars
    <2>2. FreeOrder' = p
      BY <1>1, <1>2, <2>1, FreeOrderNext DEF FreeOrderUnique
    <2>. QED
      BY <1>3, <2>1, <2>2
  <1>. QED
    BY <1>7, <1>8, <1>9, <1>10, <1>11, <1>12 DEF Next

\* Every push returns the id removed last, or a never-issued one when none is
\* vacant, and never one whose payload lives; every id finds its payload.
THEOREM SlabImplemented == Spec => ImplementsSlab
  <1>. QED
    BY StepSimulates, InitEstablishes, NextPreserves, InitSimulates, PTL
    DEF Spec, ImplementsSlab, Abstract!Spec

=============================================================================
