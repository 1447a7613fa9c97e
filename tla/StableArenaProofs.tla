-------------------------- MODULE StableArenaProofs --------------------------
(***************************************************************************)
(* Consistent is an invariant of StableArena for every identifier width,   *)
(* sentinel, payload set and set of wires.  It is inductive once the id    *)
(* space is bounded by the backing type and the progress of a truncation   *)
(* is recorded.  Two things follow from it for whoever uses the arena:     *)
(* seen through its ids it is the vector of OptionVec, and an owner that   *)
(* truncates to its mark gets the arena it had.                            *)
(***************************************************************************)
EXTENDS StableArenaOptionVec, ArenaBatch, VecsProofs, FiniteSetTheorems, TLAPS

\* Every issued id round-trips through its backing type.
IdsFit == IssuedLen(arena) <= IdLimit

\* No slot number is the sentinel.
SlotsFit == Len(arena.values) <= DEAD

\* The ids a running truncation has visited are dead.
Visited ==
    call.busy => /\ call.raw <= IssuedLen(arena)
                 /\ \A id \in Indices(arena.locations) :
                        id >= call.raw => At(arena.locations, id) = DEAD

IInv == TypeOK /\ Consistent /\ IdsFit /\ SlotsFit /\ Visited

-----------------------------------------------------------------------------
(* The operations preserve well-formed arenas. *)

\* An id below the limit survives the cast to the backing type.
LEMMA IdFromFacts ==
    ASSUME NEW raw \in Nat
    PROVE  /\ IdFrom(raw) \in Ids
           /\ raw < IdLimit <=> Fits(raw)
  BY WidthAssumption DEF IdFrom, Fits, Ids

\* WellFormed with the ranges of its indirections spelled out.
LEMMA WellFormedFacts ==
    ASSUME NEW a \in Arenas, WellFormed(a),
           NEW n, n = IssuedLen(a), NEW k, k = Len(a.slot_ids)
    PROVE  /\ a.values \in Seq(Values) /\ a.slot_ids \in Seq(Ids) /\ a.locations \in Seq(Nat)
           /\ Len(a.values) = k /\ k \in Nat /\ n \in Nat
           /\ \A s \in 0 .. k - 1 : /\ At(a.slot_ids, s) \in 0 .. n - 1
                                    /\ At(a.locations, At(a.slot_ids, s)) = s
           /\ \A j \in 0 .. n - 1 :
                 At(a.locations, j) # DEAD => /\ At(a.locations, j) \in 0 .. k - 1
                                              /\ At(a.slot_ids, At(a.locations, j)) = j
  <1>1. /\ a.values \in Seq(Values) /\ a.slot_ids \in Seq(Ids) /\ a.locations \in Seq(Nat)
        /\ Len(a.values) = k /\ k \in Nat /\ n \in Nat
    BY DEF Arenas, WellFormed, IssuedLen
  <1>2. \A s \in 0 .. k - 1 : At(a.slot_ids, s) \in Ids
    BY <1>1 DEF At
  <1>3. \A s \in 0 .. k - 1 : At(a.slot_ids, s) \in Nat
    BY <1>2, WidthAssumption DEF Ids
  <1>4. \A j \in 0 .. n - 1 : At(a.locations, j) \in Nat
    BY <1>1 DEF At, IssuedLen
  <1>5. \A s \in 0 .. k - 1 : /\ At(a.slot_ids, s) \in 0 .. n - 1
                              /\ At(a.locations, At(a.slot_ids, s)) = s
    BY <1>1, <1>3 DEF WellFormed, SlotsNameIds, Indices
  <1>6. \A j \in 0 .. n - 1 :
          At(a.locations, j) # DEAD => /\ At(a.locations, j) \in 0 .. k - 1
                                       /\ At(a.slot_ids, At(a.locations, j)) = j
    BY <1>1, <1>4 DEF WellFormed, IdsNameSlots, Indices, IssuedLen
  <1>. QED
    BY <1>1, <1>5, <1>6

\* A push keeps both directions of the indirection inverse.
LEMMA PushPreserves ==
    ASSUME NEW a \in Arenas, WellFormed(a), CanPush(a), NEW v \in Values
    PROVE  /\ push(a, v) \in Arenas
           /\ WellFormed(push(a, v))
           /\ IssuedLen(push(a, v)) = IssuedLen(a) + 1
           /\ IssuedLen(a) < IdLimit
  <1>. DEFINE n == IssuedLen(a)
              k == Len(a.slot_ids)
              b == push(a, v)
  <1>1. /\ a.values \in Seq(Values) /\ a.slot_ids \in Seq(Ids) /\ a.locations \in Seq(Nat)
        /\ Len(a.values) = k /\ k \in Nat /\ n \in Nat
    BY DEF Arenas, WellFormed, IssuedLen
  <1>2. IdFrom(n) = n /\ n \in Ids /\ n < IdLimit
    BY <1>1, IdFromFacts DEF CanPush, Fits
  <1>3. /\ b.values = Append(a.values, v)
        /\ b.slot_ids = Append(a.slot_ids, n)
        /\ b.locations = Append(a.locations, k)
    BY <1>1, <1>2 DEF push
  <1>. HIDE DEF n, k, b
  <1>4. b.values \in Seq(Values) /\ Len(b.values) = k + 1
    BY <1>1, <1>3, AppendFacts
  <1>5. /\ b.slot_ids \in Seq(Ids) /\ Len(b.slot_ids) = k + 1
        /\ At(b.slot_ids, k) = n
        /\ \A j \in 0 .. k - 1 : At(b.slot_ids, j) = At(a.slot_ids, j)
    BY <1>1, <1>2, <1>3, AppendFacts DEF k
  <1>6. /\ b.locations \in Seq(Nat) /\ Len(b.locations) = n + 1
        /\ At(b.locations, n) = k
        /\ \A j \in 0 .. n - 1 : At(b.locations, j) = At(a.locations, j)
    BY <1>1, <1>3, AppendFacts DEF n, IssuedLen
  <1>7. \A s \in 0 .. k - 1 : /\ At(a.slot_ids, s) \in 0 .. n - 1
                              /\ At(a.locations, At(a.slot_ids, s)) = s
    BY WellFormedFacts DEF n, k
  <1>8. \A j \in 0 .. n - 1 :
          At(a.locations, j) # DEAD => /\ At(a.locations, j) \in 0 .. k - 1
                                       /\ At(a.slot_ids, At(a.locations, j)) = j
    BY WellFormedFacts DEF n, k
  <1>9. b \in Arenas
    BY <1>4, <1>5, <1>6 DEF Arenas, push, b
  <1>10. SlotsNameIds(b)
    <2>. SUFFICES ASSUME NEW s \in 0 .. k
                  PROVE  At(b.slot_ids, s) < n + 1 /\ At(b.locations, At(b.slot_ids, s)) = s
      BY <1>1, <1>5, <1>6 DEF SlotsNameIds, Indices, IssuedLen
    <2>1. CASE s = k
      BY <1>1, <1>5, <1>6, <2>1
    <2>2. CASE s \in 0 .. k - 1
      BY <1>1, <1>5, <1>6, <1>7, <2>2
    <2>. QED
      BY <1>1, <2>1, <2>2
  <1>11. IdsNameSlots(b)
    <2>. SUFFICES ASSUME NEW j \in 0 .. n, At(b.locations, j) # DEAD
                  PROVE  At(b.locations, j) < k + 1 /\ At(b.slot_ids, At(b.locations, j)) = j
      BY <1>1, <1>5, <1>6 DEF IdsNameSlots, Indices, IssuedLen
    <2>1. CASE j = n
      BY <1>1, <1>5, <1>6, <2>1
    <2>2. CASE j \in 0 .. n - 1
      BY <1>1, <1>5, <1>6, <1>8, <2>2
    <2>. QED
      BY <1>1, <2>1, <2>2
  <1>. QED
    BY <1>2, <1>4, <1>5, <1>6, <1>9, <1>10, <1>11 DEF WellFormed, IssuedLen, n, k, b

\* The vectors remove leaves, slot for slot: the last dense entry has taken the
\* place of the removed one, and its location is repaired.
LEMMA RemoveShape ==
    ASSUME NEW a \in Arenas, WellFormed(a), Len(a.values) <= DEAD,
           NEW id \in Ids, contains(a, id),
           NEW b, b = remove(a, id), NEW slot, slot = live_slot(a, id),
           NEW last, last = Len(a.slot_ids) - 1
    PROVE  /\ last \in Nat /\ slot \in 0 .. last /\ last < DEAD
           /\ id \in 0 .. IssuedLen(a) - 1 /\ At(a.slot_ids, slot) = id
           /\ b.values \in Seq(Values) /\ Len(b.values) = last
           /\ \A s \in 0 .. last - 1 : At(b.values, s) = At(a.values, IF s = slot THEN last ELSE s)
           /\ b.slot_ids \in Seq(Ids) /\ Len(b.slot_ids) = last
           /\ \A s \in 0 .. last - 1 :
                At(b.slot_ids, s) = At(a.slot_ids, IF s = slot THEN last ELSE s)
           /\ b.locations \in Seq(Nat) /\ IssuedLen(b) = IssuedLen(a)
           /\ At(b.locations, id) = DEAD
           /\ \A j \in 0 .. IssuedLen(a) - 1 : j # id =>
                At(b.locations, j) = IF At(a.locations, j) = last THEN slot ELSE At(a.locations, j)
           /\ b \in Arenas
  <1>. DEFINE n == IssuedLen(a)
              ids == SwapRemove(a.slot_ids, slot)
              vals == SwapRemove(a.values, slot)
              dead == SetAt(a.locations, id, DEAD)
              moved == At(ids, slot)
              locs == SetAt(dead, moved, slot)
  <1>1. /\ a.values \in Seq(Values) /\ a.slot_ids \in Seq(Ids) /\ a.locations \in Seq(Nat)
        /\ Len(a.slot_ids) = last + 1 /\ Len(a.values) = last + 1 /\ Len(a.locations) = n
        /\ last + 1 \in Nat /\ last \in Int /\ n \in Nat /\ DEAD \in Nat
    BY WidthAssumption DEF Arenas, WellFormed, IssuedLen
  <1>2. id \in 0 .. n - 1 /\ slot # DEAD /\ At(a.locations, id) = slot
    BY <1>1, WidthAssumption DEF contains, live_slot, Ids
  <1>3. \A s \in 0 .. last : /\ At(a.slot_ids, s) \in 0 .. n - 1
                             /\ At(a.locations, At(a.slot_ids, s)) = s
    BY WellFormedFacts
  <1>4. \A j \in 0 .. n - 1 :
          At(a.locations, j) # DEAD => /\ At(a.locations, j) \in 0 .. last
                                       /\ At(a.slot_ids, At(a.locations, j)) = j
    BY WellFormedFacts
  <1>5. b = [values |-> vals, slot_ids |-> ids,
             locations |-> IF slot < Len(ids) THEN locs ELSE dead]
    BY DEF remove
  <1>. HIDE DEF n, ids, vals, dead, moved, locs
  <1>6. slot \in 0 .. last /\ At(a.slot_ids, slot) = id /\ last \in Nat /\ last < DEAD
    BY <1>1, <1>2, <1>4
  <1>7. /\ ids \in Seq(Ids) /\ Len(ids) = last
        /\ \A s \in 0 .. last - 1 : At(ids, s) = At(a.slot_ids, IF s = slot THEN last ELSE s)
    BY <1>1, <1>6, SwapRemoveFacts DEF ids
  <1>8. /\ vals \in Seq(Values) /\ Len(vals) = last
        /\ \A s \in 0 .. last - 1 : At(vals, s) = At(a.values, IF s = slot THEN last ELSE s)
    <2>1. /\ a.values \in Seq(Values) /\ Len(a.values) = last + 1
          /\ last \in Nat /\ slot \in 0 .. last
      BY <1>1, <1>6
    <2>2. vals \in Seq(Values) /\ Len(vals) = last
      BY <2>1, SwapRemoveFacts DEF vals
    <2>3. ASSUME NEW s \in 0 .. last - 1
          PROVE  At(vals, s) = At(a.values, IF s = slot THEN last ELSE s)
      BY <2>1 DEF vals, SwapRemove, At
    <2>. QED
      BY <2>2, <2>3
  <1>9. /\ dead \in Seq(Nat) /\ Len(dead) = n
        /\ At(dead, id) = DEAD
        /\ \A j \in 0 .. n - 1 : j # id => At(dead, j) = At(a.locations, j)
    <2>1. a.locations \in Seq(Nat) /\ Len(a.locations) = n /\ n \in Nat /\ DEAD \in Nat
      BY <1>1
    <2>. QED
      BY <1>2, <2>1 DEF SetAt, At, dead
  <1>10. /\ b.locations \in Seq(Nat) /\ Len(b.locations) = n
         /\ At(b.locations, id) = DEAD
         /\ \A j \in 0 .. n - 1 : j # id =>
              At(b.locations, j) = IF At(a.locations, j) = last THEN slot ELSE At(a.locations, j)
    <2>1. CASE slot = last
      BY <1>5, <1>6, <1>7, <1>9, <2>1
    <2>2. CASE slot < last
      <3>1. b.locations = locs
        BY <1>5, <1>7, <2>2
      <3>2. moved = At(a.slot_ids, last) /\ moved \in 0 .. n - 1
            /\ At(a.locations, moved) = last /\ moved # id
        BY <1>2, <1>3, <1>6, <1>7, <2>2 DEF moved
      <3>3. /\ locs \in Seq(Nat) /\ Len(locs) = n
            /\ At(locs, moved) = slot
            /\ \A j \in 0 .. n - 1 : j # moved => At(locs, j) = At(dead, j)
        <4>1. /\ slot \in Nat /\ n \in Nat /\ moved \in 0 .. n - 1
              /\ dead \in Seq(Nat) /\ Len(dead) = n
          BY <1>1, <1>6, <1>9, <3>2
        <4>. QED
          BY <4>1 DEF SetAt, At, locs
      <3>4. \A j \in 0 .. n - 1 : At(a.locations, j) = last => j = moved
        BY <1>4, <1>6, <3>2
      <3>. QED
        BY <1>2, <1>9, <3>1, <3>2, <3>3, <3>4
    <2>. QED
      BY <1>6, <2>1, <2>2
  <1>11. b.values = vals /\ b.slot_ids = ids
    BY <1>5
  <1>12. b \in Arenas
    BY <1>5, <1>7, <1>8, <1>10 DEF Arenas
  <1>. QED
    BY <1>2, <1>6, <1>7, <1>8, <1>10, <1>11, <1>12 DEF IssuedLen, n

\* remove kills its id, and revives no other.
LEMMA RemovePreserves ==
    ASSUME NEW a \in Arenas, WellFormed(a), Len(a.values) <= DEAD,
           NEW id \in Ids, contains(a, id)
    PROVE  /\ remove(a, id) \in Arenas
           /\ WellFormed(remove(a, id))
           /\ IssuedLen(remove(a, id)) = IssuedLen(a)
           /\ Len(remove(a, id).values) = Len(a.values) - 1
           /\ At(remove(a, id).locations, id) = DEAD
           /\ \A j \in Indices(a.locations) :
                At(a.locations, j) = DEAD => At(remove(a, id).locations, j) = DEAD
  <1>. DEFINE n == IssuedLen(a)
              slot == live_slot(a, id)
              last == Len(a.slot_ids) - 1
              b == remove(a, id)
  <1>1. /\ n \in Nat /\ Len(a.values) = last + 1
        /\ \A s \in 0 .. last : /\ At(a.slot_ids, s) \in 0 .. n - 1
                                /\ At(a.locations, At(a.slot_ids, s)) = s
        /\ \A j \in 0 .. n - 1 :
              At(a.locations, j) # DEAD => /\ At(a.locations, j) \in 0 .. last
                                           /\ At(a.slot_ids, At(a.locations, j)) = j
    BY WellFormedFacts
  <1>2. /\ last \in Nat /\ slot \in 0 .. last /\ last < DEAD
        /\ id \in 0 .. n - 1 /\ At(a.slot_ids, slot) = id
        /\ Len(b.values) = last /\ Len(b.slot_ids) = last /\ IssuedLen(b) = n
        /\ b \in Arenas
    BY RemoveShape
  <1>3. \A s \in 0 .. last - 1 : At(b.slot_ids, s) = At(a.slot_ids, IF s = slot THEN last ELSE s)
    BY RemoveShape
  <1>4. /\ At(b.locations, id) = DEAD
        /\ \A j \in 0 .. n - 1 : j # id =>
             At(b.locations, j) = IF At(a.locations, j) = last THEN slot ELSE At(a.locations, j)
    BY RemoveShape
  <1>. HIDE DEF n, slot, last, b
  <1>5. SlotsNameIds(b)
    <2>. SUFFICES ASSUME NEW s \in 0 .. last - 1
                  PROVE  At(b.slot_ids, s) < n /\ At(b.locations, At(b.slot_ids, s)) = s
      BY <1>2 DEF SlotsNameIds, Indices
    <2>1. CASE s = slot
      <3>1. At(b.slot_ids, s) = At(a.slot_ids, last) /\ last \in 0 .. last /\ last # slot
        BY <1>2, <1>3, <2>1
      <3>2. At(b.slot_ids, s) \in 0 .. n - 1 /\ At(a.locations, At(b.slot_ids, s)) = last
        BY <1>1, <3>1
      <3>3. At(b.slot_ids, s) # id
        BY <1>1, <1>2, <3>1, <3>2
      <3>. QED
        BY <1>1, <1>4, <2>1, <3>2, <3>3
    <2>2. CASE s # slot
      <3>1. At(b.slot_ids, s) = At(a.slot_ids, s) /\ s \in 0 .. last /\ s # last
        BY <1>2, <1>3, <2>2
      <3>2. At(b.slot_ids, s) \in 0 .. n - 1 /\ At(a.locations, At(b.slot_ids, s)) = s
        BY <1>1, <3>1
      <3>3. At(b.slot_ids, s) # id
        BY <1>1, <1>2, <2>2, <3>2
      <3>. QED
        BY <1>1, <1>4, <3>1, <3>2, <3>3
    <2>. QED
      BY <2>1, <2>2
  <1>6. IdsNameSlots(b)
    <2>. SUFFICES ASSUME NEW j \in 0 .. n - 1, At(b.locations, j) # DEAD
                  PROVE  At(b.locations, j) < last /\ At(b.slot_ids, At(b.locations, j)) = j
      BY <1>2 DEF IdsNameSlots, Indices, IssuedLen
    <2>1. j # id /\ At(b.locations, j) = IF At(a.locations, j) = last THEN slot ELSE At(a.locations, j)
      BY <1>4
    <2>2. At(a.locations, j) # DEAD
      BY <1>2, <2>1
    <2>3. At(a.locations, j) \in 0 .. last /\ At(a.slot_ids, At(a.locations, j)) = j
      BY <1>1, <2>2
    <2>4. At(a.locations, j) # slot
      BY <1>2, <2>1, <2>3
    <2>5. At(b.locations, j) \in 0 .. last - 1
      BY <1>2, <2>1, <2>3, <2>4
    <2>. QED
      BY <1>2, <1>3, <2>1, <2>3, <2>4, <2>5
  <1>7. \A j \in 0 .. n - 1 : At(a.locations, j) = DEAD => At(b.locations, j) = DEAD
    BY <1>2, <1>4
  <1>. QED
    BY <1>1, <1>2, <1>4, <1>5, <1>6, <1>7 DEF WellFormed, Indices, IssuedLen, n, b

\* Distinct numbers below m fill at most m slots.
LEMMA DistinctBelow ==
    ASSUME NEW n \in Nat, NEW m \in Nat, NEW f \in [1 .. n -> 0 .. m - 1],
           \A i \in 1 .. n : \A j \in 1 .. i - 1 : f[j] # f[i]
    PROVE  n <= m
  <1>1. ~ \E x, y \in 1 .. n : x # y /\ f[x] = f[y]
    OBVIOUS
  <1>2. IsFiniteSet(1 .. n) /\ Cardinality(1 .. n) = n
    BY FS_Interval
  <1>3. IsFiniteSet(0 .. m - 1) /\ Cardinality(0 .. m - 1) = m
    BY FS_Interval
  <1>4. ~(Cardinality(0 .. m - 1) < Cardinality(1 .. n))
    BY <1>1, <1>2, <1>3, FS_PigeonHole
  <1>. QED
    BY <1>2, <1>3, <1>4

\* What Deserialize builds from a wire it accepts.
LEMMA DecodeWellFormed ==
    ASSUME NEW w \in Wire, Accepted(w)
    PROVE  /\ Decode(w) \in Arenas
           /\ WellFormed(Decode(w))
           /\ IssuedLen(Decode(w)) <= IdLimit
           /\ Len(Decode(w).values) <= DEAD
  <1>. DEFINE n == w.next_id
              k == Len(w.entries)
              Raw(i) == w.entries[i][1]
              SlotsOf(raw) == {i \in 1 .. k : Raw(i) = raw}
              vals == [i \in 1 .. k |-> w.entries[i][2]]
              ids == [i \in 1 .. k |-> IdFrom(w.entries[i][1])]
              locs == [r \in 1 .. n |-> IF SlotsOf(r - 1) = {}
                                       THEN DEAD
                                       ELSE (CHOOSE i \in SlotsOf(r - 1) : TRUE) - 1]
  <1>1. Decode(w) = [values |-> vals, slot_ids |-> ids, locations |-> locs]
    BY DEF Decode
  <1>2. n \in Nat /\ n <= DEAD /\ k \in Nat /\ DEAD \in Nat /\ IdLimit \in Nat
    BY WidthAssumption DEF Wire
  <1>3. \A i \in 1 .. k : w.entries[i][1] \in Nat /\ w.entries[i][2] \in Values
    BY <1>2 DEF Wire
  <1>4. \A i \in 1 .. k : /\ Raw(i) \in 0 .. n - 1 /\ IdFrom(Raw(i)) = Raw(i)
                          /\ \A j \in 1 .. i - 1 : Raw(j) # Raw(i)
    BY <1>2, <1>3 DEF Accepted, Fits
  <1>5. \A i, j \in 1 .. k : Raw(i) = Raw(j) => i = j
    BY <1>2, <1>4
  <1>6. n <= IdLimit
    <2>1. CASE n = 0
      BY <1>2, <2>1
    <2>2. CASE n > 0
      BY <1>2, <2>2, IdFromFacts DEF Accepted
    <2>. QED
      BY <1>2, <2>1, <2>2
  <1>7. k <= n
    <2>. DEFINE f == [i \in 1 .. k |-> Raw(i)]
    <2>1. f \in [1 .. k -> 0 .. n - 1]
      BY <1>4
    <2>2. \A i \in 1 .. k : \A j \in 1 .. i - 1 : f[j] # f[i]
      BY <1>2, <1>4
    <2>. HIDE DEF f, n, k
    <2>. QED
      BY <1>2, <2>1, <2>2, DistinctBelow
  <1>8. vals \in Seq(Values) /\ Len(vals) = k
    <2>1. vals \in [1 .. k -> Values]
      BY <1>3
    <2>. QED
      BY <1>2, <2>1, FunctionIsSeq
  <1>9. ids \in Seq(Ids) /\ Len(ids) = k
    <2>1. ids \in [1 .. k -> Ids]
      BY <1>3, IdFromFacts
    <2>. QED
      BY <1>2, <2>1, FunctionIsSeq
  <1>10. \A r \in 1 .. n : SlotsOf(r - 1) # {} =>
            (CHOOSE i \in SlotsOf(r - 1) : TRUE) \in SlotsOf(r - 1)
    OBVIOUS
  <1>11. \A r \in 1 .. n : locs[r] \in Nat
    BY <1>2, <1>10
  <1>12. locs \in Seq(Nat) /\ Len(locs) = n
    <2>1. locs \in [1 .. n -> Nat]
      BY <1>11
    <2>. QED
      BY <1>2, <2>1, FunctionIsSeq
  <1>13. \A s \in 0 .. k - 1 : At(ids, s) = Raw(s + 1)
    <2>. SUFFICES ASSUME NEW s \in 0 .. k - 1
                  PROVE  ids[s + 1] = Raw(s + 1)
      BY DEF At
    <2>1. s + 1 \in 1 .. k
      BY <1>2
    <2>. QED
      BY <1>4, <2>1
  <1>14. \A s \in 0 .. k - 1 : At(locs, Raw(s + 1)) = s
    <2>. SUFFICES ASSUME NEW s \in 0 .. k - 1
                  PROVE  At(locs, Raw(s + 1)) = s
      OBVIOUS
    <2>1. s + 1 \in 1 .. k /\ Raw(s + 1) \in 0 .. n - 1
      BY <1>2, <1>4
    <2>2. SlotsOf(Raw(s + 1)) = {s + 1}
      BY <1>5, <2>1
    <2>3. (CHOOSE i \in SlotsOf(Raw(s + 1)) : TRUE) = s + 1
      BY <2>2
    <2>4. Raw(s + 1) + 1 \in 1 .. n /\ (Raw(s + 1) + 1) - 1 = Raw(s + 1)
      BY <1>2, <2>1
    <2>5. locs[Raw(s + 1) + 1] = (s + 1) - 1
      BY <2>2, <2>3, <2>4
    <2>. HIDE DEF locs, Raw
    <2>. QED
      BY <2>5 DEF At
  <1>15. \A r \in 0 .. n - 1 : At(locs, r) # DEAD =>
            /\ At(locs, r) \in 0 .. k - 1
            /\ Raw(At(locs, r) + 1) = r
    <2>. SUFFICES ASSUME NEW r \in 0 .. n - 1, At(locs, r) # DEAD
                  PROVE  At(locs, r) \in 0 .. k - 1 /\ Raw(At(locs, r) + 1) = r
      OBVIOUS
    <2>1. r + 1 \in 1 .. n /\ (r + 1) - 1 = r
      BY <1>2
    <2>. DEFINE c == CHOOSE i \in SlotsOf(r) : TRUE
    <2>2. SlotsOf(r) # {} /\ At(locs, r) = c - 1
      BY <2>1 DEF At
    <2>3. c \in SlotsOf(r)
      BY <2>2
    <2>4. c \in 1 .. k /\ Raw(c) = r
      BY <2>3
    <2>. HIDE DEF c, Raw, locs, k
    <2>5. c - 1 \in 0 .. k - 1 /\ (c - 1) + 1 = c
      BY <1>2, <2>4
    <2>. QED
      BY <2>2, <2>4, <2>5
  <1>. HIDE DEF vals, ids, locs, Raw, n, k
  <1>16. SlotsNameIds(Decode(w))
    BY <1>1, <1>2, <1>4, <1>9, <1>12, <1>13, <1>14 DEF SlotsNameIds, Indices, IssuedLen
  <1>17. IdsNameSlots(Decode(w))
    BY <1>1, <1>2, <1>9, <1>12, <1>13, <1>15 DEF IdsNameSlots, Indices, IssuedLen
  <1>. QED
    BY <1>1, <1>2, <1>6, <1>7, <1>8, <1>9, <1>12, <1>16, <1>17 DEF WellFormed, Arenas, IssuedLen

\* Overwriting a payload leaves both indirections alone.
LEMMA WritePreserves ==
    ASSUME NEW a \in Arenas, WellFormed(a), NEW id \in Ids, contains(a, id), NEW v \in Values
    PROVE  /\ write(a, id, v) \in Arenas
           /\ WellFormed(write(a, id, v))
           /\ IssuedLen(write(a, id, v)) = IssuedLen(a)
           /\ Len(write(a, id, v).values) = Len(a.values)
  <1>. DEFINE slot == live_slot(a, id)
              k == Len(a.slot_ids)
              vals == SetAt(a.values, slot, v)
              b == write(a, id, v)
  <1>1. a.values \in Seq(Values) /\ Len(a.values) = k /\ k \in Nat
    BY WellFormedFacts
  <1>2. id \in 0 .. IssuedLen(a) - 1 /\ slot # DEAD /\ slot = At(a.locations, id)
    <2>1. IssuedLen(a) \in Nat /\ id \in Nat
      BY WidthAssumption DEF Ids, Arenas, IssuedLen
    <2>2. id < IssuedLen(a) /\ At(a.locations, id) # DEAD
      BY DEF contains
    <2>3. id \in 0 .. IssuedLen(a) - 1
      BY <2>1, <2>2
    <2>. QED
      BY <2>2, <2>3 DEF live_slot
  <1>3. slot \in 0 .. k - 1
    <2>1. \A j \in 0 .. IssuedLen(a) - 1 :
            At(a.locations, j) # DEAD => At(a.locations, j) \in 0 .. k - 1
      BY WellFormedFacts
    <2>. HIDE DEF slot, k
    <2>. QED
      BY <1>2, <2>1
  <1>4. b = [a EXCEPT !.values = vals]
    BY DEF write
  <1>. HIDE DEF slot, k, b, vals
  <1>5. vals \in Seq(Values) /\ Len(vals) = k
    BY <1>1, <1>3, SetAtFacts DEF vals
  <1>6. /\ b.values = vals /\ b.slot_ids = a.slot_ids /\ b.locations = a.locations
        /\ b \in Arenas
    BY <1>4, <1>5 DEF Arenas
  <1>7. SlotsNameIds(b) /\ IdsNameSlots(b)
    BY <1>6 DEF WellFormed, SlotsNameIds, IdsNameSlots, IssuedLen
  <1>. QED
    BY <1>1, <1>5, <1>6, <1>7 DEF WellFormed, IssuedLen, b, k

\* Cutting the id table where every id is dead keeps an arena well-formed.
LEMMA CutPreserves ==
    ASSUME NEW a \in Arenas, WellFormed(a), Len(a.values) <= DEAD, NEW m \in Nat,
           \A id \in Indices(a.locations) : id >= m => At(a.locations, id) = DEAD
    PROVE  /\ cut(a, m) \in Arenas
           /\ WellFormed(cut(a, m))
           /\ IssuedLen(cut(a, m)) <= IssuedLen(a)
           /\ cut(a, m).values = a.values
  <1>. DEFINE n == IssuedLen(a)
              k == Len(a.slot_ids)
              locs == Truncate(a.locations, m)
              b == cut(a, m)
  <1>1. /\ a.slot_ids \in Seq(Ids) /\ a.locations \in Seq(Nat)
        /\ Len(a.values) = k /\ k \in Nat /\ n \in Nat /\ DEAD \in Nat
    BY WidthAssumption DEF Arenas, WellFormed, IssuedLen
  <1>2. \A s \in 0 .. k - 1 : /\ At(a.slot_ids, s) \in 0 .. n - 1
                              /\ At(a.locations, At(a.slot_ids, s)) = s
    BY WellFormedFacts
  <1>3. \A j \in 0 .. n - 1 :
          At(a.locations, j) # DEAD => /\ At(a.locations, j) \in 0 .. k - 1
                                       /\ At(a.slot_ids, At(a.locations, j)) = j
    BY WellFormedFacts
  <1>4. /\ locs \in Seq(Nat) /\ Len(locs) = IF m < n THEN m ELSE n
        /\ \A j \in 0 .. Len(locs) - 1 : At(locs, j) = At(a.locations, j)
    BY <1>1, TruncateFacts DEF IssuedLen, Indices
  <1>5. /\ b.values = a.values /\ b.slot_ids = a.slot_ids /\ b.locations = locs
        /\ b \in Arenas
    BY <1>4 DEF Arenas, cut
  <1>6. \A s \in 0 .. k - 1 : At(a.slot_ids, s) < m
    <2>. SUFFICES ASSUME NEW s \in 0 .. k - 1, ~(At(a.slot_ids, s) < m)
                  PROVE  FALSE
      OBVIOUS
    <2>1. At(a.slot_ids, s) \in Indices(a.locations) /\ At(a.slot_ids, s) >= m
      BY <1>1, <1>2 DEF Indices, IssuedLen
    <2>2. s = DEAD
      BY <1>2, <2>1
    <2>. QED
      BY <1>1, <2>2
  <1>. HIDE DEF n, k, locs, b
  <1>7. SlotsNameIds(b)
    <2>. SUFFICES ASSUME NEW s \in 0 .. k - 1
                  PROVE  At(a.slot_ids, s) < Len(locs) /\ At(locs, At(a.slot_ids, s)) = s
      BY <1>5 DEF SlotsNameIds, Indices, IssuedLen, k
    <2>1. At(a.slot_ids, s) \in 0 .. Len(locs) - 1
      BY <1>1, <1>2, <1>4, <1>6
    <2>. QED
      BY <1>2, <1>4, <2>1
  <1>8. IdsNameSlots(b)
    <2>. SUFFICES ASSUME NEW j \in 0 .. Len(locs) - 1, At(locs, j) # DEAD
                  PROVE  At(locs, j) < k /\ At(a.slot_ids, At(locs, j)) = j
      BY <1>5 DEF IdsNameSlots, Indices, k
    <2>1. j \in 0 .. n - 1 /\ At(locs, j) = At(a.locations, j)
      BY <1>1, <1>4
    <2>. QED
      BY <1>1, <1>3, <2>1
  <1>. QED
    BY <1>1, <1>4, <1>5, <1>7, <1>8 DEF WellFormed, IssuedLen, n, k, b

-----------------------------------------------------------------------------
(* What the operations do to the payloads, seen through the ids. *)

\* The ids below n keep their payloads, or stay dead, except those in gone.
Kept(a, b, n, gone) ==
    \A j \in 0 .. n - 1 : j \notin gone =>
        /\ contains(b, j) <=> contains(a, j)
        /\ contains(a, j) => get(b, j) = get(a, j)

\* A push adds its payload under the new id and changes nothing else.
LEMMA PushContents ==
    ASSUME NEW a \in Arenas, WellFormed(a), CanPush(a), NEW v \in Values
    PROVE  /\ Kept(a, push(a, v), IssuedLen(a), {})
           /\ contains(push(a, v), IssuedLen(a))
           /\ get(push(a, v), IssuedLen(a)) = v
  <1>. DEFINE n == IssuedLen(a)
              k == Len(a.values)
              b == push(a, v)
  <1>1. /\ a.values \in Seq(Values) /\ a.locations \in Seq(Nat) /\ Len(a.slot_ids) = k
        /\ k \in Nat /\ n \in Nat /\ Len(a.locations) = n /\ k < DEAD /\ DEAD \in Nat
    BY WidthAssumption DEF Arenas, WellFormed, IssuedLen, CanPush
  <1>2. b.values = Append(a.values, v) /\ b.locations = Append(a.locations, k)
    BY DEF push
  <1>3. \A j \in 0 .. n - 1 : At(a.locations, j) # DEAD => At(a.locations, j) \in 0 .. k - 1
    <2>1. \A j \in 0 .. n - 1 :
            At(a.locations, j) # DEAD => At(a.locations, j) \in 0 .. Len(a.slot_ids) - 1
      BY WellFormedFacts
    <2>. QED
      BY <1>1, <2>1
  <1>. HIDE DEF n, k, b
  <1>4. /\ Len(b.locations) = n + 1 /\ At(b.locations, n) = k
        /\ \A j \in 0 .. n - 1 : At(b.locations, j) = At(a.locations, j)
    BY <1>1, <1>2 DEF At
  <1>5. At(b.values, k) = v /\ \A s \in 0 .. k - 1 : At(b.values, s) = At(a.values, s)
    <2>1. a.values \in Seq(Values) /\ Len(a.values) = k /\ k \in Nat
      BY <1>1 DEF k
    <2>. QED
      BY <1>2, <2>1, AppendFacts
  <1>6. contains(b, n) /\ get(b, n) = v
    BY <1>1, <1>4, <1>5 DEF contains, get, live_slot, IssuedLen
  <1>7. Kept(a, b, n, {})
    BY <1>1, <1>3, <1>4, <1>5 DEF Kept, contains, get, live_slot, IssuedLen
  <1>. QED
    BY <1>6, <1>7 DEF n, b

\* Every other payload is found where swap_remove put it.
LEMMA RemoveContents ==
    ASSUME NEW a \in Arenas, WellFormed(a), Len(a.values) <= DEAD,
           NEW id \in Ids, contains(a, id)
    PROVE  /\ Kept(a, remove(a, id), IssuedLen(a), {id})
           /\ ~contains(remove(a, id), id)
  <1>. DEFINE n == IssuedLen(a)
              slot == live_slot(a, id)
              last == Len(a.slot_ids) - 1
              b == remove(a, id)
  <1>1. /\ n \in Nat
        /\ \A j \in 0 .. n - 1 :
              At(a.locations, j) # DEAD => /\ At(a.locations, j) \in 0 .. last
                                           /\ At(a.slot_ids, At(a.locations, j)) = j
    BY WellFormedFacts
  <1>2. /\ last \in Nat /\ slot \in 0 .. last /\ last < DEAD /\ DEAD \in Nat
        /\ id \in 0 .. n - 1 /\ At(a.slot_ids, slot) = id
        /\ IssuedLen(b) = n
    BY RemoveShape, WidthAssumption
  <1>3. \A s \in 0 .. last - 1 : At(b.values, s) = At(a.values, IF s = slot THEN last ELSE s)
    BY RemoveShape
  <1>4. /\ At(b.locations, id) = DEAD
        /\ \A j \in 0 .. n - 1 : j # id =>
             At(b.locations, j) = IF At(a.locations, j) = last THEN slot ELSE At(a.locations, j)
    BY RemoveShape
  <1>. HIDE DEF n, slot, last, b
  <1>5. ASSUME NEW j \in 0 .. n - 1, j # id
        PROVE  /\ At(b.locations, j) # DEAD <=> At(a.locations, j) # DEAD
               /\ At(a.locations, j) # DEAD =>
                    At(b.values, At(b.locations, j)) = At(a.values, At(a.locations, j))
    <2>1. At(b.locations, j) = IF At(a.locations, j) = last THEN slot ELSE At(a.locations, j)
      BY <1>4, <1>5
    <2>2. At(b.locations, j) # DEAD <=> At(a.locations, j) # DEAD
      BY <1>2, <2>1
    <2>3. ASSUME At(a.locations, j) # DEAD
          PROVE  At(b.values, At(b.locations, j)) = At(a.values, At(a.locations, j))
      <3>1. At(a.locations, j) \in 0 .. last /\ At(a.slot_ids, At(a.locations, j)) = j
        BY <1>1, <2>3
      <3>2. At(a.locations, j) # slot
        BY <1>2, <1>5, <3>1
      <3>3. At(b.locations, j) \in 0 .. last - 1
        BY <1>2, <2>1, <3>1, <3>2
      <3>. QED
        BY <1>3, <2>1, <3>2, <3>3
    <2>. QED
      BY <2>2, <2>3
  <1>6. Kept(a, b, n, {id})
    BY <1>1, <1>2, <1>5 DEF Kept, contains, get, live_slot, n
  <1>7. ~contains(b, id)
    BY <1>4 DEF contains
  <1>. QED
    BY <1>6, <1>7 DEF n, b

\* A write changes the payload of its id and nothing else.
LEMMA WriteContents ==
    ASSUME NEW a \in Arenas, WellFormed(a), NEW id \in Ids, contains(a, id), NEW v \in Values
    PROVE  /\ Kept(a, write(a, id, v), IssuedLen(a), {id})
           /\ contains(write(a, id, v), id)
           /\ get(write(a, id, v), id) = v
  <1>. DEFINE n == IssuedLen(a)
              slot == live_slot(a, id)
              k == Len(a.slot_ids)
              b == write(a, id, v)
  <1>1. /\ a.values \in Seq(Values) /\ Len(a.values) = k /\ k \in Nat /\ n \in Nat
        /\ \A j \in 0 .. n - 1 :
              At(a.locations, j) # DEAD => /\ At(a.locations, j) \in 0 .. k - 1
                                           /\ At(a.slot_ids, At(a.locations, j)) = j
    BY WellFormedFacts
  <1>2. id \in 0 .. n - 1 /\ slot = At(a.locations, id) /\ slot # DEAD
    BY <1>1, WidthAssumption DEF contains, live_slot, Ids
  <1>3. b.values = SetAt(a.values, slot, v) /\ b.locations = a.locations
    BY DEF write, Arenas
  <1>. HIDE DEF n, slot, k, b
  <1>4. slot \in 0 .. k - 1
    BY <1>1, <1>2
  <1>5. At(b.values, slot) = v /\ \A s \in 0 .. k - 1 : s # slot => At(b.values, s) = At(a.values, s)
    BY <1>1, <1>3, <1>4 DEF SetAt, At
  <1>6. contains(b, id) /\ get(b, id) = v
    BY <1>1, <1>2, <1>3, <1>5 DEF contains, get, live_slot, IssuedLen, n
  <1>7. ASSUME NEW j \in 0 .. n - 1, j # id, At(a.locations, j) # DEAD
        PROVE  At(b.values, At(a.locations, j)) = At(a.values, At(a.locations, j))
    <2>1. At(a.locations, j) \in 0 .. k - 1 /\ At(a.locations, j) # slot
      BY <1>1, <1>2, <1>7
    <2>. QED
      BY <1>5, <2>1
  <1>8. Kept(a, b, n, {id})
    BY <1>3, <1>7 DEF Kept, contains, get, live_slot, IssuedLen
  <1>. QED
    BY <1>6, <1>8 DEF n, b

\* Cutting the table back to m ids changes nothing below m.
LEMMA CutContents ==
    ASSUME NEW a \in Arenas, NEW m \in Nat, NEW n \in Nat, n <= IssuedLen(a), n <= m
    PROVE  Kept(a, cut(a, m), n, {})
  <1>. DEFINE b == cut(a, m)
  <1>1. a.locations \in Seq(Nat) /\ Len(a.locations) \in Nat
    BY DEF Arenas
  <1>2. b.values = a.values /\ b.locations = Truncate(a.locations, m)
    BY DEF cut, Arenas
  <1>. HIDE DEF b
  <1>3. /\ Len(b.locations) = IF m < Len(a.locations) THEN m ELSE Len(a.locations)
        /\ \A j \in 0 .. Len(b.locations) - 1 : At(b.locations, j) = At(a.locations, j)
    <2>. DEFINE t == Truncate(a.locations, m)
    <2>1. Len(t) = IF m < Len(a.locations) THEN m ELSE Len(a.locations)
      BY <1>1, TruncateFacts
    <2>2. \A j \in 0 .. Len(t) - 1 : At(t, j) = At(a.locations, j)
      BY <1>1, TruncateFacts DEF Indices
    <2>. QED
      BY <1>2, <2>1, <2>2
  <1>4. \A j \in 0 .. n - 1 : /\ j < Len(b.locations) /\ j < Len(a.locations)
                              /\ At(b.locations, j) = At(a.locations, j)
    BY <1>1, <1>3 DEF IssuedLen
  <1>5. Kept(a, b, n, {})
    BY <1>2, <1>4 DEF Kept, contains, get, live_slot, IssuedLen
  <1>. QED
    BY <1>5 DEF b

-----------------------------------------------------------------------------
(* The inductive invariant. *)

\* The empty arena satisfies the invariant.
THEOREM InitEstablishes == Init => IInv
  BY WidthAssumption
  DEF Init, EmptyArena, NoCall, IInv, TypeOK, Arenas, Calls, Consistent, WellFormed,
      SlotsNameIds, IdsNameSlots, Indices, IssuedLen, IdsFit, SlotsFit, Visited

\* A step on an idle arena that leaves it well-formed and in range.
LEMMA IdleStep ==
    ASSUME IInv, ~call.busy, UNCHANGED call, arena' \in Arenas, WellFormed(arena'),
           IssuedLen(arena') <= IdLimit, Len(arena'.values) <= DEAD
    PROVE  IInv'
  BY DEF IInv, TypeOK, Consistent, IdsFit, SlotsFit, Visited

\* A truncation may be asked for any length.
LEMMA BeginStep ==
    ASSUME IInv, NEW issued \in Nat, TruncateBegin(issued)
    PROVE  IInv'
  <1>1. IssuedLen(arena) \in Nat
    BY DEF IInv, TypeOK, Arenas, IssuedLen
  <1>. QED
    BY <1>1
    DEF IInv, TruncateBegin, TypeOK, Calls, Consistent, IdsFit, SlotsFit, Visited, Indices, IssuedLen

\* Every call, every turn of a truncation and its unwinding keep the invariant.
THEOREM NextPreserves == IInv /\ [Next]_vars => IInv'
  <1>. SUFFICES ASSUME IInv, [Next]_vars
                PROVE  IInv'
    OBVIOUS
  <1>. USE DEF IInv
  <1>1. /\ arena \in Arenas /\ WellFormed(arena) /\ call \in Calls
        /\ IssuedLen(arena) \in Nat /\ IssuedLen(arena) <= IdLimit
        /\ Len(arena.values) \in Nat /\ Len(arena.values) <= DEAD
        /\ IdLimit \in Nat /\ DEAD \in Nat
    BY WidthAssumption DEF TypeOK, Consistent, IdsFit, SlotsFit, Arenas, IssuedLen
  <1>2. ASSUME NEW v \in Values, Push(v)
        PROVE  IInv'
    <2>1. arena' = push(arena, v) /\ CanPush(arena) /\ ~call.busy /\ UNCHANGED call
      BY <1>2 DEF Push, Idle
    <2>2. /\ arena' \in Arenas /\ WellFormed(arena')
          /\ IssuedLen(arena') <= IdLimit
      BY <1>1, <2>1, PushPreserves
    <2>3. Len(arena'.values) <= DEAD
      BY <1>1, <2>1 DEF push, CanPush, Arenas
    <2>. QED
      BY <2>1, <2>2, <2>3, IdleStep
  <1>3. ASSUME NEW id \in Ids, Remove(id)
        PROVE  IInv'
    <2>1. arena' = remove(arena, id) /\ contains(arena, id) /\ ~call.busy /\ UNCHANGED call
      BY <1>3 DEF Remove, Idle
    <2>. QED
      BY <1>1, <2>1, RemovePreserves, IdleStep
  <1>4. ASSUME NEW id \in Ids, NEW v \in Values, Write(id, v)
        PROVE  IInv'
    <2>1. arena' = write(arena, id, v) /\ contains(arena, id) /\ ~call.busy /\ UNCHANGED call
      BY <1>4 DEF Write, Idle
    <2>. QED
      BY <1>1, <2>1, WritePreserves, IdleStep
  <1>5. CASE Clear
    <2>1. arena' = EmptyArena /\ ~call.busy /\ UNCHANGED call
      BY <1>5 DEF Clear, Idle
    <2>2. /\ arena' \in Arenas /\ WellFormed(arena')
          /\ IssuedLen(arena') = 0 /\ Len(arena'.values) = 0
      BY <2>1 DEF EmptyArena, Arenas, WellFormed, SlotsNameIds, IdsNameSlots, Indices, IssuedLen
    <2>. QED
      BY <1>1, <2>1, <2>2, IdleStep
  <1>6. ASSUME NEW w \in Wires, Deserialize(w)
        PROVE  IInv'
    <2>1. arena' = Decode(w) /\ Accepted(w) /\ ~call.busy /\ UNCHANGED call
      BY <1>6 DEF Deserialize, Idle
    <2>2. w \in Wire
      BY WiresAssumption
    <2>. QED
      BY <2>1, <2>2, DecodeWellFormed, IdleStep
  <1>7. ASSUME NEW issued \in 0 .. DEAD, TruncateBegin(issued)
        PROVE  IInv'
    BY <1>1, <1>7, BeginStep
  <1>8. CASE TruncateStep
    <2>1. /\ call.busy /\ call.raw - 1 \in Nat /\ call.raw - 1 < IssuedLen(arena)
          /\ IdFrom(call.raw - 1) = call.raw - 1
      BY <1>1, <1>8, IdFromFacts DEF TruncateStep, Truncating, Visited, Calls, Fits
    <2>2. /\ arena' = remove_if_live(arena, call.raw - 1)
          /\ call' = [call EXCEPT !.raw = @ - 1]
      BY <1>8, <2>1 DEF TruncateStep
    <2>3. call' \in Calls /\ call'.busy /\ call'.raw = call.raw - 1
      BY <1>1, <2>1, <2>2 DEF Calls
    <2>. DEFINE id == call.raw - 1
    <2>4. id \in Ids
      BY <2>1, <1>1, IdFromFacts
    <2>. HIDE DEF id
    <2>5. \A j \in Indices(arena.locations) : j >= id /\ j # id => At(arena.locations, j) = DEAD
      BY <1>1, <2>1 DEF Visited, Indices, IssuedLen, id, Calls
    <2>6. CASE contains(arena, id)
      <3>1. arena' = remove(arena, id)
        BY <2>2, <2>6 DEF remove_if_live, id
      <3>2. /\ arena' \in Arenas /\ WellFormed(arena')
            /\ IssuedLen(arena') = IssuedLen(arena)
            /\ Len(arena'.values) <= DEAD
            /\ At(arena'.locations, id) = DEAD
            /\ \A j \in Indices(arena.locations) :
                 At(arena.locations, j) = DEAD => At(arena'.locations, j) = DEAD
        <4>1. arena \in Arenas /\ WellFormed(arena) /\ Len(arena.values) <= DEAD
          BY <1>1
        <4>2. \A j \in Indices(arena.locations) :
                At(arena.locations, j) = DEAD => At(remove(arena, id).locations, j) = DEAD
          BY <2>4, <2>6, <4>1, RemovePreserves, Zenon
        <4>. QED
          BY <1>1, <2>4, <2>6, <3>1, <4>2, RemovePreserves
      <3>3. Visited'
        BY <2>1, <2>3, <2>5, <3>2 DEF Visited, Indices, IssuedLen, id
      <3>. QED
        BY <1>1, <2>3, <3>2, <3>3 DEF TypeOK, Consistent, IdsFit, SlotsFit
    <2>7. CASE ~contains(arena, id)
      <3>1. arena' = arena
        BY <2>2, <2>7 DEF remove_if_live, id
      <3>2. At(arena.locations, id) = DEAD
        BY <2>1, <2>7 DEF contains, id
      <3>3. Visited'
        BY <2>1, <2>3, <2>5, <3>1, <3>2 DEF Visited, Indices, IssuedLen, id
      <3>. QED
        BY <1>1, <2>3, <3>1, <3>3 DEF TypeOK, Consistent, IdsFit, SlotsFit
    <2>. QED
      BY <2>6, <2>7
  <1>9. CASE TruncateUnwind
    <2>1. /\ call.busy /\ contains(arena, IdFrom(call.raw - 1)) /\ call' = NoCall
          /\ arena' = remove(arena, IdFrom(call.raw - 1))
          /\ IdFrom(call.raw - 1) \in Ids
      BY <1>1, <1>9, IdFromFacts DEF TruncateUnwind, Truncating, Calls
    <2>2. /\ arena' \in Arenas /\ WellFormed(arena')
          /\ IssuedLen(arena') = IssuedLen(arena)
          /\ Len(arena'.values) <= DEAD
      BY <1>1, <2>1, RemovePreserves
    <2>. QED
      BY <1>1, <2>1, <2>2
      DEF NoCall, TypeOK, Calls, Consistent, IdsFit, SlotsFit, Visited
  <1>10. CASE TruncateEnd
    <2>1. /\ call.busy /\ call.issued \in Nat /\ call' = NoCall
          /\ arena' = cut(arena, call.issued)
      BY <1>1, <1>10 DEF TruncateEnd, Calls
    <2>2. \A id \in Indices(arena.locations) :
              id >= call.issued => At(arena.locations, id) = DEAD
      BY <1>1, <1>10 DEF TruncateEnd, Visited, Calls, Indices, IssuedLen
    <2>3. /\ arena' \in Arenas /\ WellFormed(arena')
          /\ IssuedLen(arena') <= IssuedLen(arena)
          /\ arena'.values = arena.values
      BY <1>1, <2>1, <2>2, CutPreserves
    <2>4. IssuedLen(arena') \in Nat
      BY <2>3 DEF Arenas, IssuedLen
    <2>. QED
      BY <1>1, <2>1, <2>3, <2>4
      DEF NoCall, TypeOK, Calls, Consistent, IdsFit, SlotsFit, Visited
  <1>11. CASE UNCHANGED vars
    BY <1>11 DEF vars, TypeOK, Consistent, IdsFit, SlotsFit, Visited
  <1>. QED
    BY <1>2, <1>3, <1>4, <1>5, <1>6, <1>7, <1>8, <1>9, <1>10, <1>11 DEF Next

\* In every reachable state the payload and id vectors are parallel and the
\* two indirections of the arena are inverse to each other: remove's
\* debug_assert never fires and every live id finds its own payload.
THEOREM ConsistentAlways == Spec => []Consistent
  <1>1. IInv => Consistent
    BY DEF IInv
  <1>. QED
    BY <1>1, InitEstablishes, NextPreserves, PTL DEF Spec

\* The types of the arena's vectors, for any identifier width.
THEOREM TypeAlways == Spec => []TypeOK
  <1>1. IInv => TypeOK
    BY DEF IInv
  <1>. QED
    BY <1>1, InitEstablishes, NextPreserves, PTL DEF Spec

-----------------------------------------------------------------------------
(* What no step may do. *)

\* The invariant in the form the step proofs use.
LEMMA InvGives ==
    ASSUME IInv
    PROVE  /\ arena \in Arenas /\ WellFormed(arena) /\ Len(arena.values) <= DEAD
           /\ IssuedLen(arena) \in Nat /\ IssuedLen(arena) <= IdLimit /\ Ids \subseteq Nat
           /\ call \in Calls
           /\ Truncating => /\ call.raw - 1 \in Ids /\ IdFrom(call.raw - 1) = call.raw - 1
                            /\ call.raw - 1 < IssuedLen(arena)
                            /\ call.raw - 1 >= call.issued
  <1>1. /\ arena \in Arenas /\ WellFormed(arena) /\ Len(arena.values) <= DEAD
        /\ IssuedLen(arena) \in Nat /\ IssuedLen(arena) <= IdLimit /\ Ids \subseteq Nat
        /\ call \in Calls
    BY WidthAssumption DEF IInv, TypeOK, Consistent, SlotsFit, IdsFit, Arenas, IssuedLen, Ids
  <1>2. ASSUME Truncating
        PROVE  /\ call.raw - 1 \in Ids /\ IdFrom(call.raw - 1) = call.raw - 1
               /\ call.raw - 1 < IssuedLen(arena)
               /\ call.raw - 1 >= call.issued
    <2>1. /\ call.raw \in Nat /\ call.issued \in Nat /\ call.issued < call.raw
          /\ call.raw <= IssuedLen(arena)
      BY <1>1, <1>2 DEF Truncating, Calls, IInv, Visited
    <2>2. call.raw - 1 \in Nat /\ call.raw - 1 < IdLimit
      BY <1>1, <2>1, WidthAssumption
    <2>. QED
      BY <1>1, <2>1, <2>2, IdFromFacts DEF Fits
  <1>. QED
    BY <1>1, <1>2

\* No step but those that replace the arena revives an id.
LEMMA DeadStep ==
    IInv /\ [Next]_vars =>
        [\/ Clear
         \/ \E w \in Wires : Deserialize(w)
         \/ \A id \in Ids : id < IssuedLen(arena) /\ id < IssuedLen(arena')
                              /\ ~contains(arena, id) => ~contains(arena', id)]_vars
  <1>. DEFINE Dies == \A id \in Ids : id < IssuedLen(arena) /\ id < IssuedLen(arena')
                                        /\ ~contains(arena, id) => ~contains(arena', id)
  <1>. SUFFICES ASSUME IInv, Next
                PROVE  Clear \/ (\E w \in Wires : Deserialize(w)) \/ Dies
    OBVIOUS
  <1>1. /\ arena \in Arenas /\ WellFormed(arena) /\ Len(arena.values) <= DEAD
        /\ IssuedLen(arena) \in Nat /\ Ids \subseteq Nat /\ call \in Calls
    BY InvGives
  \* a step that keeps the ids outside gone, the dead ones among them
  <1>2. ASSUME NEW gone, Kept(arena, arena', IssuedLen(arena), gone),
               \A id \in gone : contains(arena, id)
        PROVE  Dies
    BY <1>1, <1>2 DEF Kept
  <1>3. ASSUME NEW v \in Values, Push(v)
        PROVE  Dies
    <2>1. Kept(arena, arena', IssuedLen(arena), {})
      BY <1>1, <1>3, PushContents DEF Push
    <2>. QED
      BY <1>2, <2>1
  <1>4. ASSUME NEW id \in Ids, contains(arena, id), arena' = remove(arena, id)
        PROVE  Dies
    <2>1. Kept(arena, arena', IssuedLen(arena), {id})
      BY <1>1, <1>4, RemoveContents
    <2>. QED
      BY <1>2, <1>4, <2>1
  <1>5. ASSUME NEW id \in Ids, NEW v \in Values, Write(id, v)
        PROVE  Dies
    <2>1. Kept(arena, arena', IssuedLen(arena), {id}) /\ contains(arena, id)
      BY <1>1, <1>5, WriteContents DEF Write
    <2>. QED
      BY <1>2, <2>1
  <1>6. CASE arena' = arena
    BY <1>6
  <1>7. CASE TruncateStep
    <2>1. /\ IdFrom(call.raw - 1) \in Ids
          /\ arena' = remove_if_live(arena, IdFrom(call.raw - 1))
      BY <1>7, InvGives DEF TruncateStep
    <2>. QED
      BY <1>4, <1>6, <2>1 DEF remove_if_live
  <1>8. CASE TruncateUnwind
    BY <1>4, <1>8, InvGives DEF TruncateUnwind
  <1>9. CASE TruncateEnd
    <2>1. arena' = cut(arena, call.issued) /\ call.issued \in Nat
      BY <1>1, <1>9 DEF TruncateEnd, Calls
    <2>. SUFFICES ASSUME NEW id \in Ids, id < IssuedLen(arena), id < IssuedLen(arena'),
                         ~contains(arena, id)
                  PROVE  ~contains(arena', id)
      OBVIOUS
    <2>2. id < call.issued
      <3>1. IssuedLen(arena') = IF call.issued < IssuedLen(arena) THEN call.issued ELSE IssuedLen(arena)
        BY <1>1, <2>1, TruncateFacts DEF cut, Arenas, IssuedLen
      <3>. QED
        BY <1>1, <2>1, <3>1
    <2>3. id + 1 \in Nat /\ id + 1 <= IssuedLen(arena) /\ id + 1 <= call.issued /\ id \in 0 .. (id + 1) - 1
      BY <1>1, <2>1, <2>2
    <2>4. Kept(arena, arena', id + 1, {})
      BY <1>1, <2>1, <2>3, CutContents
    <2>. QED
      BY <2>3, <2>4 DEF Kept
  <1>. QED
    BY <1>3, <1>4, <1>5, <1>6, <1>7, <1>8, <1>9 DEF Next, Remove, TruncateBegin

\* An id that was issued and removed stays dead until clear or deserialization
\* starts a new epoch or a truncation takes it back: push never revives it.
THEOREM DeadStaysDeadAlways == Spec => DeadStaysDead
  BY DeadStep, InitEstablishes, NextPreserves, PTL DEF Spec, DeadStaysDead

\* No step of a truncation touches an id below its mark.
LEMMA SparingStep ==
    IInv /\ [Next]_vars =>
        [call.busy => \A id \in Ids : contains(arena, id) /\ id < call.issued =>
             contains(arena', id) /\ get(arena', id) = get(arena, id)]_vars
  <1>. SUFFICES ASSUME IInv, Next, call.busy,
                       NEW id \in Ids, contains(arena, id), id < call.issued
                PROVE  contains(arena', id) /\ get(arena', id) = get(arena, id)
    OBVIOUS
  <1>1. /\ arena \in Arenas /\ WellFormed(arena) /\ Len(arena.values) <= DEAD
        /\ IssuedLen(arena) \in Nat /\ Ids \subseteq Nat /\ call \in Calls
    BY InvGives
  <1>2. id \in 0 .. IssuedLen(arena) - 1 /\ call.issued \in Nat
    BY <1>1 DEF contains, Calls
  <1>3. ASSUME Truncating, contains(arena, call.raw - 1), arena' = remove(arena, call.raw - 1)
        PROVE  contains(arena', id) /\ get(arena', id) = get(arena, id)
    <2>1. call.raw - 1 \in Ids /\ call.raw - 1 # id
      BY <1>1, <1>2, <1>3, InvGives
    <2>2. Kept(arena, arena', IssuedLen(arena), {call.raw - 1})
      BY <1>1, <1>3, <2>1, RemoveContents
    <2>. QED
      BY <1>2, <2>1, <2>2 DEF Kept
  <1>4. CASE TruncateStep
    <2>1. Truncating /\ arena' = remove_if_live(arena, call.raw - 1)
      BY <1>4, InvGives DEF TruncateStep
    <2>. QED
      BY <1>3, <2>1 DEF remove_if_live
  <1>5. CASE TruncateUnwind
    BY <1>3, <1>5, InvGives DEF TruncateUnwind
  <1>6. CASE TruncateEnd
    <2>1. arena' = cut(arena, call.issued)
      BY <1>6 DEF TruncateEnd
    <2>2. id + 1 \in Nat /\ id + 1 <= IssuedLen(arena) /\ id + 1 <= call.issued /\ id \in 0 .. (id + 1) - 1
      BY <1>1, <1>2
    <2>3. Kept(arena, arena', id + 1, {})
      BY <1>1, <1>2, <2>1, <2>2, CutContents
    <2>. QED
      BY <2>2, <2>3 DEF Kept
  <1>. QED
    BY <1>4, <1>5, <1>6
    DEF Next, Push, Remove, Write, Clear, Deserialize, TruncateBegin, Idle

\* A step that ends or interrupts truncate_issued(n) touched no id below n,
\* wherever swap_remove moved its payload.
THEOREM TruncateSparesAlways == Spec => TruncateSpares
  BY SparingStep, InitEstablishes, NextPreserves, PTL DEF Spec, TruncateSpares

-----------------------------------------------------------------------------
(* Serialization loses nothing. *)

\* Encoding what was decoded from an accepted wire gives the wire back.
LEMMA EncodeDecode ==
    ASSUME NEW w \in Wire, Accepted(w)
    PROVE  Encode(Decode(w)) = w
  <1>. DEFINE n == w.next_id
              k == Len(w.entries)
              a == Decode(w)
  <1>1. /\ n \in Nat /\ k \in Nat /\ w.entries \in Seq((0 .. DEAD) \X Values)
        /\ w = [next_id |-> n, entries |-> w.entries]
    BY WidthAssumption DEF Wire
  <1>2. \A i \in 1 .. k : w.entries[i] = <<w.entries[i][1], w.entries[i][2]>>
    BY <1>1
  <1>3. \A i \in 1 .. k : IdFrom(w.entries[i][1]) = w.entries[i][1]
    BY DEF Accepted, Fits
  <1>4. /\ a.values = [i \in 1 .. k |-> w.entries[i][2]]
        /\ a.slot_ids = [i \in 1 .. k |-> IdFrom(w.entries[i][1])]
    BY DEF Decode
  <1>5. Len(a.slot_ids) = k
    BY <1>1, <1>4
  <1>6. Len(a.locations) = n
    <2>1. DOMAIN a.locations = 1 .. n
      BY DEF Decode
    <2>2. a.locations \in Seq(Nat)
      BY DecodeWellFormed DEF Arenas
    <2>. HIDE DEF a, n
    <2>. QED
      BY <1>1, <2>1, <2>2
  <1>. HIDE DEF n, k, a
  <1>7. [i \in 1 .. k |-> <<a.slot_ids[i], a.values[i]>>] = w.entries
    <2>1. \A i \in 1 .. k : <<a.slot_ids[i], a.values[i]>> = w.entries[i]
      BY <1>2, <1>3, <1>4
    <2>2. w.entries = [i \in 1 .. k |-> w.entries[i]]
      BY <1>1 DEF k
    <2>. QED
      BY <2>1, <2>2
  <1>8. Encode(a) = [next_id |-> n, entries |-> w.entries]
    BY <1>5, <1>6, <1>7 DEF Encode, IssuedLen
  <1>. QED
    BY <1>1, <1>8 DEF a

\* An arena with no more ids than the backing type has values is accepted,
\* unless its cursor is the sentinel.
LEMMA EncodeAccepted ==
    ASSUME NEW a \in Arenas, WellFormed(a), IssuedLen(a) <= IdLimit, IssuedLen(a) # DEAD
    PROVE  Accepted(Encode(a))
  <1>. DEFINE n == IssuedLen(a)
              k == Len(a.slot_ids)
              w == Encode(a)
  <1>1. /\ k \in Nat /\ n \in Nat /\ a.slot_ids \in Seq(Ids)
        /\ \A s \in 0 .. k - 1 : /\ At(a.slot_ids, s) \in 0 .. n - 1
                                 /\ At(a.locations, At(a.slot_ids, s)) = s
    BY WellFormedFacts
  <1>2. n <= IdLimit /\ IdLimit \in Nat
    BY WidthAssumption
  <1>3. /\ w.next_id = n
        /\ Len(w.entries) = k
        /\ \A i \in 1 .. k : w.entries[i][1] = At(a.slot_ids, i - 1) /\ i - 1 \in 0 .. k - 1
    BY <1>1 DEF Encode, At
  <1>. HIDE DEF n, k, w
  <1>4. n > 0 => Fits(n - 1)
    BY <1>1, <1>2, IdFromFacts
  <1>5. \A i \in 1 .. k : w.entries[i][1] \in 0 .. n - 1 /\ Fits(w.entries[i][1])
    <2>. SUFFICES ASSUME NEW i \in 1 .. k
                  PROVE  w.entries[i][1] \in 0 .. n - 1 /\ Fits(w.entries[i][1])
      OBVIOUS
    <2>1. w.entries[i][1] \in 0 .. n - 1
      BY <1>1, <1>3
    <2>2. w.entries[i][1] \in Nat /\ w.entries[i][1] < IdLimit
      BY <1>1, <1>2, <2>1
    <2>. QED
      BY <2>1, <2>2, IdFromFacts
  <1>6. ASSUME NEW i \in 1 .. k, NEW j \in 1 .. i - 1
        PROVE  w.entries[j][1] # w.entries[i][1]
    <2>1. j \in 1 .. k /\ j # i
      BY <1>1
    <2>2. i - 1 = At(a.locations, w.entries[i][1]) /\ j - 1 = At(a.locations, w.entries[j][1])
      BY <1>1, <1>3, <2>1
    <2>. QED
      BY <2>1, <2>2
  <1>7. n # DEAD
    BY DEF n
  <1>. QED
    BY <1>1, <1>3, <1>4, <1>5, <1>6, <1>7 DEF Accepted, w

\* Decoding gives the arena back: payloads, dense order, holes and cursor.
LEMMA DecodeEncode ==
    ASSUME NEW a \in Arenas, WellFormed(a), IssuedLen(a) <= IdLimit, Len(a.values) <= DEAD
    PROVE  Decode(Encode(a)) = a
  <1>. DEFINE n == IssuedLen(a)
              k == Len(a.slot_ids)
              w == Encode(a)
              b == Decode(w)
              SlotsOf(raw) == {i \in 1 .. Len(w.entries) : w.entries[i][1] = raw}
  <1>1. /\ a.values \in Seq(Values) /\ a.slot_ids \in Seq(Ids) /\ a.locations \in Seq(Nat)
        /\ Len(a.values) = k /\ k \in Nat /\ n \in Nat /\ Len(a.locations) = n
        /\ k <= DEAD /\ DEAD \in Nat
        /\ a = [values |-> a.values, slot_ids |-> a.slot_ids, locations |-> a.locations]
    BY WidthAssumption DEF Arenas, WellFormed, IssuedLen
  <1>2. \A i \in 1 .. k : /\ a.slot_ids[i] \in 0 .. n - 1
                          /\ a.locations[a.slot_ids[i] + 1] = i - 1
    <2>1. \A s \in 0 .. k - 1 : /\ At(a.slot_ids, s) \in 0 .. n - 1
                                /\ At(a.locations, At(a.slot_ids, s)) = s
      BY WellFormedFacts
    <2>. SUFFICES ASSUME NEW i \in 1 .. k
                  PROVE  /\ a.slot_ids[i] \in 0 .. n - 1
                         /\ a.locations[a.slot_ids[i] + 1] = i - 1
      OBVIOUS
    <2>2. i - 1 \in 0 .. k - 1 /\ (i - 1) + 1 = i
      BY <1>1
    <2>. QED
      BY <2>1, <2>2 DEF At
  <1>3. \A r \in 1 .. n : a.locations[r] # DEAD =>
            a.locations[r] + 1 \in 1 .. k /\ a.slot_ids[a.locations[r] + 1] = r - 1
    <2>1. \A j \in 0 .. n - 1 :
             At(a.locations, j) # DEAD => /\ At(a.locations, j) \in 0 .. k - 1
                                          /\ At(a.slot_ids, At(a.locations, j)) = j
      BY WellFormedFacts
    <2>. SUFFICES ASSUME NEW r \in 1 .. n, a.locations[r] # DEAD
                  PROVE  a.locations[r] + 1 \in 1 .. k /\ a.slot_ids[a.locations[r] + 1] = r - 1
      OBVIOUS
    <2>2. r - 1 \in 0 .. n - 1 /\ (r - 1) + 1 = r
      BY <1>1
    <2>. QED
      BY <1>1, <2>1, <2>2 DEF At
  <1>4. /\ w.next_id = n /\ Len(w.entries) = k
        /\ \A i \in 1 .. k : w.entries[i][1] = a.slot_ids[i] /\ w.entries[i][2] = a.values[i]
    BY <1>1 DEF Encode
  <1>5. \A i \in 1 .. k : IdFrom(a.slot_ids[i]) = a.slot_ids[i]
    <2>. SUFFICES ASSUME NEW i \in 1 .. k
                  PROVE  IdFrom(a.slot_ids[i]) = a.slot_ids[i]
      OBVIOUS
    <2>1. a.slot_ids[i] \in Nat /\ a.slot_ids[i] < IdLimit
      BY <1>1, <1>2, WidthAssumption
    <2>. QED
      BY <2>1, IdFromFacts DEF Fits
  <1>6. b = [values |-> [i \in 1 .. Len(w.entries) |-> w.entries[i][2]],
             slot_ids |-> [i \in 1 .. Len(w.entries) |-> IdFrom(w.entries[i][1])],
             locations |-> [r \in 1 .. w.next_id |->
                              IF SlotsOf(r - 1) = {} THEN DEAD
                              ELSE (CHOOSE i \in SlotsOf(r - 1) : TRUE) - 1]]
    BY DEF Decode
  <1>. HIDE DEF n, k, w, b
  <1>7. b.values = a.values
    <2>1. a.values = [i \in 1 .. k |-> a.values[i]]
      BY <1>1
    <2>. QED
      BY <1>4, <1>6, <2>1
  <1>8. b.slot_ids = a.slot_ids
    <2>1. a.slot_ids = [i \in 1 .. k |-> a.slot_ids[i]]
      BY <1>1 DEF k
    <2>2. b.slot_ids = [i \in 1 .. k |-> IdFrom(w.entries[i][1])]
      BY <1>4, <1>6
    <2>. QED
      BY <1>4, <1>5, <2>1, <2>2
  <1>9. b.locations = a.locations
    <2>1. a.locations = [r \in 1 .. n |-> a.locations[r]]
      BY <1>1
    <2>2. ASSUME NEW r \in 1 .. n
          PROVE  a.locations[r] = IF SlotsOf(r - 1) = {} THEN DEAD
                                  ELSE (CHOOSE i \in SlotsOf(r - 1) : TRUE) - 1
      <3>1. CASE a.locations[r] = DEAD
        <4>1. ASSUME NEW i \in 1 .. k
              PROVE  w.entries[i][1] # r - 1
          <5>1. w.entries[i][1] = r - 1 => a.locations[(r - 1) + 1] = i - 1
            BY <1>2, <1>4
          <5>. QED
            BY <1>1, <3>1, <5>1
        <4>2. SlotsOf(r - 1) = {}
          BY <1>4, <4>1
        <4>. QED
          BY <3>1, <4>2
      <3>2. CASE a.locations[r] # DEAD
        <4>. DEFINE c == a.locations[r] + 1
        <4>1. c \in 1 .. k /\ a.slot_ids[c] = r - 1
          BY <1>3, <3>2
        <4>2. ASSUME NEW i \in 1 .. k, w.entries[i][1] = r - 1
              PROVE  i = c
          <5>1. a.locations[(r - 1) + 1] = i - 1
            BY <1>2, <1>4, <4>2
          <5>. QED
            BY <1>1, <5>1
        <4>3. w.entries[c][1] = r - 1
          BY <1>4, <4>1
        <4>4. c - 1 = a.locations[r]
          BY <1>1
        <4>. HIDE DEF c
        <4>5. SlotsOf(r - 1) = {c}
          BY <1>4, <4>1, <4>2, <4>3
        <4>. QED
          BY <4>4, <4>5
      <3>. QED
        BY <3>1, <3>2
    <2>3. b.locations = [r \in 1 .. n |-> IF SlotsOf(r - 1) = {} THEN DEAD
                                          ELSE (CHOOSE i \in SlotsOf(r - 1) : TRUE) - 1]
      BY <1>4, <1>6
    <2>. QED
      BY <2>1, <2>2, <2>3
  <1>10. b = [values |-> b.values, slot_ids |-> b.slot_ids, locations |-> b.locations]
    BY <1>6
  <1>. QED
    BY <1>1, <1>7, <1>8, <1>9, <1>10 DEF w, b

\* Deserialize undoes Serialize for every identifier type narrower than usize:
\* every reachable arena, whatever its holes, its dense order and its cursor,
\* is accepted and comes back equal.  (With ids as wide as usize an arena that
\* issued usize::MAX of them would be refused.)
THEOREM RoundTripAlways ==
    ASSUME IdLimit < DEAD
    PROVE  Spec => []RoundTrip
  <1>1. IInv => RoundTrip
    <2>. SUFFICES ASSUME IInv
                  PROVE  RoundTrip
      OBVIOUS
    <2>1. /\ arena \in Arenas /\ WellFormed(arena) /\ IssuedLen(arena) <= IdLimit
          /\ Len(arena.values) <= DEAD /\ IssuedLen(arena) # DEAD
      BY InvGives, WidthAssumption
    <2>. QED
      BY <2>1, EncodeAccepted, DecodeEncode DEF RoundTrip
  <1>. QED
    BY <1>1, InitEstablishes, NextPreserves, PTL DEF Spec

\* No accepted wire loses anything: serializing the result gives it back.
THEOREM WiresKeptAlways == Spec => WiresKept
  <1>1. [Next]_vars => [\A w \in Wires : Deserialize(w) => Encode(arena') = w]_vars
    <2>. SUFFICES ASSUME NEW w \in Wires, Deserialize(w)
                  PROVE  Encode(arena') = w
      OBVIOUS
    <2>1. arena' = Decode(w) /\ Accepted(w) /\ w \in Wire
      BY WiresAssumption DEF Deserialize
    <2>2. Encode(Decode(w)) = w
      BY <2>1, EncodeDecode
    <2>. QED
      BY <2>1, <2>2
  <1>. QED
    BY <1>1, PTL DEF Spec, WiresKept

-----------------------------------------------------------------------------
(* The arena of StableArenaOptionVec is an arena. *)

\* Each action with results is the action without them, and the results.
LEMMA CallsOnly ==
    /\ RInit => Init
    /\ [RNext]_<<vars, ret>> => [Next]_vars
  <1>1. RNext => Next
    BY DEF RNext, RPush, RRemove, RWrite, RClear, RDeserialize, RTruncateBegin,
           RTruncateStep, RTruncateUnwind, RTruncateEnd, Next
  <1>. QED
    BY <1>1 DEF RInit, vars

\* Recording what the calls return adds no behaviour: every theorem about Spec
\* is one about RSpec, the specification the stable_arena run checks.
THEOREM ReturnsAddNothing == RSpec => Spec
  BY CallsOnly, PTL DEF RSpec, Spec

\* So the invariant of the arena carries over.
LEMMA WithReturns ==
    /\ RInit => IInv
    /\ IInv /\ [RNext]_<<vars, ret>> => IInv'
  BY CallsOnly, InitEstablishes, NextPreserves

-----------------------------------------------------------------------------
(* The vector of optional payloads. *)

\* The vector by ids: what contains and get answer.
LEMMA OptionVecFacts ==
    ASSUME NEW a \in Arenas, WellFormed(a), NEW n, n = IssuedLen(a)
    PROVE  /\ n \in Nat
           /\ OptionVecOf(a) \in [1 .. n -> Values \cup {None}]
           /\ OptionVecOf(a) \in Seq(Values \cup {None}) /\ Len(OptionVecOf(a)) = n
           /\ \A j \in 0 .. n - 1 :
                /\ At(OptionVecOf(a), j) = IF contains(a, j) THEN get(a, j) ELSE None
                /\ contains(a, j) <=> At(OptionVecOf(a), j) # None
  <1>. DEFINE k == Len(a.slot_ids)
              m == OptionVecOf(a)
  <1>1. /\ a.values \in Seq(Values) /\ Len(a.values) = k /\ k \in Nat /\ n \in Nat
        /\ \A j \in 0 .. n - 1 : At(a.locations, j) # DEAD => At(a.locations, j) \in 0 .. k - 1
    BY WellFormedFacts
  <1>2. \A j \in 0 .. n - 1 : /\ contains(a, j) <=> At(a.locations, j) # DEAD
                              /\ contains(a, j) => get(a, j) \in Values
    <2>1. \A s \in 0 .. k - 1 : At(a.values, s) \in Values
      BY <1>1 DEF At
    <2>2. \A j \in 0 .. n - 1 : contains(a, j) <=> At(a.locations, j) # DEAD
      BY <1>1 DEF contains
    <2>. HIDE DEF k
    <2>. QED
      BY <1>1, <2>1, <2>2 DEF get, live_slot
  <1>3. m = [r \in 1 .. n |-> IF contains(a, r - 1) THEN get(a, r - 1) ELSE None]
    <2>1. \A r \in 1 .. n : a.locations[r] = DEAD <=> ~contains(a, r - 1)
      <3>. SUFFICES ASSUME NEW r \in 1 .. n
                    PROVE  a.locations[r] = DEAD <=> ~contains(a, r - 1)
        OBVIOUS
      <3>1. r - 1 \in 0 .. n - 1 /\ (r - 1) + 1 = r
        BY <1>1
      <3>. QED
        BY <1>2, <3>1 DEF At
    <2>. QED
      BY <2>1 DEF OptionVecOf
  <1>. HIDE DEF k, m
  <1>4. m \in [1 .. n -> Values \cup {None}]
    <2>1. \A r \in 1 .. n : r - 1 \in 0 .. n - 1
      BY <1>1
    <2>. QED
      BY <1>2, <1>3, <2>1
  <1>5. m \in Seq(Values \cup {None}) /\ Len(m) = n
    BY <1>1, <1>4, FunctionIsSeq
  <1>6. \A j \in 0 .. n - 1 : At(m, j) = IF contains(a, j) THEN get(a, j) ELSE None
    <2>. SUFFICES ASSUME NEW j \in 0 .. n - 1
                  PROVE  At(m, j) = IF contains(a, j) THEN get(a, j) ELSE None
      OBVIOUS
    <2>1. j + 1 \in 1 .. n /\ (j + 1) - 1 = j
      BY <1>1
    <2>. QED
      BY <1>3, <2>1 DEF At
  <1>. QED
    BY <1>1, <1>2, <1>4, <1>5, <1>6, NoneAssumption DEF m

\* A vector that answers for each id as the arena does is its vector.
LEMMA OptionVecIs ==
    ASSUME NEW a \in Arenas, WellFormed(a), NEW S, NEW m \in Seq(S), Len(m) = IssuedLen(a),
           \A j \in 0 .. IssuedLen(a) - 1 :
               At(m, j) = IF contains(a, j) THEN get(a, j) ELSE None
    PROVE  OptionVecOf(a) = m
  <1>. DEFINE n == IssuedLen(a)
              o == OptionVecOf(a)
  <1>1. /\ n \in Nat /\ o \in [1 .. n -> Values \cup {None}]
        /\ \A j \in 0 .. n - 1 : At(o, j) = IF contains(a, j) THEN get(a, j) ELSE None
    BY OptionVecFacts
  <1>2. m = [r \in 1 .. n |-> m[r]] /\ Len(m) = n
    OBVIOUS
  <1>3. \A j \in 0 .. n - 1 : At(m, j) = IF contains(a, j) THEN get(a, j) ELSE None
    OBVIOUS
  <1>. HIDE DEF n, o
  <1>4. ASSUME NEW r \in 1 .. n
        PROVE  o[r] = m[r]
    <2>1. r - 1 \in 0 .. n - 1 /\ (r - 1) + 1 = r
      BY <1>1
    <2>2. At(o, r - 1) = At(m, r - 1)
      BY <1>1, <1>3, <2>1
    <2>. QED
      BY <2>1, <2>2 DEF At
  <1>. QED
    BY <1>1, <1>2, <1>4 DEF o

\* push appends to the vector.
LEMMA PushVec ==
    ASSUME NEW a \in Arenas, WellFormed(a), CanPush(a), NEW v \in Values
    PROVE  OptionVecOf(push(a, v)) = Append(OptionVecOf(a), v)
  <1>. DEFINE n == IssuedLen(a)
              m == OptionVecOf(a)
              b == push(a, v)
              S == Values \cup {None}
  <1>1. /\ n \in Nat /\ m \in Seq(S) /\ Len(m) = n
        /\ \A j \in 0 .. n - 1 : At(m, j) = IF contains(a, j) THEN get(a, j) ELSE None
    BY OptionVecFacts
  <1>2. b \in Arenas /\ WellFormed(b) /\ IssuedLen(b) = n + 1
    BY PushPreserves
  <1>3. Kept(a, b, n, {}) /\ contains(b, n) /\ get(b, n) = v
    BY PushContents
  <1>4. v \in S
    OBVIOUS
  <1>. HIDE DEF n, m, b, S
  <1>5. /\ Append(m, v) \in Seq(S) /\ Len(Append(m, v)) = n + 1 /\ At(Append(m, v), n) = v
        /\ \A j \in 0 .. n - 1 : At(Append(m, v), j) = At(m, j)
    BY <1>1, <1>4, AppendFacts
  <1>6. \A j \in 0 .. (n + 1) - 1 :
          At(Append(m, v), j) = IF contains(b, j) THEN get(b, j) ELSE None
    <2>1. \A j \in 0 .. n - 1 : At(Append(m, v), j) = IF contains(b, j) THEN get(b, j) ELSE None
      BY <1>1, <1>3, <1>5 DEF Kept
    <2>2. \A j \in 0 .. (n + 1) - 1 : j = n \/ j \in 0 .. n - 1
      BY <1>1
    <2>. QED
      BY <1>3, <1>5, <2>1, <2>2
  <1>7. OptionVecOf(b) = Append(m, v)
    BY <1>2, <1>5, <1>6, OptionVecIs
  <1>. QED
    BY <1>7 DEF b, m

\* A step that keeps the other ids and leaves x under id sets one entry.
LEMMA SetVec ==
    ASSUME NEW a \in Arenas, WellFormed(a), NEW b \in Arenas, WellFormed(b),
           IssuedLen(b) = IssuedLen(a), NEW id \in 0 .. IssuedLen(a) - 1,
           Kept(a, b, IssuedLen(a), {id}),
           NEW x \in Values \cup {None}, x = IF contains(b, id) THEN get(b, id) ELSE None
    PROVE  OptionVecOf(b) = SetAt(OptionVecOf(a), id, x)
  <1>. DEFINE n == IssuedLen(a)
              m == OptionVecOf(a)
              S == Values \cup {None}
              t == SetAt(m, id, x)
  <1>1. /\ n \in Nat /\ m \in Seq(S) /\ Len(m) = n
        /\ \A j \in 0 .. n - 1 : At(m, j) = IF contains(a, j) THEN get(a, j) ELSE None
    BY OptionVecFacts
  <1>2. x \in S /\ id \in 0 .. n - 1 /\ Kept(a, b, n, {id}) /\ IssuedLen(b) = n
    OBVIOUS
  <1>. HIDE DEF n, m, S
  <1>3. /\ t \in Seq(S) /\ Len(t) = n /\ At(t, id) = x
        /\ \A j \in 0 .. n - 1 : j # id => At(t, j) = At(m, j)
    BY <1>1, <1>2, SetAtFacts
  <1>. HIDE DEF t
  <1>4. \A j \in 0 .. n - 1 : At(t, j) = IF contains(b, j) THEN get(b, j) ELSE None
    BY <1>1, <1>2, <1>3 DEF Kept
  <1>5. OptionVecOf(b) = t
    BY <1>2, <1>3, <1>4, OptionVecIs
  <1>. QED
    BY <1>5 DEF t, m

\* What a decoded arena answers for an id is read off the wire.
LEMMA DecodeVec ==
    ASSUME NEW w \in Wire, Accepted(w)
    PROVE  OptionVecOf(Decode(w)) = WireModel(w) /\ Len(WireModel(w)) = w.next_id
  <1>. DEFINE n == w.next_id
              k == Len(w.entries)
              a == Decode(w)
              Raw(i) == w.entries[i][1]
              SlotsOf(raw) == {i \in 1 .. k : Raw(i) = raw}
              m == OptionVecOf(a)
  <1>1. /\ n \in Nat /\ k \in Nat /\ DEAD \in Nat /\ n <= DEAD
        /\ \A i \in 1 .. k : Raw(i) \in Nat
    BY WidthAssumption DEF Wire
  <1>2. \A i, j \in 1 .. k : Raw(i) = Raw(j) => i = j
    <2>1. \A i \in 1 .. k : \A j \in 1 .. i - 1 : Raw(j) # Raw(i)
      BY DEF Accepted
    <2>. QED
      BY <1>1, <2>1
  <1>3. a \in Arenas /\ WellFormed(a) /\ Len(a.values) <= DEAD
    BY DecodeWellFormed
  <1>4. /\ a.values = [i \in 1 .. k |-> w.entries[i][2]]
        /\ a.locations = [r \in 1 .. n |-> IF SlotsOf(r - 1) = {} THEN DEAD
                                           ELSE (CHOOSE i \in SlotsOf(r - 1) : TRUE) - 1]
    BY DEF Decode
  <1>5. IssuedLen(a) = n
    <2>1. a.locations \in Seq(Nat) /\ DOMAIN a.locations = 1 .. n
      BY <1>3, <1>4 DEF Arenas
    <2>. HIDE DEF a, n
    <2>. QED
      BY <1>1, <2>1 DEF IssuedLen
  <1>6. k <= DEAD
    <2>1. Len(a.values) \in Nat /\ DOMAIN a.values = 1 .. k /\ a.values \in Seq(Values)
      BY <1>3, <1>4 DEF Arenas
    <2>. HIDE DEF a, k
    <2>. QED
      BY <1>1, <1>3, <2>1
  <1>. HIDE DEF a, m, n, k
  <1>7. ASSUME NEW r \in 1 .. n
        PROVE  (IF a.locations[r] = DEAD THEN None ELSE get(a, r - 1))
                 = IF \E i \in 1 .. k : Raw(i) = r - 1
                   THEN w.entries[CHOOSE i \in 1 .. k : Raw(i) = r - 1][2]
                   ELSE None
    <2>1. CASE \E i \in 1 .. k : Raw(i) = r - 1
      <3>1. PICK c \in 1 .. k : Raw(c) = r - 1
        BY <2>1
      <3>2. \A i \in 1 .. k : Raw(i) = r - 1 => i = c
        BY <1>2, <3>1
      <3>. HIDE DEF Raw
      <3>3. SlotsOf(r - 1) = {c} /\ (CHOOSE i \in 1 .. k : Raw(i) = r - 1) = c
        BY <3>1, <3>2
      <3>4. a.locations[r] = c - 1
        BY <1>4, <3>3
      <3>5. c - 1 # DEAD /\ (c - 1) + 1 = c /\ (r - 1) + 1 = r
        BY <1>1, <1>6
      <3>6. get(a, r - 1) = w.entries[c][2]
        BY <1>4, <3>4, <3>5 DEF get, live_slot, At
      <3>. QED
        BY <2>1, <3>3, <3>4, <3>5, <3>6
    <2>2. CASE ~ \E i \in 1 .. k : Raw(i) = r - 1
      <3>1. SlotsOf(r - 1) = {}
        BY <2>2
      <3>. QED
        BY <1>4, <2>2, <3>1
    <2>. QED
      BY <2>1, <2>2
  <1>8. m = [r \in 1 .. n |-> IF a.locations[r] = DEAD THEN None ELSE get(a, r - 1)]
    BY <1>5 DEF m, OptionVecOf
  <1>9. WireModel(w) = [r \in 1 .. n |->
                          IF \E i \in 1 .. k : Raw(i) = r - 1
                          THEN w.entries[CHOOSE i \in 1 .. k : Raw(i) = r - 1][2]
                          ELSE None]
    BY DEF WireModel, n, k
  <1>10. m = WireModel(w)
    BY <1>7, <1>8, <1>9
  <1>11. Len(m) = n
    BY <1>3, <1>5, OptionVecFacts DEF m
  <1>. QED
    BY <1>10, <1>11 DEF m, a, n

-----------------------------------------------------------------------------
(* The simulation of OptionVec. *)

\* The empty arena is the empty vector.
LEMMA EmptyVec == OptionVecOf(EmptyArena) = <<>>
  BY DEF OptionVecOf, EmptyArena, IssuedLen

\* The initial states map to the initial state.
LEMMA InitSimulates == RInit => Abstract!Init
  BY EmptyVec DEF RInit, Init, Abstract!Init

\* Removing a live id, by remove or inside a truncation, takes it from the
\* vector.
LEMMA TakeSimulates ==
    ASSUME IInv, NEW id \in Ids, contains(arena, id), arena' = remove(arena, id),
           Returns("take", id, get(arena, id))
    PROVE  Abstract!Next
  <1>. DEFINE n == IssuedLen(arena)
              m == OptionVecOf(arena)
  <1>1. /\ arena \in Arenas /\ WellFormed(arena) /\ Len(arena.values) <= DEAD
        /\ n \in Nat /\ Ids \subseteq Nat
    BY InvGives
  <1>2. id \in 0 .. n - 1
    BY <1>1 DEF contains
  <1>3. arena' \in Arenas /\ WellFormed(arena') /\ IssuedLen(arena') = n
    BY <1>1, RemovePreserves
  <1>4. Kept(arena, arena', n, {id}) /\ ~contains(arena', id)
    BY <1>1, RemoveContents
  <1>5. OptionVecOf(arena') = SetAt(m, id, None)
    BY <1>1, <1>2, <1>3, <1>4, SetVec
  <1>6. Len(m) = n /\ At(m, id) = get(arena, id) /\ At(m, id) # None
    BY <1>1, <1>2, OptionVecFacts
  <1>. HIDE DEF n
  <1>7. id \in Abstract!Indices(m) /\ Abstract!Take(id)
    BY <1>2, <1>5, <1>6
    DEF Abstract!Take, Abstract!Live, Abstract!Indices, Abstract!At, At, Abstract!SetAt, SetAt,
        Returns
  <1>. QED
    BY <1>7 DEF Abstract!Next

\* Every call is the step of the vector with the same name.
LEMMA StepSimulates ==
    IInv /\ IInv' /\ [RNext]_<<vars, ret>> => [Abstract!Next]_<<OptionVecOf(arena), ret>>
  <1>. SUFFICES ASSUME IInv, IInv', [RNext]_<<vars, ret>>
                PROVE  [Abstract!Next]_<<OptionVecOf(arena), ret>>
    OBVIOUS
  <1>. DEFINE n == IssuedLen(arena)
              m == OptionVecOf(arena)
  <1>1. /\ arena \in Arenas /\ WellFormed(arena) /\ Len(arena.values) <= DEAD
        /\ n \in Nat /\ n <= IdLimit /\ Ids \subseteq Nat /\ call \in Calls
        /\ IdLimit \in Nat /\ DEAD \in Nat
    BY InvGives, WidthAssumption
  <1>2. arena' \in Arenas /\ WellFormed(arena')
    BY DEF IInv, TypeOK, Consistent
  <1>3. /\ m \in Seq(Values \cup {None}) /\ Len(m) = n
        /\ \A j \in 0 .. n - 1 :
             /\ At(m, j) = IF contains(arena, j) THEN get(arena, j) ELSE None
             /\ contains(arena, j) <=> At(m, j) # None
    BY <1>1, OptionVecFacts
  <1>4. ASSUME NEW v \in Values, RPush(v)
        PROVE  Abstract!Next
    <2>1. arena' = push(arena, v) /\ CanPush(arena) /\ ret' = <<"push", IdFrom(n), v>>
      BY <1>4 DEF RPush, Push, Returns
    <2>2. OptionVecOf(arena') = Append(m, v)
      BY <1>1, <2>1, PushVec
    <2>3. IdFrom(n) = n /\ n < IdLimit
      BY <1>1, <2>1, PushPreserves DEF CanPush, Fits
    <2>. HIDE DEF n
    <2>4. Abstract!Push(v)
      BY <1>3, <2>1, <2>2, <2>3 DEF Abstract!Push
    <2>. QED
      BY <2>4 DEF Abstract!Next
  <1>5. ASSUME NEW id \in Ids, RRemove(id)
        PROVE  Abstract!Next
    BY <1>5, TakeSimulates DEF RRemove, Remove
  <1>6. ASSUME NEW id \in Ids, NEW v \in Values, RWrite(id, v)
        PROVE  Abstract!Next
    <2>1. /\ arena' = write(arena, id, v) /\ contains(arena, id)
          /\ ret' = <<"write", id, v>>
      BY <1>6 DEF RWrite, Write, Returns
    <2>2. id \in 0 .. n - 1
      BY <1>1, <2>1 DEF contains
    <2>3. IssuedLen(arena') = n
      BY <1>1, <2>1, WritePreserves
    <2>4. Kept(arena, arena', n, {id}) /\ contains(arena', id) /\ get(arena', id) = v
      BY <1>1, <2>1, WriteContents
    <2>5. OptionVecOf(arena') = SetAt(m, id, v)
      BY <1>1, <1>2, <2>2, <2>3, <2>4, SetVec
    <2>6. At(m, id) # None
      BY <1>3, <2>1, <2>2
    <2>. HIDE DEF n
    <2>7. id \in Abstract!Indices(m) /\ Abstract!Write(id, v)
      BY <1>3, <2>1, <2>2, <2>5, <2>6
      DEF Abstract!Write, Abstract!Live, Abstract!Indices, Abstract!At, At, Abstract!SetAt, SetAt
    <2>. QED
      BY <2>7 DEF Abstract!Next
  <1>7. CASE RClear
    <2>1. OptionVecOf(arena') = <<>> /\ ret' = <<"reset", 0, None>>
      BY <1>7, EmptyVec DEF RClear, Clear, Returns
    <2>2. Abstract!Reset(<<>>)
      BY <2>1 DEF Abstract!Reset
    <2>. QED
      BY <2>2 DEF Abstract!Next
  <1>8. ASSUME NEW w \in Wires, RDeserialize(w)
        PROVE  Abstract!Next
    <2>1. arena' = Decode(w) /\ Accepted(w) /\ ret' = <<"reset", w.next_id, None>> /\ w \in Wire
      BY <1>8, WiresAssumption DEF RDeserialize, Deserialize, Returns
    <2>2. OptionVecOf(arena') = WireModel(w) /\ Len(WireModel(w)) = w.next_id
      BY <2>1, DecodeVec
    <2>3. Abstract!Reset(WireModel(w))
      BY <2>1, <2>2 DEF Abstract!Reset
    <2>. QED
      BY <2>1, <2>3 DEF Abstract!Next
  <1>9. ASSUME arena' = arena, ret' = ret
        PROVE  UNCHANGED <<OptionVecOf(arena), ret>>
    BY <1>9
  <1>10. ASSUME NEW issued \in 0 .. DEAD, RTruncateBegin(issued)
         PROVE  UNCHANGED <<OptionVecOf(arena), ret>>
    BY <1>9, <1>10 DEF RTruncateBegin, TruncateBegin
  <1>11. CASE RTruncateStep
    <2>1. /\ Truncating /\ IdFrom(call.raw - 1) \in Ids
          /\ arena' = remove_if_live(arena, IdFrom(call.raw - 1))
      BY <1>11, InvGives DEF RTruncateStep, TruncateStep
    <2>2. CASE contains(arena, IdFrom(call.raw - 1))
      BY <1>11, <2>1, <2>2, TakeSimulates DEF RTruncateStep, Dropping, remove_if_live
    <2>3. CASE ~contains(arena, IdFrom(call.raw - 1))
      BY <1>9, <1>11, <2>1, <2>3 DEF RTruncateStep, Dropping, remove_if_live
    <2>. QED
      BY <2>2, <2>3
  <1>12. CASE RTruncateUnwind
    <2>1. /\ IdFrom(call.raw - 1) \in Ids /\ contains(arena, IdFrom(call.raw - 1))
          /\ arena' = remove(arena, IdFrom(call.raw - 1))
          /\ Returns("take", IdFrom(call.raw - 1), get(arena, IdFrom(call.raw - 1)))
      BY <1>12, InvGives DEF RTruncateUnwind, TruncateUnwind, Dropping
    <2>. QED
      BY <2>1, TakeSimulates
  <1>13. CASE RTruncateEnd
    <2>. DEFINE h == IssuedLen(arena')
                i == call.issued
    <2>1. /\ call.busy /\ i \in Nat /\ call.raw <= i
          /\ arena' = cut(arena, i) /\ ret' = <<"forget", h, None>>
      BY <1>1, <1>13 DEF RTruncateEnd, TruncateEnd, Returns, Calls
    <2>2. h = IF i < n THEN i ELSE n
      BY <1>1, <2>1, TruncateFacts DEF cut, Arenas, IssuedLen
    <2>3. h \in 0 .. n /\ h <= i
      BY <1>1, <2>1, <2>2
    <2>4. ASSUME NEW j \in 0 .. n - 1, j >= h
          PROVE  At(m, j) = None
      <3>1. h < n
        BY <1>1, <2>3, <2>4
      <3>2. j >= call.raw
        <4>1. call.raw \in Nat /\ h = i
          BY <1>1, <2>2, <3>1 DEF Calls
        <4>. QED
          BY <2>1, <2>4, <4>1
      <3>3. At(arena.locations, j) = DEAD
        BY <2>1, <3>2 DEF IInv, Visited, Indices, IssuedLen
      <3>. QED
        BY <1>3, <3>3 DEF contains
    <2>5. Kept(arena, arena', h, {})
      BY <1>1, <2>1, <2>3, CutContents
    <2>6. OptionVecOf(arena') = Truncate(m, h)
      <3>1. /\ Truncate(m, h) \in Seq(Values \cup {None})
            /\ Len(Truncate(m, h)) = h
            /\ \A j \in 0 .. h - 1 : At(Truncate(m, h), j) = At(m, j)
        <4>1. Truncate(m, h) \in Seq(Values \cup {None}) /\ Len(Truncate(m, h)) = h
          BY <1>1, <1>3, <2>3, TruncateFacts
        <4>. QED
          BY <1>3, <2>3, <4>1, TruncateFacts DEF Indices
      <3>2. \A j \in 0 .. h - 1 : j \in 0 .. n - 1
        BY <1>1, <2>3
      <3>3. \A j \in 0 .. h - 1 :
              At(Truncate(m, h), j) = IF contains(arena', j) THEN get(arena', j) ELSE None
        BY <1>3, <2>5, <3>1, <3>2 DEF Kept
      <3>. HIDE DEF m
      <3>. QED
        BY <1>2, <3>1, <3>3, OptionVecIs
    <2>. HIDE DEF n, h
    <2>7. h \in 0 .. Len(m) /\ Abstract!Forget(h)
      BY <1>3, <2>1, <2>3, <2>4, <2>6
      DEF Abstract!Forget, Abstract!Live, Abstract!Indices, Abstract!At, At,
          Abstract!Truncate, Truncate
    <2>. QED
      BY <2>7 DEF Abstract!Next
  <1>14. CASE UNCHANGED <<vars, ret>>
    BY <1>9, <1>14 DEF vars
  <1>. QED
    BY <1>4, <1>5, <1>6, <1>7, <1>8, <1>10, <1>11, <1>12, <1>13, <1>14 DEF RNext

\* Seen through its ids the arena is a vector of optional payloads: every call
\* returns the id or payload that vector returns, no move of swap_remove can
\* be noticed, and a truncation is a series of removals and a cut.
THEOREM OptionVecImplemented == RSpec => ImplementsOptionVec
  BY StepSimulates, InitSimulates, WithReturns, PTL
  DEF RSpec, ImplementsOptionVec, Abstract!Spec

-----------------------------------------------------------------------------
(* Taking back a batch. *)

\* Arena a still holds arena b: the same entries in the slots b has, and the
\* same locations under the ids b has issued.
Older(a, b) ==
    /\ Len(a.slot_ids) >= Len(b.slot_ids)
    /\ IssuedLen(a) >= IssuedLen(b)
    /\ \A s \in Indices(b.slot_ids) : /\ At(a.slot_ids, s) = At(b.slot_ids, s)
                                      /\ At(a.values, s) = At(b.values, s)
    /\ \A j \in Indices(b.locations) : At(a.locations, j) = At(b.locations, j)

\* While a batch is open the arena holds the one it was opened on, and a
\* running truncation goes to the mark.
Holding ==
    /\ call.busy => batch.open /\ call.issued = Mark
    /\ batch.open => /\ batch.before \in Arenas /\ WellFormed(batch.before)
                     /\ Older(arena, batch.before)

BatchInv == IInv /\ Holding

\* The ids of an older arena sit in the front slots, all others behind them.
LEMMA NewerBehind ==
    ASSUME NEW a \in Arenas, WellFormed(a), Len(a.values) <= DEAD,
           NEW b \in Arenas, WellFormed(b), Older(a, b)
    PROVE  \A s \in 0 .. Len(a.slot_ids) - 1 :
               At(a.slot_ids, s) >= IssuedLen(b) <=> s >= Len(b.slot_ids)
  <1>. DEFINE k == Len(a.slot_ids)
              old == Len(b.slot_ids)
              mark == IssuedLen(b)
              n == IssuedLen(a)
  <1>1. /\ k \in Nat /\ n \in Nat /\ Len(a.values) = k
        /\ \A s \in 0 .. k - 1 : /\ At(a.slot_ids, s) \in 0 .. n - 1
                                 /\ At(a.locations, At(a.slot_ids, s)) = s
    BY WellFormedFacts
  <1>2. /\ old \in Nat /\ mark \in Nat
        /\ \A s \in 0 .. old - 1 : At(b.slot_ids, s) \in 0 .. mark - 1
        /\ \A j \in 0 .. mark - 1 : At(b.locations, j) # DEAD => At(b.locations, j) \in 0 .. old - 1
    BY WellFormedFacts
  <1>3. /\ old <= k /\ mark <= n
        /\ \A s \in 0 .. old - 1 : At(a.slot_ids, s) = At(b.slot_ids, s)
        /\ \A j \in 0 .. mark - 1 : At(a.locations, j) = At(b.locations, j)
    BY <1>1, <1>2 DEF Older, Indices, IssuedLen
  <1>4. k <= DEAD /\ DEAD \in Nat
    BY <1>1, WidthAssumption
  <1>. HIDE DEF k, old, mark, n
  <1>5. \A s \in 0 .. k - 1 : s < old => At(a.slot_ids, s) < mark
    BY <1>1, <1>2, <1>3
  <1>6. ASSUME NEW s \in 0 .. k - 1, s >= old
        PROVE  At(a.slot_ids, s) >= mark
    <2>. SUFFICES ASSUME ~(At(a.slot_ids, s) >= mark)
                  PROVE  FALSE
      OBVIOUS
    <2>1. At(a.slot_ids, s) \in 0 .. mark - 1 /\ At(a.locations, At(a.slot_ids, s)) = s
      BY <1>1, <1>2
    <2>2. At(b.locations, At(a.slot_ids, s)) = s /\ s # DEAD
      BY <1>1, <1>3, <1>4, <2>1
    <2>3. s \in 0 .. old - 1
      BY <1>2, <2>1, <2>2
    <2>. QED
      BY <1>1, <1>2, <1>6, <2>3
  <1>. QED
    BY <1>1, <1>2, <1>5, <1>6 DEF k, old, mark

\* The payload of an id issued after the mark lies behind the older entries.
LEMMA SlotBehind ==
    ASSUME NEW a \in Arenas, WellFormed(a), Len(a.values) <= DEAD,
           NEW b \in Arenas, WellFormed(b), Older(a, b),
           NEW id \in Nat, contains(a, id), id >= IssuedLen(b)
    PROVE  /\ live_slot(a, id) \in 0 .. Len(a.slot_ids) - 1
           /\ live_slot(a, id) >= Len(b.slot_ids)
  <1>1. /\ id \in 0 .. IssuedLen(a) - 1 /\ At(a.locations, id) # DEAD
    BY DEF contains, Arenas, IssuedLen
  <1>2. /\ live_slot(a, id) \in 0 .. Len(a.slot_ids) - 1
        /\ At(a.slot_ids, live_slot(a, id)) = id
    BY <1>1, WellFormedFacts DEF live_slot
  <1>. QED
    BY <1>2, NewerBehind

\* A push leaves what the arena held before the batch.
LEMMA OlderPush ==
    ASSUME NEW a \in Arenas, WellFormed(a), NEW b \in Arenas, WellFormed(b), Older(a, b),
           NEW v \in Values
    PROVE  Older(push(a, v), b)
  <1>. DEFINE c == push(a, v)
              k == Len(a.slot_ids)
              n == IssuedLen(a)
  <1>1. /\ a.values \in Seq(Values) /\ a.slot_ids \in Seq(Ids) /\ a.locations \in Seq(Nat)
        /\ Len(a.values) = k /\ k \in Nat /\ n \in Nat /\ Len(a.locations) = n
    BY DEF Arenas, WellFormed, IssuedLen
  <1>2. /\ c.values = Append(a.values, v)
        /\ c.slot_ids = Append(a.slot_ids, IdFrom(n))
        /\ c.locations = Append(a.locations, Len(a.values))
    BY DEF push
  <1>3. b.slot_ids \in Seq(Ids) /\ b.locations \in Seq(Nat)
    BY DEF Arenas
  <1>. HIDE DEF c, k, n
  <1>4. /\ Len(c.slot_ids) = k + 1 /\ Len(c.locations) = n + 1
        /\ \A s \in 0 .. k - 1 : At(c.slot_ids, s) = At(a.slot_ids, s)
    BY <1>1, <1>2 DEF At, k
  <1>5. \A s \in 0 .. k - 1 : At(c.values, s) = At(a.values, s)
    BY <1>1, <1>2 DEF At
  <1>6. \A j \in 0 .. n - 1 : At(c.locations, j) = At(a.locations, j)
    BY <1>1, <1>2 DEF At
  <1>. QED
    BY <1>1, <1>3, <1>4, <1>5, <1>6 DEF Older, Indices, IssuedLen, c, k, n

\* Removing an id issued after the mark moves an entry behind the older ones.
LEMMA OlderRemove ==
    ASSUME NEW a \in Arenas, WellFormed(a), Len(a.values) <= DEAD,
           NEW b \in Arenas, WellFormed(b), Older(a, b),
           NEW id \in Ids, contains(a, id), id >= IssuedLen(b)
    PROVE  Older(remove(a, id), b)
  <1>. PICK c : c = remove(a, id)
    OBVIOUS
  <1>. PICK slot : slot = live_slot(a, id)
    OBVIOUS
  <1>. PICK last : last = Len(a.slot_ids) - 1
    OBVIOUS
  <1>. DEFINE old == Len(b.slot_ids)
              mark == IssuedLen(b)
              n == IssuedLen(a)
  <1>1. /\ last \in Nat /\ slot \in 0 .. last /\ last < DEAD /\ DEAD \in Nat
        /\ Len(c.slot_ids) = last /\ IssuedLen(c) = n
    <2>1. DEAD \in Nat
      BY WidthAssumption
    <2>2. last \in Nat /\ slot \in 0 .. last /\ last < DEAD
      BY RemoveShape
    <2>3. Len(c.slot_ids) = last /\ IssuedLen(c) = n
      BY RemoveShape
    <2>. QED
      BY <2>1, <2>2, <2>3
  <1>2. \A s \in 0 .. last - 1 : /\ At(c.values, s) = At(a.values, IF s = slot THEN last ELSE s)
                                 /\ At(c.slot_ids, s) = At(a.slot_ids, IF s = slot THEN last ELSE s)
    BY RemoveShape
  <1>3. \A j \in 0 .. n - 1 : j # id =>
          At(c.locations, j) = IF At(a.locations, j) = last THEN slot ELSE At(a.locations, j)
    BY RemoveShape
  <1>4. slot >= old
    BY WidthAssumption, SlotBehind DEF Ids
  <1>5. /\ old \in Nat /\ mark \in Nat /\ n \in Nat
        /\ \A j \in 0 .. mark - 1 : At(b.locations, j) # DEAD => At(b.locations, j) \in 0 .. old - 1
    BY WellFormedFacts
  <1>6. /\ mark <= n /\ old <= last + 1
        /\ \A s \in 0 .. old - 1 : /\ At(a.slot_ids, s) = At(b.slot_ids, s)
                                   /\ At(a.values, s) = At(b.values, s)
        /\ \A j \in 0 .. mark - 1 : At(a.locations, j) = At(b.locations, j)
    BY <1>1, <1>5 DEF Older, Indices, IssuedLen
  <1>. HIDE DEF old, mark, n
  <1>7. old <= last
    BY <1>1, <1>4, <1>5
  <1>8. \A s \in 0 .. old - 1 : /\ At(c.slot_ids, s) = At(b.slot_ids, s)
                                /\ At(c.values, s) = At(b.values, s)
    <2>1. \A s \in 0 .. old - 1 : s \in 0 .. last - 1 /\ s # slot
      BY <1>1, <1>4, <1>5, <1>7
    <2>2. \A s \in 0 .. old - 1 : /\ At(c.slot_ids, s) = At(a.slot_ids, s)
                                  /\ At(c.values, s) = At(a.values, s)
      BY <1>2, <2>1
    <2>. QED
      BY <1>6, <2>2
  <1>9. ASSUME NEW j \in 0 .. mark - 1
        PROVE  At(c.locations, j) = At(b.locations, j)
    <2>1. j \in 0 .. n - 1 /\ j # id
      BY <1>5, <1>6 DEF mark
    <2>2. At(a.locations, j) # last
      BY <1>1, <1>5, <1>6, <1>7
    <2>. QED
      BY <1>3, <1>6, <2>1, <2>2
  <1>. QED
    BY <1>1, <1>5, <1>6, <1>7, <1>8, <1>9 DEF Older, Indices, IssuedLen, old, mark

\* So does a write to an id of the batch.
LEMMA OlderWrite ==
    ASSUME NEW a \in Arenas, WellFormed(a), Len(a.values) <= DEAD,
           NEW b \in Arenas, WellFormed(b), Older(a, b),
           NEW id \in Ids, contains(a, id), id >= IssuedLen(b), NEW v \in Values
    PROVE  Older(write(a, id, v), b)
  <1>. DEFINE c == write(a, id, v)
              slot == live_slot(a, id)
              k == Len(a.slot_ids)
  <1>1. a.values \in Seq(Values) /\ Len(a.values) = k /\ k \in Nat
    BY DEF Arenas, WellFormed
  <1>2. slot \in 0 .. k - 1 /\ slot >= Len(b.slot_ids)
    BY WidthAssumption, SlotBehind DEF Ids
  <1>3. c.slot_ids = a.slot_ids /\ c.locations = a.locations /\ c.values = SetAt(a.values, slot, v)
    BY DEF write, Arenas
  <1>4. b.slot_ids \in Seq(Ids)
    BY DEF Arenas
  <1>. HIDE DEF c, slot, k
  <1>5. \A s \in Indices(b.slot_ids) : At(c.values, s) = At(a.values, s)
    <2>1. \A s \in 0 .. k - 1 : s # slot => At(c.values, s) = At(a.values, s)
      BY <1>1, <1>2, <1>3 DEF SetAt, At
    <2>2. \A s \in Indices(b.slot_ids) : s \in 0 .. k - 1 /\ s # slot
      BY <1>1, <1>2, <1>4 DEF Indices
    <2>. QED
      BY <2>1, <2>2
  <1>. QED
    BY <1>3, <1>5 DEF Older, IssuedLen, c

\* Cut to the mark, once no later id lives, the arena is the older one.
LEMMA CutRestores ==
    ASSUME NEW a \in Arenas, WellFormed(a), Len(a.values) <= DEAD,
           NEW b \in Arenas, WellFormed(b), Older(a, b),
           \A j \in Indices(a.locations) : j >= IssuedLen(b) => At(a.locations, j) = DEAD
    PROVE  cut(a, IssuedLen(b)) = b
  <1>. DEFINE c == cut(a, IssuedLen(b))
              k == Len(a.slot_ids)
              old == Len(b.slot_ids)
              mark == IssuedLen(b)
              n == IssuedLen(a)
  <1>1. /\ a.values \in Seq(Values) /\ a.slot_ids \in Seq(Ids) /\ a.locations \in Seq(Nat)
        /\ k \in Nat /\ n \in Nat /\ Len(a.values) = k /\ Len(a.locations) = n
        /\ \A s \in 0 .. k - 1 : /\ At(a.slot_ids, s) \in 0 .. n - 1
                                 /\ At(a.locations, At(a.slot_ids, s)) = s
        /\ DEAD \in Nat /\ k <= DEAD
    BY WellFormedFacts, WidthAssumption DEF IssuedLen
  <1>2. /\ b.values \in Seq(Values) /\ b.slot_ids \in Seq(Ids) /\ b.locations \in Seq(Nat)
        /\ old \in Nat /\ mark \in Nat /\ Len(b.values) = old /\ Len(b.locations) = mark
    BY WellFormedFacts DEF IssuedLen
  <1>3. /\ old <= k /\ mark <= n
        /\ \A s \in 0 .. old - 1 : /\ At(a.slot_ids, s) = At(b.slot_ids, s)
                                   /\ At(a.values, s) = At(b.values, s)
        /\ \A j \in 0 .. mark - 1 : At(a.locations, j) = At(b.locations, j)
    BY <1>1, <1>2 DEF Older, Indices, IssuedLen
  <1>4. \A s \in 0 .. k - 1 : At(a.slot_ids, s) >= mark <=> s >= old
    BY NewerBehind
  <1>5. \A j \in 0 .. n - 1 : j >= mark => At(a.locations, j) = DEAD
    BY DEF Indices, IssuedLen
  <1>6. c.values = a.values /\ c.slot_ids = a.slot_ids /\ c.locations = Truncate(a.locations, mark)
    BY DEF cut, Arenas
  <1>7. c = [values |-> c.values, slot_ids |-> c.slot_ids, locations |-> c.locations]
    <2>1. c \in Arenas
      BY <1>2, CutPreserves
    <2>. HIDE DEF c
    <2>. QED
      BY <2>1 DEF Arenas
  <1>8. b = [values |-> b.values, slot_ids |-> b.slot_ids, locations |-> b.locations]
    BY DEF Arenas
  <1>. HIDE DEF c, k, old, mark, n
  <1>9. k = old
    <2>. SUFFICES ASSUME k # old
                  PROVE  FALSE
      OBVIOUS
    <2>1. old \in 0 .. k - 1
      BY <1>1, <1>2, <1>3
    <2>2. At(a.slot_ids, old) \in 0 .. n - 1 /\ At(a.slot_ids, old) >= mark
      BY <1>1, <1>2, <1>4, <2>1
    <2>3. old = DEAD
      BY <1>1, <1>5, <2>1, <2>2
    <2>. QED
      BY <1>1, <2>1, <2>3
  <1>10. a.slot_ids = b.slot_ids
    <2>1. \A i \in 1 .. k : a.slot_ids[i] = b.slot_ids[i]
      <3>. SUFFICES ASSUME NEW i \in 1 .. k
                    PROVE  a.slot_ids[i] = b.slot_ids[i]
        OBVIOUS
      <3>1. i - 1 \in 0 .. old - 1 /\ (i - 1) + 1 = i
        BY <1>1, <1>9
      <3>. QED
        BY <1>3, <3>1 DEF At
    <2>2. Len(a.slot_ids) = k /\ Len(b.slot_ids) = k
      BY <1>9 DEF k, old
    <2>. QED
      BY <1>1, <1>2, <2>1, <2>2
  <1>11. a.values = b.values
    <2>1. \A i \in 1 .. k : a.values[i] = b.values[i]
      <3>. SUFFICES ASSUME NEW i \in 1 .. k
                    PROVE  a.values[i] = b.values[i]
        OBVIOUS
      <3>1. i - 1 \in 0 .. old - 1 /\ (i - 1) + 1 = i
        BY <1>1, <1>9
      <3>. QED
        BY <1>3, <3>1 DEF At
    <2>. QED
      BY <1>1, <1>2, <1>9, <2>1
  <1>12. c.locations = b.locations
    <2>. DEFINE t == Truncate(a.locations, mark)
    <2>1. t \in Seq(Nat) /\ Len(t) = mark
      BY <1>1, <1>2, <1>3, TruncateFacts
    <2>2. \A j \in 0 .. mark - 1 : At(t, j) = At(a.locations, j)
      BY <1>1, <1>2, <2>1, TruncateFacts DEF Indices
    <2>. HIDE DEF t
    <2>3. \A i \in 1 .. mark : t[i] = b.locations[i]
      <3>. SUFFICES ASSUME NEW i \in 1 .. mark
                    PROVE  t[i] = b.locations[i]
        OBVIOUS
      <3>1. i - 1 \in 0 .. mark - 1 /\ (i - 1) + 1 = i
        BY <1>2
      <3>2. At(t, i - 1) = At(b.locations, i - 1)
        BY <1>3, <2>2, <3>1
      <3>. QED
        BY <3>1, <3>2 DEF At
    <2>4. t = b.locations
      BY <1>2, <2>1, <2>3
    <2>. QED
      BY <1>6, <2>4 DEF t
  <1>. QED
    BY <1>6, <1>7, <1>8, <1>10, <1>11, <1>12 DEF c, mark

\* At first no batch is open and no truncation runs.
LEMMA BatchInit == BInit => BatchInv
  <1>. SUFFICES ASSUME BInit
                PROVE  BatchInv
    OBVIOUS
  <1>1. Init /\ ~call.busy /\ ~batch.open
    BY DEF BInit, Init, NoCall, NoBatch
  <1>. QED
    BY <1>1, InitEstablishes DEF BatchInv, Holding

\* Every step keeps the invariant, and the one that ends a take-back leaves
\* the arena the batch was opened on.
LEMMA BatchStep ==
    BatchInv /\ [BNext]_<<vars, batch>> =>
        BatchInv' /\ (TakenBack => arena' = batch.before)
  <1>. SUFFICES ASSUME BatchInv, [BNext]_<<vars, batch>>
                PROVE  BatchInv' /\ (TakenBack => arena' = batch.before)
    OBVIOUS
  <1>1. /\ arena \in Arenas /\ WellFormed(arena) /\ Len(arena.values) <= DEAD
        /\ IssuedLen(arena) \in Nat /\ Ids \subseteq Nat /\ call \in Calls
    BY InvGives DEF BatchInv
  <1>2. IInv /\ Holding
    BY DEF BatchInv
  <1>3. batch.open => /\ batch.before \in Arenas /\ WellFormed(batch.before)
                      /\ Older(arena, batch.before) /\ Mark \in Nat
    BY <1>2 DEF Holding, Mark, Arenas, IssuedLen
  <1>4. Next => IInv'
    BY <1>2, NextPreserves
  \* the calls of the owner while no truncation runs
  <1>5. ASSUME Next, ~call.busy, UNCHANGED <<call, batch>>,
               batch.open => Older(arena', batch.before)
        PROVE  BatchInv' /\ ~TakenBack
    BY <1>2, <1>3, <1>4, <1>5 DEF BatchInv, Holding, TakenBack, TruncateEnd
  <1>6. ASSUME NEW v \in Values, OwnerPush(v)
        PROVE  BatchInv' /\ ~TakenBack
    <2>1. /\ Next /\ ~call.busy /\ UNCHANGED <<call, batch>> /\ arena' = push(arena, v)
      BY <1>6 DEF OwnerPush, Push, Idle, Next
    <2>. QED
      BY <1>1, <1>3, <1>5, <2>1, OlderPush
  <1>7. ASSUME NEW id \in Ids, OwnerRemove(id)
        PROVE  BatchInv' /\ ~TakenBack
    <2>1. /\ Next /\ ~call.busy /\ UNCHANGED <<call, batch>>
          /\ arena' = remove(arena, id) /\ contains(arena, id)
          /\ batch.open => id >= IssuedLen(batch.before)
      BY <1>7 DEF OwnerRemove, Remove, Idle, Next, Mine, Mark
    <2>. QED
      BY <1>1, <1>3, <1>5, <2>1, OlderRemove
  <1>8. ASSUME NEW id \in Ids, NEW v \in Values, OwnerWrite(id, v)
        PROVE  BatchInv' /\ ~TakenBack
    <2>1. /\ Next /\ ~call.busy /\ UNCHANGED <<call, batch>>
          /\ arena' = write(arena, id, v) /\ contains(arena, id)
          /\ batch.open => id >= IssuedLen(batch.before)
      BY <1>8 DEF OwnerWrite, Write, Idle, Next, Mine, Mark
    <2>. QED
      BY <1>1, <1>3, <1>5, <2>1, OlderWrite
  <1>9. CASE OwnerClear
    <2>1. Next /\ ~call.busy /\ UNCHANGED <<call, batch>> /\ ~batch.open
      BY <1>9 DEF OwnerClear, Clear, Idle, Next
    <2>. QED
      BY <1>5, <2>1
  <1>10. CASE Open
    <2>1. /\ arena' = arena /\ call' = call /\ ~call.busy
          /\ batch' = [open |-> TRUE, before |-> arena]
      BY <1>10 DEF Open, Idle
    <2>2. IInv'
      BY <1>2, <2>1, NextPreserves DEF vars
    <2>3. Older(arena', batch'.before)
      BY <1>1, <2>1 DEF Older, Arenas, IssuedLen
    <2>. QED
      BY <1>1, <2>1, <2>2, <2>3 DEF BatchInv, Holding, TakenBack, TruncateEnd
  <1>11. CASE TakeBack
    <2>1. /\ batch.open /\ TruncateBegin(Mark) /\ batch' = batch /\ Mark \in Nat
      BY <1>3, <1>11 DEF TakeBack
    <2>2. IInv'
      BY <1>2, <2>1, BeginStep
    <2>3. /\ ~call.busy /\ arena' = arena /\ call'.issued = Mark /\ Mark' = Mark
      BY <2>1 DEF TruncateBegin, Mark
    <2>. QED
      BY <1>2, <2>1, <2>2, <2>3 DEF BatchInv, Holding, TakenBack, TruncateEnd
  <1>12. ASSUME Truncating, contains(arena, call.raw - 1), arena' = remove(arena, call.raw - 1)
         PROVE  batch.open /\ Older(arena', batch.before)
    <2>1. batch.open /\ call.issued = Mark
      BY <1>2, <1>12 DEF Holding, Truncating
    <2>2. call.raw - 1 \in Ids /\ call.raw - 1 >= IssuedLen(batch.before)
      BY <1>2, <1>12, <2>1, InvGives DEF Mark
    <2>. QED
      BY <1>1, <1>3, <1>12, <2>1, <2>2, OlderRemove
  <1>13. CASE TruncateStep /\ UNCHANGED batch
    <2>1. /\ Truncating /\ arena' = remove_if_live(arena, call.raw - 1)
          /\ call' = [call EXCEPT !.raw = @ - 1] /\ batch' = batch
      BY <1>2, <1>13, InvGives DEF TruncateStep
    <2>2. batch.open /\ call.issued = Mark /\ call'.issued = Mark /\ Mark' = Mark
      BY <1>1, <1>2, <2>1 DEF Holding, Truncating, Calls, Mark
    <2>3. Older(arena', batch.before)
      BY <1>3, <1>12, <2>1, <2>2 DEF remove_if_live
    <2>4. ~TakenBack
      BY <1>1, <2>1, <2>2 DEF TakenBack, TruncateEnd, Truncating, Calls
    <2>. QED
      BY <1>3, <1>4, <1>13, <2>1, <2>2, <2>3, <2>4 DEF BatchInv, Holding, Next
  <1>14. CASE TruncateUnwind /\ UNCHANGED batch
    <2>1. /\ Truncating /\ contains(arena, call.raw - 1) /\ arena' = remove(arena, call.raw - 1)
          /\ call' = NoCall /\ batch' = batch
      BY <1>2, <1>14, InvGives DEF TruncateUnwind
    <2>2. batch.open /\ Older(arena', batch.before) /\ ~call'.busy
      BY <1>12, <2>1 DEF NoCall
    <2>3. ~TakenBack
      BY <1>1, <2>1 DEF TakenBack, TruncateEnd, Truncating, Calls
    <2>. QED
      BY <1>3, <1>4, <1>14, <2>1, <2>2, <2>3 DEF BatchInv, Holding, Next
  <1>15. CASE TakenBack
    <2>1. /\ TruncateEnd /\ call.busy /\ call.raw <= call.issued
          /\ arena' = cut(arena, call.issued) /\ call' = NoCall /\ batch' = NoBatch
      BY <1>15 DEF TakenBack, TruncateEnd
    <2>2. batch.open /\ call.issued = IssuedLen(batch.before)
      BY <1>2, <2>1 DEF Holding, Mark
    <2>3. \A j \in Indices(arena.locations) :
            j >= IssuedLen(batch.before) => At(arena.locations, j) = DEAD
      <3>1. \A j \in Indices(arena.locations) : j >= call.raw => At(arena.locations, j) = DEAD
        BY <1>2, <2>1 DEF IInv, Visited
      <3>2. call.raw \in Nat /\ call.issued \in Nat
        BY <1>1 DEF Calls
      <3>3. \A j \in Indices(arena.locations) : j >= call.issued => j >= call.raw
        BY <1>1, <2>1, <3>2 DEF Indices, IssuedLen
      <3>. QED
        BY <2>2, <3>1, <3>3
    <2>4. arena' = batch.before
      BY <1>1, <1>3, <2>1, <2>2, <2>3, CutRestores
    <2>5. ~call'.busy /\ ~batch'.open
      BY <2>1 DEF NoCall, NoBatch
    <2>. QED
      BY <1>4, <2>1, <2>4, <2>5 DEF BatchInv, Holding, Next
  <1>16. CASE UNCHANGED <<vars, batch>>
    <2>1. arena' = arena /\ call' = call /\ batch' = batch
      BY <1>16 DEF vars
    <2>2. IInv'
      BY <1>2, <2>1, NextPreserves DEF vars
    <2>3. Holding'
      BY <1>2, <2>1 DEF Holding, Mark
    <2>4. TakenBack => FALSE
      <3>1. TakenBack => call.busy /\ ~call'.busy
        BY DEF TakenBack, TruncateEnd, NoCall
      <3>. QED
        BY <2>1, <3>1
    <2>. QED
      BY <2>2, <2>3, <2>4 DEF BatchInv
  <1>. QED
    BY <1>6, <1>7, <1>8, <1>9, <1>10, <1>11, <1>13, <1>14, <1>15, <1>16 DEF BNext, TakingBack

\* While a batch is open the dense order of the older entries stands: the
\* batch lives behind them, whatever it pushed and removed.
THEOREM OlderFirstAlways == BSpec => []OlderFirst
  <1>1. BatchInv => OlderFirst
    <2>. SUFFICES ASSUME BatchInv, batch.open
                  PROVE  LET old == Len(batch.before.slot_ids)
                         IN /\ Len(arena.slot_ids) >= old
                            /\ SubSeq(arena.slot_ids, 1, old) = batch.before.slot_ids
                            /\ \A s \in old .. Len(arena.slot_ids) - 1 :
                                   At(arena.slot_ids, s) >= Mark
      BY DEF OlderFirst
    <2>. DEFINE b == batch.before
                old == Len(b.slot_ids)
                k == Len(arena.slot_ids)
    <2>1. /\ arena \in Arenas /\ WellFormed(arena) /\ Len(arena.values) <= DEAD
          /\ b \in Arenas /\ WellFormed(b) /\ Older(arena, b)
      BY InvGives DEF BatchInv, Holding
    <2>2. /\ arena.slot_ids \in Seq(Ids) /\ b.slot_ids \in Seq(Ids) /\ k \in Nat /\ old \in Nat
      BY <2>1 DEF Arenas
    <2>3. k >= old /\ \A s \in 0 .. old - 1 : At(arena.slot_ids, s) = At(b.slot_ids, s)
      BY <2>1 DEF Older, Indices
    <2>4. \A s \in 0 .. k - 1 : s >= old => At(arena.slot_ids, s) >= Mark
      BY <2>1, NewerBehind DEF Mark
    <2>5. SubSeq(arena.slot_ids, 1, old) = b.slot_ids
      <3>1. \A i \in 1 .. old : arena.slot_ids[i] = b.slot_ids[i]
        <4>. SUFFICES ASSUME NEW i \in 1 .. old
                      PROVE  arena.slot_ids[i] = b.slot_ids[i]
          OBVIOUS
        <4>1. i - 1 \in 0 .. old - 1 /\ (i - 1) + 1 = i
          BY <2>2
        <4>. QED
          BY <2>3, <4>1 DEF At
      <3>. DEFINE t == SubSeq(arena.slot_ids, 1, old)
      <3>2. t \in Seq(Ids) /\ Len(t) = old /\ \A i \in 1 .. old : t[i] = arena.slot_ids[i]
        BY <2>2, <2>3
      <3>. HIDE DEF t
      <3>3. t = b.slot_ids
        BY <2>2, <3>1, <3>2
      <3>. QED
        BY <3>3 DEF t
    <2>. QED
      BY <2>2, <2>3, <2>4, <2>5
  <1>2. BatchInv /\ [BNext]_<<vars, batch>> => BatchInv'
    BY BatchStep
  <1>. QED
    BY <1>1, <1>2, BatchInit, PTL DEF BSpec

\* Taking the batch back restores the arena exactly: ids, holes, payloads,
\* dense order, and the id the next push issues.
THEOREM TakeBackRestoresAlways == BSpec => TakeBackRestores
  <1>1. BatchInv /\ [BNext]_<<vars, batch>> => BatchInv'
    BY BatchStep
  <1>2. BatchInv /\ [BNext]_<<vars, batch>> =>
          [TakenBack => arena' = batch.before]_<<vars, batch>>
    BY BatchStep
  <1>. QED
    BY <1>1, <1>2, BatchInit, PTL DEF BSpec, TakeBackRestores

=============================================================================
