--------------------------- MODULE RecyclingArena ---------------------------
(***************************************************************************)
(* RecyclingArena<Id, T> of src/recycling_arena.rs: a slab whose vacant    *)
(* slots are linked into an intrusive free list.  Every vacant slot holds  *)
(* the id of the next one, so the list lives inside the payload vector.    *)
(***************************************************************************)
EXTENDS Vecs, FiniteSets

CONSTANTS
    Values,     \* payloads
    IdLimit,    \* number of distinct values of the identifier's backing type
    None        \* Option::None, as an id and as the payload of a vacant slot

ASSUME RecyclingAssumption ==
    IdLimit \in Nat \ {0} /\ None \notin Values /\ None \notin Nat

Ids == 0 .. IdLimit - 1

IdFrom(raw) == raw % IdLimit

LiveSlot(v) == [live |-> TRUE, value |-> v, next |-> None]

FreeSlot(next) == [live |-> FALSE, value |-> None, next |-> next]

Slot == [live : {TRUE}, value : Values, next : {None}]
          \cup [live : {FALSE}, value : {None}, next : Ids \cup {None}]

VARIABLES
    slots,
    free,       \* the head of the free list
    live,       \* the number of live payloads
    ret         \* what the last call named and moved

vars == <<slots, free, live, ret>>

contains(id) == id \in Indices(slots) /\ At(slots, id).live

Init == slots = <<>> /\ free = None /\ live = 0 /\ ret = <<"clear", 0, None>>

\* Fault: a reused slot is not counted.
PushReuseUncounted(v) ==
    /\ free # None
    /\ free \in Indices(slots)
    /\ free' = At(slots, free).next
    /\ slots' = SetAt(slots, free, LiveSlot(v))
    /\ ret' = <<"push", free, v>>
    /\ UNCHANGED live

\* push takes the head of the free list; a live slot there is unreachable!().
PushReuse(v) ==
    /\ free # None
    /\ free \in Indices(slots)
    /\ ~At(slots, free).live
    /\ free' = At(slots, free).next
    /\ slots' = SetAt(slots, free, LiveSlot(v))
    /\ live' = live + 1
    /\ ret' = <<"push", free, v>>

\* Fault: it appends although a slot is vacant.
PushAppendAlways(v) ==
    /\ IdFrom(Len(slots)) = Len(slots)
    /\ slots' = Append(slots, LiveSlot(v))
    /\ live' = live + 1
    /\ ret' = <<"push", IdFrom(Len(slots)), v>>
    /\ UNCHANGED free

\* With no vacant slot it appends, once the fresh id is known to round-trip.
PushAppend(v) ==
    /\ free = None
    /\ IdFrom(Len(slots)) = Len(slots)
    /\ slots' = Append(slots, LiveSlot(v))
    /\ live' = live + 1
    /\ ret' = <<"push", IdFrom(Len(slots)), v>>
    /\ UNCHANGED free

\* Fault: a vacant slot may be removed again.
RemoveTwice(id) ==
    /\ id \in Indices(slots)
    /\ slots' = SetAt(slots, id, FreeSlot(free))
    /\ free' = id
    /\ live' = live - 1
    /\ ret' = <<"take", id, At(slots, id).value>>

\* Fault: the new head of the free list does not link to the old one.
RemoveUnlinked(id) ==
    /\ contains(id)
    /\ slots' = SetAt(slots, id, FreeSlot(None))
    /\ free' = id
    /\ live' = live - 1
    /\ ret' = <<"take", id, At(slots, id).value>>

\* An id out of bounds or already free panics before anything changes.
Remove(id) ==
    /\ contains(id)
    /\ slots' = SetAt(slots, id, FreeSlot(free))
    /\ free' = id
    /\ live' = live - 1
    /\ ret' = <<"take", id, At(slots, id).value>>

\* get_mut and IndexMut.
Write(id, v) ==
    /\ contains(id)
    /\ slots' = SetAt(slots, id, LiveSlot(v))
    /\ ret' = <<"write", id, v>>
    /\ UNCHANGED <<free, live>>

Clear ==
    /\ slots' = <<>>
    /\ free' = None
    /\ live' = 0
    /\ ret' = <<"clear", 0, None>>

Next == \/ \E v \in Values : PushReuse(v) \/ PushAppend(v)
        \/ \E id \in Ids : Remove(id)
        \/ \E id \in Ids, v \in Values : Write(id, v)
        \/ Clear

Spec == Init /\ [][Next]_vars

-----------------------------------------------------------------------------
TypeOK == /\ slots \in Seq(Slot)
          /\ free \in Ids \cup {None}
          /\ live \in Nat

Vacant == {id \in Indices(slots) : ~At(slots, id).live}

\* p is the free list: it starts at free, follows next, ends in None, and
\* passes through every vacant slot exactly once.
IsFreeList(p, n) ==
    /\ p \in [1 .. n -> Vacant]
    /\ \A id \in Vacant : \E i \in 1 .. n : p[i] = id
    /\ \A i, j \in 1 .. n : p[i] = p[j] => i = j
    /\ free = IF n = 0 THEN None ELSE p[1]
    /\ \A i \in 1 .. n : At(slots, p[i]).next = IF i = n THEN None ELSE p[i + 1]

\* The free list has no cycle, no live slot on it and no vacant slot off it:
\* push can never reach a live payload, and no slot is ever lost.
FreeListExact == \E n \in 0 .. Len(slots) : \E p \in [1 .. n -> Vacant] : IsFreeList(p, n)

\* live, which len() and is_empty() answer from, counts the live payloads.
LiveCounted == live = Len(slots) - Cardinality(Vacant)

\* The ids the abstract slab has on its stack, read off the links.
FreeOrder ==
    LET n == Cardinality(Vacant)
    IN CHOOSE p \in [1 .. n -> Vacant] : IsFreeList(p, n)

Abstract == INSTANCE Slab WITH
                model <- [k \in 1 .. Len(slots) |-> slots[k].value],
                vacant <- FreeOrder

\* Every push returns the id removed last, or a never-issued one when none is
\* vacant, and never an id whose payload lives; every id finds its payload.
ImplementsSlab == Abstract!Spec

=============================================================================
