------------------------ MODULE StableArenaOptionVec ------------------------
(***************************************************************************)
(* StableArena with what its calls hand back, and the vector of optional   *)
(* payloads it implements: an id is None once removed, the payload found   *)
(* through the location table while it lives.                              *)
(***************************************************************************)
EXTENDS StableArena

CONSTANT None       \* the payload of an id that was removed

ASSUME NoneAssumption == None \notin Values

VARIABLE ret

\* push returns the id, remove the payload; the others are named so that the
\* abstract vector must make the same kind of step.
Returns(op, id, v) == ret' = <<op, id, v>>

RPush(v) == Push(v) /\ Returns("push", IdFrom(IssuedLen(arena)), v)

RRemove(id) == Remove(id) /\ Returns("take", id, get(arena, id))

RWrite(id, v) == Write(id, v) /\ Returns("write", id, v)

RClear == Clear /\ Returns("reset", 0, None)

RDeserialize(w) == Deserialize(w) /\ Returns("reset", w.next_id, None)

RTruncateBegin(issued) == TruncateBegin(issued) /\ UNCHANGED ret

\* The payload an iteration removes is dropped inside the call.
Dropping == LET id == IdFrom(call.raw - 1)
            IN IF contains(arena, id)
               THEN Returns("take", id, get(arena, id))
               ELSE UNCHANGED ret

RTruncateStep == TruncateStep /\ Dropping

RTruncateUnwind == TruncateUnwind /\ Dropping

RTruncateEnd == TruncateEnd /\ Returns("forget", IssuedLen(arena'), None)

RInit == Init /\ ret = <<"reset", 0, None>>

RNext == \/ \E v \in Values : RPush(v)
         \/ \E id \in Ids : RRemove(id)
         \/ \E id \in Ids, v \in Values : RWrite(id, v)
         \/ RClear
         \/ \E w \in Wires : RDeserialize(w)
         \/ \E issued \in 0 .. DEAD : RTruncateBegin(issued)
         \/ RTruncateStep
         \/ RTruncateUnwind
         \/ RTruncateEnd

RSpec == RInit /\ [][RNext]_<<vars, ret>>

-----------------------------------------------------------------------------
OptionVecOf(a) == [k \in 1 .. IssuedLen(a) |->
                     IF a.locations[k] = DEAD THEN None ELSE get(a, k - 1)]

\* Read off a wire without decoding it.
WireModel(w) ==
    [k \in 1 .. w.next_id |->
       IF \E i \in 1 .. Len(w.entries) : w.entries[i][1] = k - 1
       THEN w.entries[CHOOSE i \in 1 .. Len(w.entries) : w.entries[i][1] = k - 1][2]
       ELSE None]

Abstract == INSTANCE OptionVec WITH
                model <- OptionVecOf(arena),
                Loads <- {WireModel(w) : w \in {x \in Wires : Accepted(x)}}

\* Seen through its ids the arena is a vector of optional payloads: every call
\* returns the id or payload that vector returns, no move of swap_remove can
\* be noticed, and a truncation is a series of removals and a cut.
ImplementsOptionVec == Abstract!Spec

=============================================================================
