---------------------------- MODULE StableArena ----------------------------
(***************************************************************************)
(* StableArena<Id, T> of src/stable_arena.rs: payloads packed in one dense *)
(* vector, identified by logical ids that survive the moves swap_remove    *)
(* makes.  Ids and slots are the crate's 0-based indices.                  *)
(*                                                                         *)
(* Every method takes &mut self, so calls never interleave; the one call   *)
(* with a loop that mutates, truncate_issued, is stepped because the       *)
(* payload it drops in an iteration may panic, which ends the call there.  *)
(***************************************************************************)
EXTENDS Vecs

CONSTANTS
    Values,     \* payloads
    IdLimit,    \* number of distinct values of the identifier's backing type
    DEAD,       \* usize::MAX: the location of a removed id
    Wires       \* the serialized forms offered to Deserialize

ASSUME WidthAssumption == IdLimit \in Nat \ {0} /\ DEAD \in Nat

Ids == 0 .. IdLimit - 1

\* Fault: the backing type is taken to be as wide as the cursor.
IdFromUnmasked(raw) == raw

\* Id::from(raw): a cast to the backing type keeps the low bits.
IdFrom(raw) == raw % IdLimit

Fits(raw) == IdFrom(raw) = raw

Wire == [next_id : 0 .. DEAD, entries : Seq((0 .. DEAD) \X Values)]

ASSUME WiresAssumption == Wires \subseteq Wire

Arenas == [values : Seq(Values), slot_ids : Seq(Ids), locations : Seq(Nat)]

EmptyArena == [values |-> <<>>, slot_ids |-> <<>>, locations |-> <<>>]

-----------------------------------------------------------------------------
(* Queries. *)

IssuedLen(a) == Len(a.locations)

contains(a, id) == id < IssuedLen(a) /\ At(a.locations, id) # DEAD

live_slot(a, id) == At(a.locations, id)

get(a, id) == At(a.values, live_slot(a, id))

-----------------------------------------------------------------------------
(* The effect of the mutating methods on an arena. *)

\* The three assertions of push: exhausted sentinel, identifier that does not
\* round-trip, exhausted slots.  All are evaluated before any mutation.
CanPush(a) == /\ IssuedLen(a) < DEAD
              /\ Fits(IssuedLen(a))
              /\ Len(a.values) < DEAD

\* Fault: the first dead id is issued again.
pushReusing(a, v) ==
    LET id == CHOOSE i \in 0 .. IssuedLen(a) : ~contains(a, i)
    IN [values    |-> Append(a.values, v),
        slot_ids  |-> Append(a.slot_ids, IdFrom(id)),
        locations |-> IF id < IssuedLen(a)
                      THEN SetAt(a.locations, id, Len(a.values))
                      ELSE Append(a.locations, Len(a.values))]

push(a, v) ==
    [values    |-> Append(a.values, v),
     slot_ids  |-> Append(a.slot_ids, IdFrom(IssuedLen(a))),
     locations |-> Append(a.locations, Len(a.values))]

\* Fault: the location of the moved id is not repaired.
removeUnrepaired(a, id) ==
    [values    |-> SwapRemove(a.values, live_slot(a, id)),
     slot_ids  |-> SwapRemove(a.slot_ids, live_slot(a, id)),
     locations |-> SetAt(a.locations, id, DEAD)]

\* Fault: the payloads behind the removed one are shifted down, while the ids
\* are swapped.
removeShifting(a, id) ==
    LET slot == live_slot(a, id)
        ids  == SwapRemove(a.slot_ids, slot)
        dead == SetAt(a.locations, id, DEAD)
    IN [values    |-> SubSeq(a.values, 1, slot)
                        \o SubSeq(a.values, slot + 2, Len(a.values)),
        slot_ids  |-> ids,
        locations |-> IF slot < Len(ids) THEN SetAt(dead, At(ids, slot), slot) ELSE dead]

\* The moved id is read from slot_ids after both vectors were compacted.
remove(a, id) ==
    LET slot == live_slot(a, id)
        ids  == SwapRemove(a.slot_ids, slot)
        dead == SetAt(a.locations, id, DEAD)
    IN [values    |-> SwapRemove(a.values, slot),
        slot_ids  |-> ids,
        locations |-> IF slot < Len(ids)
                      THEN SetAt(dead, At(ids, slot), slot)
                      ELSE dead]

write(a, id, v) == [a EXCEPT !.values = SetAt(@, live_slot(a, id), v)]

\* One iteration of truncate_issued, and the cut that follows its loop.
remove_if_live(a, id) == IF contains(a, id) THEN remove(a, id) ELSE a

\* Fault: the id space is not shrunk.
cutNothing(a, issued) == a

cut(a, issued) == [a EXCEPT !.locations = Truncate(@, issued)]

-----------------------------------------------------------------------------
(* Serialization: the ids and payloads in dense order, and the id cursor.  *)

\* Fault: the cursor is written as the number of live entries.
EncodeLiveCount(a) ==
    [next_id |-> Len(a.values),
     entries |-> [i \in 1 .. Len(a.slot_ids) |-> <<a.slot_ids[i], a.values[i]>>]]

Encode(a) ==
    [next_id |-> IssuedLen(a),
     entries |-> [i \in 1 .. Len(a.slot_ids) |-> <<a.slot_ids[i], a.values[i]>>]]

\* Fault: the cursor itself, not the last issued id, must be representable.
AcceptedBelowLimit(w) ==
    /\ w.next_id # DEAD
    /\ Fits(w.next_id)
    /\ \A i \in 1 .. Len(w.entries) :
          /\ w.entries[i][1] < w.next_id
          /\ \A j \in 1 .. i - 1 : w.entries[j][1] # w.entries[i][1]

Accepted(w) ==
    /\ w.next_id # DEAD
    /\ w.next_id > 0 => Fits(w.next_id - 1)
    /\ \A i \in 1 .. Len(w.entries) :
          /\ w.entries[i][1] < w.next_id
          /\ Fits(w.entries[i][1])
          /\ \A j \in 1 .. i - 1 : w.entries[j][1] # w.entries[i][1]

Decode(w) ==
    LET SlotsOf(raw) == {i \in 1 .. Len(w.entries) : w.entries[i][1] = raw}
    IN [values    |-> [i \in 1 .. Len(w.entries) |-> w.entries[i][2]],
        slot_ids  |-> [i \in 1 .. Len(w.entries) |-> IdFrom(w.entries[i][1])],
        locations |-> [k \in 1 .. w.next_id |->
                         IF SlotsOf(k - 1) = {}
                         THEN DEAD
                         ELSE (CHOOSE i \in SlotsOf(k - 1) : TRUE) - 1]]

-----------------------------------------------------------------------------
VARIABLES
    arena,
    call        \* the truncate_issued in progress, if any

vars == <<arena, call>>

\* raw is one above the next id the loop visits.
Calls == [busy : BOOLEAN, issued : Nat, raw : Nat]

NoCall == [busy |-> FALSE, issued |-> 0, raw |-> 0]

Init == arena = EmptyArena /\ call = NoCall

Idle == ~call.busy /\ UNCHANGED call

Push(v) == Idle /\ CanPush(arena) /\ arena' = push(arena, v)

\* Removing a dead or unknown id panics before anything changes.
Remove(id) == Idle /\ contains(arena, id) /\ arena' = remove(arena, id)

\* get_mut, IndexMut and each step of iter_mut overwrite one payload in place.
Write(id, v) == Idle /\ contains(arena, id) /\ arena' = write(arena, id, v)

Clear == Idle /\ arena' = EmptyArena

\* The owner replaces its arena with a deserialized one; a rejected wire
\* returns an error and leaves the arena it had.
Deserialize(w) == Idle /\ Accepted(w) /\ arena' = Decode(w)

TruncateBegin(issued) ==
    /\ ~call.busy
    /\ call' = [busy |-> TRUE, issued |-> issued, raw |-> IssuedLen(arena)]
    /\ UNCHANGED arena

\* Fault: the loop runs one id too far.
TruncatingTooFar == call.busy /\ call.issued <= call.raw

Truncating == call.busy /\ call.issued < call.raw

TruncateStep ==
    /\ Truncating
    /\ arena' = remove_if_live(arena, IdFrom(call.raw - 1))
    /\ call' = [call EXCEPT !.raw = @ - 1]

\* The payload returned by remove is dropped at once; its destructor panics
\* and the call unwinds with the arena as remove left it.
TruncateUnwind ==
    /\ Truncating
    /\ contains(arena, IdFrom(call.raw - 1))
    /\ arena' = remove(arena, IdFrom(call.raw - 1))
    /\ call' = NoCall

TruncateEnd ==
    /\ call.busy
    /\ call.raw <= call.issued
    /\ arena' = cut(arena, call.issued)
    /\ call' = NoCall

Next == \/ \E v \in Values : Push(v)
        \/ \E id \in Ids : Remove(id)
        \/ \E id \in Ids, v \in Values : Write(id, v)
        \/ Clear
        \/ \E w \in Wires : Deserialize(w)
        \/ \E issued \in 0 .. DEAD : TruncateBegin(issued)
        \/ TruncateStep
        \/ TruncateUnwind
        \/ TruncateEnd

Spec == Init /\ [][Next]_vars

-----------------------------------------------------------------------------
(* Properties. *)

TypeOK == arena \in Arenas /\ call \in Calls

\* slot_ids and locations are inverse to each other: every dense slot is the
\* location of the id it carries, and every id that is not DEAD is carried by
\* the slot it points to (what the debug_assert in remove relies on).
SlotsNameIds(a) ==
    \A s \in Indices(a.slot_ids) :
        /\ At(a.slot_ids, s) < IssuedLen(a)
        /\ At(a.locations, At(a.slot_ids, s)) = s

IdsNameSlots(a) ==
    \A id \in Indices(a.locations) :
        At(a.locations, id) # DEAD =>
            /\ At(a.locations, id) < Len(a.slot_ids)
            /\ At(a.slot_ids, At(a.locations, id)) = id

WellFormed(a) ==
    /\ Len(a.values) = Len(a.slot_ids)
    /\ SlotsNameIds(a)
    /\ IdsNameSlots(a)

\* Between any two mutations, also when a destructor cut a truncation short,
\* the payload and id vectors are parallel and the two indirections agree.
Consistent == WellFormed(arena)

\* Deserialize undoes Serialize: every reachable arena, whatever its holes,
\* its dense order and its cursor, is accepted and comes back equal.
RoundTrip == Accepted(Encode(arena)) /\ Decode(Encode(arena)) = arena

\* No accepted wire loses anything: serializing the result gives it back.
WiresKept == [][\A w \in Wires : Deserialize(w) => Encode(arena') = w]_vars

\* An id that was issued and removed stays dead until clear or deserialization
\* starts a new epoch or a truncation takes it back: push never revives it.
DeadStaysDead ==
    [][\/ Clear
       \/ \E w \in Wires : Deserialize(w)
       \/ \A id \in Ids : id < IssuedLen(arena) /\ id < IssuedLen(arena')
                            /\ ~contains(arena, id) => ~contains(arena', id)]_vars

\* A step that ends or interrupts truncate_issued(n) touched no id below n.
TruncateSpares ==
    [][call.busy => \A id \in Ids : contains(arena, id) /\ id < call.issued =>
           contains(arena', id) /\ get(arena', id) = get(arena, id)]_vars

=============================================================================
