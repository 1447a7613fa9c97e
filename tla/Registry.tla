------------------------------ MODULE Registry ------------------------------
(***************************************************************************)
(* Registry<Id, T> of src/registry.rs: elements in chunks that double in   *)
(* size, each allocated once at its full capacity, so that an element is   *)
(* never moved while the registry grows or is truncated.                   *)
(*                                                                         *)
(* The two methods with a loop that mutates, truncate and the rebuilding   *)
(* of clone, from_iter and deserialize, are stepped; the caller's &mut     *)
(* borrow keeps every other call out while one of them runs.               *)
(***************************************************************************)
EXTENDS Vecs, SequencesExt

CONSTANTS
    Values,     \* elements
    IdLimit,    \* number of distinct values of the identifier's backing type
    MaxLen,     \* bound of the model: the owner pushes no further element
    Picks,      \* the calls of select_mut: ids, and what is written through
    Loads       \* the element sequences offered to Deserialize

ASSUME RegistryAssumption ==
    /\ IdLimit \in Nat \ {0} /\ MaxLen \in Nat
    /\ Loads \subseteq Seq(Values)
    /\ \A p \in Picks : /\ p.ids \in Seq(Nat) /\ p.new \in Seq(Values)
                        /\ Len(p.ids) = Len(p.new)

IdFrom(raw) == raw % IdLimit

VARIABLES
    chunks,     \* per chunk: capacity, elements, times its buffer was moved
    len,
    job,        \* the loop in progress
    ret         \* what the last call named and moved

vars == <<chunks, len, job, ret>>

NoJob == [op |-> "none", target |-> 0, source |-> <<>>]

\* A Vec that is full moves to a buffer of twice the size before it grows.
VecPush(c, e) ==
    IF Len(c.elems) < c.cap
    THEN [c EXCEPT !.elems = Append(@, e)]
    ELSE [cap   |-> IF c.cap = 0 THEN 4 ELSE 2 * c.cap,
          elems |-> Append(c.elems, e),
          moves |-> c.moves + 1]

\* Fault: a chunk is allocated one element short.
WithCapacityShort(n) == [cap |-> n - 1, elems |-> <<>>, moves |-> 0]

WithCapacity(n) == [cap |-> n, elems |-> <<>>, moves |-> 0]

-----------------------------------------------------------------------------
\* Chunk floor(log2(n + 1)), which leading_zeros gives, and the offset in it.
locate(n) ==
    LET k == CHOOSE k \in 0 .. n : 2^k <= n + 1 /\ n + 1 < 2^(k + 1)
    IN [chunk |-> k, offset |-> n + 1 - 2^k]

\* Indexing panics when the chunk or the offset does not exist.
Present(n) ==
    LET at == locate(n)
    IN at.chunk < Len(chunks) /\ at.offset < Len(At(chunks, at.chunk).elems)

at(n) == At(At(chunks, locate(n).chunk).elems, locate(n).offset)

\* What iter visits: the chunks one after the other.
Flat == FlattenSeq([k \in 1 .. Len(chunks) |-> chunks[k].elems])

\* The index iter gives the first element of chunk k (1-based).
Start(k) == Len(FlattenSeq([j \in 1 .. k - 1 |-> chunks[j].elems]))

\* Fault: a chunk is allocated although truncate left an emptied one behind.
PushElementFresh(e) ==
    LET loc == locate(len)
        cs == IF loc.offset = 0
              THEN Append(chunks, WithCapacity(2^loc.chunk))
              ELSE chunks
    IN /\ chunks' = SetAt(cs, loc.chunk, VecPush(At(cs, loc.chunk), e))
       /\ len' = len + 1

\* The chunk is allocated only when its first element arrives and truncate
\* did not leave an emptied one behind.
PushElement(e) ==
    LET loc == locate(len)
        cs == IF loc.offset = 0 /\ Len(chunks) = loc.chunk
              THEN Append(chunks, WithCapacity(2^loc.chunk))
              ELSE chunks
    IN /\ loc.chunk < Len(cs)
       /\ chunks' = SetAt(cs, loc.chunk, VecPush(At(cs, loc.chunk), e))
       /\ len' = len + 1

-----------------------------------------------------------------------------
Init == chunks = <<>> /\ len = 0 /\ job = NoJob /\ ret = <<"load", <<>>, <<>>>>

Idle == job = NoJob /\ UNCHANGED job

Push(v) ==
    /\ Idle
    /\ len < MaxLen
    /\ PushElement(v)
    /\ ret' = <<"push", IdFrom(len), v>>

\* replace, and the writes through get_mut, IndexMut and iter_mut.
Replace(id, v) ==
    /\ Idle
    /\ id < len
    /\ Present(id)
    /\ LET loc == locate(id)
       IN chunks' = [chunks EXCEPT ![loc.chunk + 1].elems = SetAt(@, loc.offset, v)]
    /\ ret' = <<"replace", id, at(id)>>
    /\ UNCHANGED len

\* The positions select_mut was asked to put the element of id n in.
Want(p, n) == {i \in 1 .. Len(p.ids) : p.ids[i] = n}

\* Fault: the elements come in the order iter_mut reaches them.
RoutedInOrder(p, n, e) ==
    IF Want(p, n) = {} THEN e ELSE p.new[Cardinality(UNION {Want(p, m) : m \in 0 .. n})]

\* The element of id n afterwards: what the caller wrote at its position.
Routed(p, n, e) == IF Want(p, n) = {} THEN e ELSE p.new[CHOOSE i \in Want(p, n) : TRUE]

\* Ids out of bounds or requested twice panic before anything is borrowed;
\* otherwise one pass of iter_mut routes each element to its position.  iter_mut
\* names an element Id::from of its index, which is that index while the
\* identifiers can count the elements.
SelectMut(p) ==
    /\ Idle
    /\ \A i \in 1 .. Len(p.ids) : p.ids[i] < len /\ Want(p, p.ids[i]) = {i}
    /\ chunks' = [k \in 1 .. Len(chunks) |->
                    [chunks[k] EXCEPT !.elems =
                       [o \in 1 .. Len(@) |-> Routed(p, Start(k) + o - 1, @[o])]]]
    /\ ret' = <<"select", p.ids, [i \in 1 .. Len(p.ids) |-> At(Flat, p.ids[i])]>>
    /\ UNCHANGED len

TruncateBegin(n) ==
    /\ job = NoJob
    /\ job' = [NoJob EXCEPT !.op = "truncate", !.target = n]
    /\ UNCHANGED <<chunks, len, ret>>

\* Fault: only the length is lowered.
TruncateStepLenOnly ==
    /\ job.op = "truncate"
    /\ len > job.target
    /\ len' = len - 1
    /\ ret' = <<"pop", len - 1, at(len - 1)>>
    /\ UNCHANGED <<chunks, job>>

\* Fault: the length is not lowered.
TruncateStepStuck ==
    /\ job.op = "truncate"
    /\ len > job.target
    /\ LET loc == locate(len - 1)
       IN chunks' = [chunks EXCEPT ![loc.chunk + 1].elems = Truncate(@, loc.offset)]
    /\ UNCHANGED <<len, job, ret>>

\* Vec::truncate keeps the buffer, and the chunk stays in place when emptied.
TruncateStep ==
    /\ job.op = "truncate"
    /\ len > job.target
    /\ LET loc == locate(len - 1)
       IN /\ loc.chunk < Len(chunks)
          /\ chunks' = [chunks EXCEPT ![loc.chunk + 1].elems = Truncate(@, loc.offset)]
    /\ len' = len - 1
    /\ ret' = <<"pop", len - 1, at(len - 1)>>
    /\ UNCHANGED job

\* clone collects copies of the elements into a new registry; the owner keeps
\* the copy and drops the original.
CloneBegin ==
    /\ job = NoJob
    /\ job' = [op |-> "build", target |-> 0, source |-> Flat]
    /\ chunks' = <<>> /\ len' = 0
    /\ UNCHANGED ret

DeserializeBegin(s) ==
    /\ job = NoJob
    /\ job' = [op |-> "build", target |-> 0, source |-> s]
    /\ chunks' = <<>> /\ len' = 0
    /\ ret' = <<"load", <<>>, <<>>>>

\* from_iter pushes the elements one by one.
BuildStep ==
    /\ job.op = "build"
    /\ job.source # <<>>
    /\ PushElement(Head(job.source))
    /\ job' = [job EXCEPT !.source = Tail(@)]
    /\ UNCHANGED ret

JobEnd ==
    /\ \/ job.op = "truncate" /\ len <= job.target
       \/ job.op = "build" /\ job.source = <<>>
    /\ job' = NoJob
    /\ UNCHANGED <<chunks, len, ret>>

Next == \/ \E v \in Values : Push(v)
        \/ \E id \in 0 .. IdLimit - 1, v \in Values : Replace(id, v)
        \/ \E p \in Picks : SelectMut(p)
        \/ \E n \in 0 .. MaxLen : TruncateBegin(n)
        \/ TruncateStep
        \/ CloneBegin
        \/ \E s \in Loads : DeserializeBegin(s)
        \/ BuildStep
        \/ JobEnd

Spec == Init /\ [][Next]_vars /\ WF_vars(TruncateStep \/ BuildStep \/ JobEnd)

-----------------------------------------------------------------------------
\* The layout the indexing relies on: chunk k was allocated for 2^k elements,
\* and the chunks are filled in order, those behind len being empty.
Layout ==
    \A k \in Indices(chunks) :
        /\ At(chunks, k).cap = 2^k
        /\ Len(At(chunks, k).elems) =
              IF len <= 2^k - 1 THEN 0 ELSE IF len >= 2^(k + 1) - 1 THEN 2^k ELSE len + 1 - 2^k

\* Indexing and iterating agree: iter yields element n under id n, neither
\* skips an element nor shows one beyond len.
IterMatchesIndex == /\ Len(Flat) = len
                    /\ \A n \in 0 .. len - 1 : Present(n) /\ at(n) = At(Flat, n)

\* Where an element lives: its chunk, the buffer the chunk has, its offset.
Address(n) == [locate(n) EXCEPT !.chunk = <<@, At(chunks, @).moves>>]

\* No step of the registry moves an element that survives it; only the owner
\* replacing the whole registry does.
AddressStable ==
    [][\/ CloneBegin
       \/ \E s \in Loads : DeserializeBegin(s)
       \/ \A n \in 0 .. len - 1 : n < len' => Address(n)' = Address(n)]_vars

FlatView == INSTANCE FlatVec WITH
                vec <- Flat \o job.source,
                Loads <- Loads

\* The public API is that of a flat vector: ids are dense, index in insertion
\* order, and a clone holds what the original held.
ImplementsFlatVec == FlatView!Spec

\* truncate and the rebuilding loops end.
JobsEnd == job # NoJob ~> job = NoJob

=============================================================================
