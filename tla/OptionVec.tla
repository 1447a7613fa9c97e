----------------------------- MODULE OptionVec -----------------------------
(***************************************************************************)
(* What an identifier-issuing arena promises, with no dense storage: the   *)
(* id space is a vector of optional payloads, indexed by id.  This is the  *)
(* Vec<Option<u64>> that the tests of src/stable_arena.rs compare with.    *)
(***************************************************************************)
EXTENDS Vecs

CONSTANTS
    Values,
    IdLimit,    \* ids are below this bound
    None,       \* the payload of an id that was removed
    Loads       \* the vectors a deserialization may install

Optional == Values \cup {None}

VARIABLES
    model,
    ret         \* the last operation, the id it names and the payload it moves

Init == model = <<>> /\ ret = <<"reset", 0, None>>

Live(id) == id \in Indices(model) /\ At(model, id) # None

\* The fresh id is the number of ids issued before, so it was never issued.
Push(v) == /\ Len(model) < IdLimit
           /\ model' = Append(model, v)
           /\ ret' = <<"push", Len(model), v>>

Take(id) == /\ Live(id)
            /\ model' = SetAt(model, id, None)
            /\ ret' = <<"take", id, At(model, id)>>

Write(id, v) == /\ Live(id)
                /\ model' = SetAt(model, id, v)
                /\ ret' = <<"write", id, v>>

\* The ids from n on, all dead, stop counting as issued.
Forget(n) == /\ \A id \in Indices(model) : id >= n => ~Live(id)
             /\ model' = Truncate(model, n)
             /\ ret' = <<"forget", n, None>>

\* A new epoch: a cleared or deserialized vector.
Reset(m) == /\ model' = m
            /\ ret' = <<"reset", Len(m), None>>

Next == \/ \E v \in Values : Push(v)
        \/ \E id \in Indices(model) : Take(id)
        \/ \E id \in Indices(model), v \in Values : Write(id, v)
        \/ \E n \in 0 .. Len(model) : Forget(n)
        \/ \E m \in Loads \cup {<<>>} : Reset(m)

Spec == Init /\ [][Next]_<<model, ret>>
=============================================================================
