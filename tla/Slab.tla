-------------------------------- MODULE Slab --------------------------------
(***************************************************************************)
(* What a recycling arena promises: a vector of optional payloads, and the *)
(* vacated ids in the order they will be handed out again, newest first.   *)
(***************************************************************************)
EXTENDS Vecs

CONSTANTS
    Values,
    IdLimit,    \* ids are below this bound
    None        \* the payload of a vacant id

VARIABLES
    model,      \* the payload of each id issued since the last clear
    vacant,     \* the removed ids, the most recent first
    ret         \* the last operation, the id it names and the payload it moves

Init == model = <<>> /\ vacant = <<>> /\ ret = <<"clear", 0, None>>

\* No id is issued while a vacant one is left.
Issue(v) == /\ vacant = <<>> /\ Len(model) < IdLimit
            /\ model' = Append(model, v)
            /\ ret' = <<"push", Len(model), v>>
            /\ UNCHANGED vacant

Reuse(v) == /\ vacant # <<>>
            /\ model' = SetAt(model, Head(vacant), v)
            /\ ret' = <<"push", Head(vacant), v>>
            /\ vacant' = Tail(vacant)

Take(id) == /\ At(model, id) # None
            /\ model' = SetAt(model, id, None)
            /\ ret' = <<"take", id, At(model, id)>>
            /\ vacant' = <<id>> \o vacant

Write(id, v) == /\ At(model, id) # None
                /\ model' = SetAt(model, id, v)
                /\ ret' = <<"write", id, v>>
                /\ UNCHANGED vacant

Clear == model' = <<>> /\ vacant' = <<>> /\ ret' = <<"clear", 0, None>>

Next == \/ \E v \in Values : Issue(v) \/ Reuse(v)
        \/ \E id \in Indices(model) : Take(id)
        \/ \E id \in Indices(model), v \in Values : Write(id, v)
        \/ Clear

Spec == Init /\ [][Next]_<<model, vacant, ret>>
=============================================================================
