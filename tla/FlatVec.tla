------------------------------- MODULE FlatVec -------------------------------
(***************************************************************************)
(* The flat Vec-backed registry whose public API src/registry.rs keeps:    *)
(* ids are the indices of one vector that grows and shrinks at its end.    *)
(***************************************************************************)
EXTENDS Vecs

CONSTANTS
    Values,
    Picks,      \* the lists of ids passed to select_mut, with the new values
    Loads       \* the vectors a deserialization may install

VARIABLES
    vec,
    ret         \* the last operation, the ids it names and the values it moves

Init == vec = <<>> /\ ret = <<"load", <<>>, <<>>>>

Push(v) == vec' = Append(vec, v) /\ ret' = <<"push", Len(vec), v>>

Pop == /\ vec # <<>>
       /\ vec' = SubSeq(vec, 1, Len(vec) - 1)
       /\ ret' = <<"pop", Len(vec) - 1, vec[Len(vec)]>>

Replace(id, v) == /\ vec' = SetAt(vec, id, v)
                  /\ ret' = <<"replace", id, At(vec, id)>>

\* Every requested element is the caller's to overwrite, each in the position
\* it was asked for.
Select(p) ==
    /\ \A i \in 1 .. Len(p.ids) : p.ids[i] \in Indices(vec)
    /\ vec' = [k \in 1 .. Len(vec) |->
                 IF \E i \in 1 .. Len(p.ids) : p.ids[i] = k - 1
                 THEN p.new[CHOOSE i \in 1 .. Len(p.ids) : p.ids[i] = k - 1]
                 ELSE vec[k]]
    /\ ret' = <<"select", p.ids, [i \in 1 .. Len(p.ids) |-> At(vec, p.ids[i])]>>

Load(s) == vec' = s /\ ret' = <<"load", <<>>, <<>>>>

Next == \/ \E v \in Values : Push(v)
        \/ Pop
        \/ \E id \in Indices(vec), v \in Values : Replace(id, v)
        \/ \E p \in Picks : Select(p)
        \/ \E s \in Loads : Load(s)

Spec == Init /\ [][Next]_<<vec, ret>>
=============================================================================
