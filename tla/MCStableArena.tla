--------------------------- MODULE MCStableArena ---------------------------
(* A four-id, two-payload arena; every wire of up to two entries, holes,    *)
(* permuted orders and duplicate ids included, for several cursors.         *)
EXTENDS StableArenaOptionVec

MCEntry == (0 .. 3) \X Values

MCWires == [next_id : {0, 3, 5, DEAD},
            entries : {<<>>} \cup {<<e>> : e \in MCEntry}
                        \cup {<<e, f>> : e \in MCEntry, f \in MCEntry}]
=============================================================================
