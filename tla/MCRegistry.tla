----------------------------- MODULE MCRegistry -----------------------------
(* Up to seven elements fill the chunks of one, two and four.               *)
EXTENDS Registry

CONSTANTS v1, v2

MCPicks == {[ids |-> <<5, 1>>, new |-> <<v1, v2>>], [ids |-> <<2>>, new |-> <<v2>>],
            [ids |-> <<0, 0>>, new |-> <<v1, v2>>], [ids |-> <<0, 2, 1>>, new |-> <<v2, v1, v1>>]}

MCLoads == {<<>>, <<v1, v2, v1, v1>>}
=============================================================================
