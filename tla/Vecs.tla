------------------------------- MODULE Vecs -------------------------------
(***************************************************************************)
(* The part of Rust's Vec that jstd relies on, over sequences.  The crate  *)
(* indexes from 0 and TLA+ sequences from 1: every access in the other     *)
(* modules goes through these operators, with the crate's own indices.     *)
(***************************************************************************)
EXTENDS Integers, Sequences

Indices(s) == 0 .. Len(s) - 1

At(s, i) == s[i + 1]

SetAt(s, i, x) == [s EXCEPT ![i + 1] = x]

\* Vec::swap_remove: the last element takes the place of the removed one.
SwapRemove(s, i) ==
    [j \in 1 .. Len(s) - 1 |-> IF j = i + 1 THEN s[Len(s)] ELSE s[j]]

\* Vec::truncate: no effect when n is not below the length.
Truncate(s, n) == IF n < Len(s) THEN SubSeq(s, 1, n) ELSE s

=============================================================================
