----------------------------- MODULE MCIterators -----------------------------
(***************************************************************************)
(* A small instance of Iterators for TLC: two families, the name of one of *)
(* which begins with the name of the other, and keys that begin with one   *)
(* another, sit at the ends of the range of a byte, or make the storage    *)
(* key of the one family look like one of the other.                       *)
(***************************************************************************)
EXTENDS Iterators

Families == {<<2>>, <<2, 3>>}
Keys     == {<<>>, <<0>>, <<0, 3>>, <<3>>, <<255>>}

\* A key that is there or not, and what lies between two keys and after all of them.
Targets  == {<<>>, <<0>>, <<0, 0>>, <<3>>, <<255, 0>>}

=============================================================================
