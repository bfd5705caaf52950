----------------------------- MODULE MCPebbleStore -----------------------------
(***************************************************************************)
(* A small instance of PebbleStore for TLC: two families, the name of one  *)
(* of which begins with the name of the other, and keys that would lead    *)
(* from the one to the other.                                              *)
(***************************************************************************)
EXTENDS PebbleStore

CONSTANTS v1

Short == <<2>>
Long  == <<2, 3>>
Families == {Short, Long}
Keys     == {<<>>, <<3>>}

\* A Put in the shorter family, of a key that makes the name of the longer one.
SomeUpdates == {<<Short, <<3>>, v1>>}

\* A value that moves between two keys of the longer family: half of a batch leaves it
\* under both keys or under none.
SomeBatches ==
    { <<<<Long, <<>>, v1>>, <<Long, <<3>>, Absent>>>>,
      <<<<Long, <<3>>, v1>>, <<Long, <<>>, Absent>>>> }

=============================================================================
