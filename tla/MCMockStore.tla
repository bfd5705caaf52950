------------------------------ MODULE MCMockStore ------------------------------
(***************************************************************************)
(* A small instance of MockStore for TLC: two goroutines, two families and *)
(* two keys, which one commit may write together.                          *)
(***************************************************************************)
EXTENDS MockStore

CONSTANTS f1, f2, k1, k2, v1

SomeUpdates == {<<f2, k1, v1>>, <<f2, k1, Absent>>}

\* A value that moves between two keys of one family, and one that is put and deleted
\* again while another is put: half of a batch leaves a value in two places, in none, or
\* where it is not to stay.
SomeBatches ==
    { <<<<f1, k1, v1>>, <<f1, k2, Absent>>>>,
      <<<<f1, k2, v1>>, <<f1, k1, Absent>>>>,
      <<<<f1, k1, v1>>, <<f2, k2, v1>>, <<f1, k1, Absent>>>> }

=============================================================================
