------------------------------- MODULE MCIndexer -------------------------------
(***************************************************************************)
(* Small instances of Indexer for TLC.                                     *)
(***************************************************************************)
EXTENDS Indexer

CONSTANTS a1, a2

\* Without explicit peers, as by default, and with one that is listed twice and
\* is a seed, too; networks without seeds and with two.
ExplicitLists == {<<>>, <<a2, a2>>}
SeedLists == {<<>>, <<a1, a2>>}

\* Two seeds and nothing else.
NoList == {<<>>}
AllSeeds == {<<a1, a2>>}

=============================================================================
