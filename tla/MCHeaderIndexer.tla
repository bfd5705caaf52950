--------------------------- MODULE MCHeaderIndexer ---------------------------
(***************************************************************************)
(* Small instances of HeaderIndexer for TLC.                               *)
(***************************************************************************)
EXTENDS HeaderIndexer, TLC

PeerSymmetry == Permutations(Peer)

=============================================================================
