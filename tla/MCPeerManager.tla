--------------------------- MODULE MCPeerManager ---------------------------
(***************************************************************************)
(* Small instances of PeerManager for TLC.                                 *)
(***************************************************************************)
EXTENDS PeerManagerClaims, PeerManagerRefines, TLC

CONSTANTS a1, a2, a3

\* One object for each address; and a second one for the first address, which
\* is thereby removed and registered again while its first loop may still run.
OneEach == Address \X {1}
FirstTwice == OneEach \cup {<<a1, 2>>}

\* A remote that tells of every address there is, its own included.
AllAddresses == {Address}

AddressSymmetry == Permutations(Address)

=============================================================================
