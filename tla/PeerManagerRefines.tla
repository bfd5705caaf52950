-------------------------- MODULE PeerManagerRefines --------------------------
(***************************************************************************)
(* PeerManager implements BtcClient: the objects of an address count as    *)
(* that address, a peer is up while its last listener was OnPeerConnected, *)
(* and the three steps of Stop are one phase.                              *)
(***************************************************************************)
EXTENDS PeerManager

membersOf == {addressOf(mp) : mp \in peers}
upOf == {addressOf(mp) : mp \in {m \in ManagedPeer : told[m] = "connected"}}
phaseOf == IF stop \in {"closed", "swept"} THEN "stopping" ELSE stop

Client == INSTANCE BtcClient WITH members <- membersOf, up <- upOf, phase <- phaseOf

\* What the users of btcclient rely on: every step of the loops, the health
\* check, discovery and Stop is a step of the abstract client, or none.  So a
\* Stop that returned nil has ended every connection it was told of, for good.
ImplementsBtcClient == Client!ClientSpec

=============================================================================
