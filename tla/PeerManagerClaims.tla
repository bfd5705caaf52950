-------------------------- MODULE PeerManagerClaims --------------------------
(***************************************************************************)
(* What the comments of pkg/btcclient and docs/pkg/btcclient.md say of the *)
(* peer manager and PeerManager.tla, translated from the code, does not    *)
(* satisfy.  Each one is checked by a run of its own, which ends with a    *)
(* counterexample; the README tells them.                                  *)
(***************************************************************************)
EXTENDS PeerManager

\* manager.go:233 "evictPeer ... removes the peer": the entry that an eviction
\* deletes is that of the peer whose loop evicts, not of its successor.
EvictsOnlyItself ==
    [][\A mp \in ManagedPeer :
          loop[mp] = "evicting" /\ loop'[mp] = "exited" => peers \ peers' \subseteq {mp}]_vars

\* manager.go:102 "until the peer context or manager done channel is closed":
\* the connection loop ends when its context does.
CancelledLoopExits ==
    \A mp \in ManagedPeer :
        mp \in Live /\ ctx[mp] = "done" ~> (loop[mp] = "exited" \/ ~alive)

\* client.go:59 "Stop gracefully shuts down all peers": after the sweep no
\* connection is left open, so that Stop can return.
StopDisconnectsAll == stop = "swept" => \A mp \in ManagedPeer : ~Up(mp)

\* client.go:108 "RemovePeer disconnects and removes the peer", manager.go:79: what
\* leaves the registry has no connection that is open.
RemovalDisconnectsAll == [][\A mp \in peers \ peers' : ~Up(mp)']_vars

\* client.go:59 "and waits for goroutines to finish": when Stop has returned nil
\* no connectionLoop is running.
StopWaitsForAll == stop = "ok" => Live = {}

\* config.go:75 and docs/pkg/btcclient.md:58, MaxPeers is the "maximum number of
\* concurrent peer connections".
ConnectionsWithinMaxPeers == Cardinality({mp \in ManagedPeer : Up(mp)}) <= MaxPeers

\* docs/pkg/btcclient.md:94, Connected means "Handshake complete, peer is active".
ConnectedIsNegotiated ==
    \A mp \in ManagedPeer : status[mp] = "connected" => conn[mp] # "open"

\* docs/pkg/btcclient.md:86 and 119: a peer that accumulates MaxFailureCount
\* failures is marked Unhealthy.
GivenUpIsMarked ==
    [][\A mp \in peers \ peers' : GaveUp(mp) => status'[mp] = "unhealthy"]_vars

\* client.go:60, docs/pkg/btcclient.md:154 and 158: Stop returns nil or an error;
\* a second one does not bring the process down.
StopIsRepeatable == panicked # "close of closed channel"

\* client.go:59 "Stop gracefully shuts down": the Wait it starts does not panic.
WaitGroupNotReused == panicked # "WaitGroup is reused"

=============================================================================
