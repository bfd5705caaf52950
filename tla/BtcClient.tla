------------------------------- MODULE BtcClient -------------------------------
(***************************************************************************)
(* What pkg/btcclient promises to its user, the abstract specification of  *)
(* PeerManager: addresses that are registered, peers that are announced    *)
(* to the lifecycle listeners, and the phases of Start and Stop.  Indexer  *)
(* is built on it.                                                         *)
(*                                                                         *)
(* The promise: the registry keeps to MaxPeers; when a Stop returns nil    *)
(* every peer that was announced as connected has been announced as        *)
(* disconnected, and none is announced after it.  A Stop that timed out    *)
(* promises nothing, and a second one ends the process.                    *)
(***************************************************************************)
EXTENDS Naturals, FiniteSets

CONSTANTS Address, MaxPeers

ASSUME ClientAssumption == IsFiniteSet(Address) /\ MaxPeers \in Nat \ {0}

VARIABLES
    members,   \* the addresses registered
    up,        \* addresses of which OnPeerConnected was the last listener called
    started,
    phase,     \* "idle" before the first Stop, "stopping" during it, and its
               \*   result "ok" or "timeout"; done is closed unless it is "idle"
    panicked

clientState == <<members, up, started, phase, panicked>>

clientAlive == panicked = "no"

ClientInit ==
    /\ members = {}
    /\ up = {}
    /\ started = FALSE
    /\ phase = "idle"
    /\ panicked = "no"

\* Start; when the client is started it returns ErrClientAlreadyStarted.
ClientStart ==
    /\ clientAlive /\ phase # "stopping"
    /\ ~started
    /\ started' = TRUE
    /\ UNCHANGED <<members, up, phase, panicked>>

HasRoom(new) == Cardinality(members \cup new) <= MaxPeers

\* AddPeer, or the new addresses of an addr message.
Register(new) ==
    /\ clientAlive
    /\ new \cap members = {}
    /\ HasRoom(new)
    /\ members' = members \cup new
    /\ UNCHANGED <<up, started, phase, panicked>>

\* RemovePeer, an eviction, or a health check.  A peer removed before may still
\* be up under the same address.
Leave(gone) ==
    /\ clientAlive
    /\ gone \subseteq members
    /\ members' = members \ gone
    /\ \E told \in SUBSET gone : up' = up \ told
    /\ UNCHANGED <<started, phase, panicked>>

\* OnPeerConnected, of a peer that may be on its way out.
Announce(a) ==
    /\ clientAlive
    /\ phase # "ok"
    /\ up' = up \cup {a}
    /\ UNCHANGED <<members, started, phase, panicked>>

\* OnPeerDisconnected.
Lose(a) ==
    /\ clientAlive
    /\ up' = up \ {a}
    /\ UNCHANGED <<members, started, phase, panicked>>

\* Stop; when the client is not started it returns ErrClientNotStarted.
StopBegins ==
    /\ clientAlive /\ phase # "stopping"
    /\ started
    /\ IF phase = "idle"
       THEN phase' = "stopping" /\ UNCHANGED panicked
       ELSE panicked' = "close of closed channel" /\ UNCHANGED phase
    /\ UNCHANGED <<members, up, started>>

StopReturnsNil ==
    /\ clientAlive /\ phase = "stopping"
    /\ up = {}
    /\ phase' = "ok"
    /\ started' = FALSE
    /\ UNCHANGED <<members, up, panicked>>

StopReturnsTimeout ==
    /\ clientAlive /\ phase = "stopping"
    /\ phase' = "timeout"
    /\ UNCHANGED <<members, up, started, panicked>>

\* A peer registered while a Stop waits, or has stopped waiting.
WaitPanics ==
    /\ clientAlive /\ phase \in {"stopping", "timeout"}
    /\ panicked' = "WaitGroup is reused"
    /\ UNCHANGED <<members, up, started, phase>>

\* What happens without a call.
PeersChange ==
    \/ \E S \in SUBSET Address : Register(S) \/ Leave(S)
    \/ \E a \in Address : Announce(a) \/ Lose(a)
    \/ WaitPanics

ClientNext ==
    \/ ClientStart
    \/ StopBegins \/ StopReturnsNil \/ StopReturnsTimeout
    \/ PeersChange

ClientSpec == ClientInit /\ [][ClientNext]_clientState

=============================================================================
