----------------------------- MODULE MCCallbacks -----------------------------
(***************************************************************************)
(* A small instance of Callbacks for TLC, with the listeners that the code *)
(* supports, and two with listeners that it does not.                      *)
(***************************************************************************)
EXTENDS Callbacks

CONSTANT c1

None == [listener \in Listener |-> {}]

\* OnPeerDisconnected calls nothing, since removePeer calls it under both locks; and
\* without a deadline for Stop OnPeerConnected, for which Stop waits, calls nothing
\* that waits for Stop.
Supported ==
    [withDeadline \in BOOLEAN |->
        [None EXCEPT !["OnMessage"] = Callback, !["OnAddr"] = Callback,
                     !["OnPeerConnected"] =
                         IF withDeadline THEN Callback ELSE {"PeerCount"}]]

\* A listener that asks for the number of peers when one is gone.
CountsOnDisconnect ==
    [withDeadline \in BOOLEAN |-> [None EXCEPT !["OnPeerDisconnected"] = {"PeerCount"}]]

\* A listener that adds a peer when one has connected, and a Stop without a deadline.
AddsOnConnect ==
    [withDeadline \in BOOLEAN |-> [None EXCEPT !["OnPeerConnected"] = {"AddPeer"}]]

Turns == [g \in Goroutine |-> IF g = c1 THEN 2 ELSE 1]

=============================================================================
