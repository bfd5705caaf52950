---------------------------- MODULE HeaderIndexer ----------------------------
(***************************************************************************)
(* The header indexer of examples/headerindexer: the listeners a program   *)
(* gives to btcclient to follow the headers of the best chain.             *)
(*                                                                         *)
(* A header is its height on the one chain all remotes share, and so is    *)
(* its hash; 0 is the genesis block.  Each peer has two goroutines that    *)
(* call listeners: its connectionLoop (onPeerConnected) and btcd's input   *)
(* handler (onHeaders, onInv).  idx.mu makes their critical sections       *)
(* atomic; what they do after Unlock is a step of its own.  The handler of *)
(* a connection that ended finishes before that of the next one starts;    *)
(* two handlers that run at once are those of two peers.                   *)
(***************************************************************************)
EXTENDS Naturals, Sequences, SequencesExt

CONSTANTS
    Peer,          \* the peers the client connects to
    BatchSize,     \* 2000 in the protocol: the most headers in one message
    InitialBest,   \* height of the chain when the program starts
    MaxBest,       \* bound: the height it grows to
    MaxConnects,   \* bound: how often a peer connects
    MaxQueue       \* bound: messages on their way from a peer

ASSUME ChainAssumption ==
    /\ BatchSize \in Nat \ {0}
    /\ InitialBest \in Nat /\ MaxBest \in Nat /\ InitialBest <= MaxBest
    /\ MaxConnects \in Nat /\ MaxQueue \in Nat

VARIABLES
    headers,    \* idx.headers
    tipHash,    \* idx.tipHash
    synced,     \* idx.synced
    loopAsks,   \* peer -> {from}: onPeerConnected has read the tip, not yet asked
    handler,    \* peer -> what its input handler does after the Unlock
    requests,   \* peer -> getheaders messages on their way, each its locator
    inbox,      \* peer -> headers and inv messages on their way
    connected,  \* peer -> mp.Peer() is not nil
    connects,   \* peer -> number of connections so far (for the bound)
    best        \* height of the chain

idxVars  == <<headers, tipHash, synced>>
linkVars == <<connected, connects>>
vars == <<idxVars, loopAsks, handler, requests, inbox, linkVars, best>>

Height == 0..MaxBest

\* What an input handler may be about to do; "ask" carries the tip it read.
Idle == [do |-> "nothing"]
Ask(from) == [do |-> "ask", from |-> from]
SetSynced == [do |-> "set synced"]

Init ==
    /\ headers = <<>>
    /\ tipHash = 0
    /\ synced = FALSE
    /\ loopAsks = [p \in Peer |-> {}]
    /\ handler = [p \in Peer |-> Idle]
    /\ requests = [p \in Peer |-> <<>>]
    /\ inbox = [p \in Peer |-> <<>>]
    /\ connected = [p \in Peer |-> FALSE]
    /\ connects = [p \in Peer |-> 0]
    /\ best = InitialBest

-----------------------------------------------------------------------------
(* The listeners. *)

\* requestHeaders: nothing when mp.Peer() is nil.
requestHeaders(p, from) ==
    requests' = IF connected[p] THEN [requests EXCEPT ![p] = Append(@, from)]
                ELSE requests

\* The critical section of onPeerConnected, at the start of a connection.
OnPeerConnected(p) ==
    /\ ~connected[p] /\ connects[p] < MaxConnects
    /\ loopAsks[p] = {}
    /\ connected' = [connected EXCEPT ![p] = TRUE]
    /\ connects' = [connects EXCEPT ![p] = @ + 1]
    /\ loopAsks' = [loopAsks EXCEPT ![p] = {tipHash}]
    /\ UNCHANGED <<idxVars, handler, requests, inbox, best>>

LoopAsks(p) ==
    /\ \E from \in loopAsks[p] : requestHeaders(p, from)
    /\ loopAsks' = [loopAsks EXCEPT ![p] = {}]
    /\ UNCHANGED <<idxVars, handler, inbox, linkVars, best>>

\* Mutants: any batch ends the initial sync; the locator is the header after
\* the tip.
afterAnyHeaders(batch) == SetSynced
askFromNext(batch) == IF Len(batch) = BatchSize THEN Ask(tipHash' + 1) ELSE SetSynced

\* A full batch means there is more, after the tip it left.
afterHeaders(batch) == IF Len(batch) = BatchSize THEN Ask(tipHash') ELSE SetSynced

\* The loop of onHeaders: append each header, the last one is the tip.
append(batch) ==
    /\ headers' = headers \o batch
    /\ tipHash' = Last(batch)

\* The input handler takes the next message.  An empty headers message is
\* ignored; an inv for a block reads the tip, and is ignored before synced.
OnHeaders(p) ==
    /\ handler[p] = Idle /\ inbox[p] # <<>>
    /\ Head(inbox[p]).type = "headers"
    /\ inbox' = [inbox EXCEPT ![p] = Tail(@)]
    /\ LET batch == Head(inbox[p]).batch
       IN IF batch = <<>>
          THEN UNCHANGED <<headers, tipHash, handler>>
          ELSE /\ append(batch)
               /\ handler' = [handler EXCEPT ![p] = afterHeaders(batch)]
    /\ UNCHANGED <<synced, loopAsks, requests, linkVars, best>>

OnInv(p) ==
    /\ handler[p] = Idle /\ inbox[p] # <<>>
    /\ Head(inbox[p]).type = "inv"
    /\ inbox' = [inbox EXCEPT ![p] = Tail(@)]
    /\ handler' = [handler EXCEPT ![p] = IF synced THEN Ask(tipHash) ELSE Idle]
    /\ UNCHANGED <<idxVars, loopAsks, requests, linkVars, best>>

\* What onHeaders and onInv do after their critical section.
HandlerAsks(p) ==
    /\ handler[p].do = "ask"
    /\ requestHeaders(p, handler[p].from)
    /\ handler' = [handler EXCEPT ![p] = Idle]
    /\ UNCHANGED <<idxVars, loopAsks, inbox, linkVars, best>>

HandlerSetsSynced(p) ==
    /\ handler[p].do = "set synced"
    /\ synced' = TRUE
    /\ handler' = [handler EXCEPT ![p] = Idle]
    /\ UNCHANGED <<headers, tipHash, loopAsks, requests, inbox, linkVars, best>>

-----------------------------------------------------------------------------
(* The remotes: they answer getheaders in order, with the headers after the
   locator and an empty message when there are none, and announce blocks. *)

headersAfter(from) ==
    [i \in 1..(IF best - from > BatchSize THEN BatchSize ELSE best - from) |-> from + i]

Serve(p) ==
    /\ requests[p] # <<>> /\ Len(inbox[p]) < MaxQueue
    /\ requests' = [requests EXCEPT ![p] = Tail(@)]
    /\ inbox' = [inbox EXCEPT ![p] =
                   Append(@, [type |-> "headers", batch |-> headersAfter(Head(requests[p]))])]
    /\ UNCHANGED <<idxVars, loopAsks, handler, linkVars, best>>

\* A new block; the connected peers with room in their queues announce it.
NewBlock ==
    /\ best < MaxBest
    /\ best' = best + 1
    /\ inbox' = [p \in Peer |-> IF connected[p] /\ Len(inbox[p]) < MaxQueue
                                THEN Append(inbox[p], [type |-> "inv"]) ELSE inbox[p]]
    /\ UNCHANGED <<idxVars, loopAsks, handler, requests, linkVars>>

\* The connection ends with what was on its way; the handlers do not.
Disconnect(p) ==
    /\ connected[p]
    /\ connected' = [connected EXCEPT ![p] = FALSE]
    /\ requests' = [requests EXCEPT ![p] = <<>>]
    /\ inbox' = [inbox EXCEPT ![p] = <<>>]
    /\ UNCHANGED <<idxVars, loopAsks, handler, connects, best>>

-----------------------------------------------------------------------------

PeerStep(p) ==
    \/ OnPeerConnected(p) \/ LoopAsks(p)
    \/ OnHeaders(p) \/ OnInv(p) \/ HandlerAsks(p) \/ HandlerSetsSynced(p)
    \/ Serve(p)

Next == NewBlock \/ \E p \in Peer : PeerStep(p) \/ Disconnect(p)

Spec == Init /\ [][Next]_vars

\* Goroutines run, remotes answer; blocks and disconnections just happen.  The
\* loop of a peer connects again (btcclient does, see KeepsReconnecting there).
Fairness ==
    \A p \in Peer :
        /\ WF_vars(OnPeerConnected(p)) /\ WF_vars(LoopAsks(p))
        /\ WF_vars(OnHeaders(p) \/ OnInv(p) \/ HandlerAsks(p) \/ HandlerSetsSynced(p))
        /\ WF_vars(Serve(p))

FairSpec == Spec /\ Fairness

-----------------------------------------------------------------------------
(* Properties. *)

Message == [type : {"inv"}] \cup [type : {"headers"}, batch : Seq(Height)]
Doing   == {Idle, SetSynced} \cup {Ask(h) : h \in Height}

TypeOK ==
    /\ headers \in Seq(Height)
    /\ tipHash \in Height
    /\ synced \in BOOLEAN
    /\ loopAsks \in [Peer -> SUBSET Height]
    /\ handler \in [Peer -> Doing]
    /\ requests \in [Peer -> Seq(Height)]
    /\ inbox \in [Peer -> Seq(Message)]
    /\ connected \in [Peer -> BOOLEAN]
    /\ connects \in [Peer -> 0..MaxConnects]
    /\ best \in Height

Indexed == {headers[i] : i \in DOMAIN headers}

\* Whatever the peers send and in whatever order their handlers run, no header
\* is indexed before the one it extends: requests start at a tip that is indexed.
NoGaps ==
    \A i \in DOMAIN headers :
        headers[i] = 1 \/ \E j \in 1..(i - 1) : headers[j] = headers[i] - 1

\* The initial sync is not declared complete before every header the chain had
\* when the program started is indexed.
SyncedMeansCaughtUp == synced => 1..InitialBest \subseteq Indexed

\* A peer that stays connected brings all the headers the chain started with.
CatchesUp ==
    \A p \in Peer : <>[]connected[p] => <>(1..InitialBest \subseteq Indexed)

-----------------------------------------------------------------------------
(* What the comments say and the code does not do. *)

\* main.go:35 "height returns the current synced header height": the number of
\* headers is the height, so each header is indexed once and in its place.
HeadersAreTheChain == \A i \in DOMAIN headers : headers[i] = i

\* main.go:76 "A full batch (2000) means there are more headers available": so a
\* last batch that is not full comes, and completes the initial sync.
SyncCompletes == \A p \in Peer : <>[]connected[p] => <>synced

=============================================================================
