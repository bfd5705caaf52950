------------------------------ MODULE PeerManager ------------------------------
(***************************************************************************)
(* The peer manager of pkg/btcclient: BtcClient (the public API),          *)
(* PeerManager (the registry, one connectionLoop goroutine per peer, the   *)
(* health-check goroutine, peer discovery) and ManagedPeer.                *)
(*                                                                         *)
(* A step is what one goroutine does between two points where another one  *)
(* can act.  Most critical sections of peersMu and BtcClient.mu are one    *)
(* step; two are spelled out: a removal, which holds peersMu while the     *)
(* peer's own loop goes on (peersMu, removal), and Stop, which holds       *)
(* BtcClient.mu until it returns (muFree).                                 *)
(***************************************************************************)
EXTENDS Naturals, FiniteSets

CONSTANTS
    Address,          \* addresses a peer can have, the keys of pm.peers
    MaxPeers,         \* Config.MaxPeers
    MaxFailureCount,  \* Config.MaxFailureCount
    AddrMsg,          \* the address lists a remote may send in an addr message
    ManagedPeer       \* bound: the ManagedPeer objects there may ever be

\* Config.validate, and the shape of the inputs.
ASSUME ConfigAssumption ==
    /\ IsFiniteSet(Address)
    /\ MaxPeers \in Nat \ {0}
    /\ MaxFailureCount \in Nat \ {0}
    /\ AddrMsg \subseteq SUBSET Address
    /\ IsFiniteSet(ManagedPeer)
    /\ ManagedPeer \subseteq Address \X Nat

\* A ManagedPeer object is its address and which of the objects made for that
\* address it is.  An object is never reused.
addressOf(mp) == mp[1]

PeerStatus == {"disconnected", "connecting", "connected", "unhealthy"}

\* Where connectionLoop(mp) is; "none" before the object exists.
LoopPoint == {"none", "top", "dial", "dialed", "attached", "waiting",
              "evict", "evicting", "delay", "exited"}

\* Who holds peersMu from one step to the next: a removal that RemovePeer, an
\* eviction or a health check has begun, or no one.
Holder == {"free", "caller", "loop", "health"}

VARIABLES
    peers,         \* the values of pm.peers; the key of each is its address
    peersMu,       \* the Holder of it
    removal,       \* mp -> how far removePeer is with it: "no", "listed" (by a
                   \*   health check), "cancelled" or "disconnected"
    loop,          \* mp -> where its connectionLoop is
    ctx,           \* mp -> "caller" or "background" (its parent), or "done"
    conn,          \* mp -> the btcd peer of its current connection: "none",
                   \*       "open" (negotiating), "ready", "closed"
    attached,      \* mp -> mp.peer # nil
    status,        \* mp -> mp.status
    failureCount,  \* mp -> mp.failureCount
    told,          \* mp -> the last lifecycle listener called with it
    inflight,      \* addr messages read but not yet given to addDiscoveredPeers
    started,       \* pm.started
    done,          \* pm.done is closed
    wg,            \* the counter of pm.wg
    healthLoop,    \* healthCheckLoop is running
    stop,          \* where Stop is, or how the last one returned
    waiter,        \* the goroutine Stop leaves in pm.wg.Wait()
    panicked       \* what the process died of in a panic, or "no"

registry   == <<peers, peersMu, removal>>
loopVars   == <<loop, status, failureCount, attached>>
clientVars == <<started, done, healthLoop, stop, waiter>>
vars == <<peers, peersMu, removal, loop, ctx, conn, attached, status, failureCount, told,
          inflight, started, done, wg, healthLoop, stop, waiter, panicked>>

Running == {"top", "dial", "dialed", "attached", "waiting", "evict", "evicting", "delay"}
Live    == {mp \in ManagedPeer : loop[mp] \in Running}
Up(mp)  == conn[mp] \in {"open", "ready"}

\* The process has not died in a panic.
alive == panicked = "no"

\* BtcClient.mu is free: no Stop and no RemovePeer is between its Lock and its
\* deferred Unlock.
muFree == stop \in {"idle", "ok", "timeout"} /\ peersMu # "caller"

Init ==
    /\ peers = {}
    /\ peersMu = "free"
    /\ removal = [mp \in ManagedPeer |-> "no"]
    /\ loop = [mp \in ManagedPeer |-> "none"]
    /\ ctx = [mp \in ManagedPeer |-> "background"]
    /\ conn = [mp \in ManagedPeer |-> "none"]
    /\ attached = [mp \in ManagedPeer |-> FALSE]
    /\ status = [mp \in ManagedPeer |-> "disconnected"]
    /\ failureCount = [mp \in ManagedPeer |-> 0]
    /\ told = [mp \in ManagedPeer |-> "none"]
    /\ inflight = {}
    /\ started = FALSE
    /\ done = FALSE
    /\ wg = 0
    /\ healthLoop = FALSE
    /\ stop = "idle"
    /\ waiter = "none"
    /\ panicked = "no"

-----------------------------------------------------------------------------
(* The registry: callers hold peersMu. *)

\* The next object for each address, while there is one.
Fresh == {mp \in ManagedPeer :
            /\ loop[mp] = "none"
            /\ \A older \in ManagedPeer :
                  addressOf(older) = addressOf(mp) /\ older[2] < mp[2]
                      => loop[older] # "none"}

Exists(a) == \E mp \in peers : addressOf(mp) = a

FitsOneMore(n) == Cardinality(peers) + n <= MaxPeers + 1  \* mutant: > for >=

\* The registry is not full before each of n additions.
Fits(n) == Cardinality(peers) + n <= MaxPeers

wgAddOne(n) == wg' = wg + 1      \* mutant: one wg.Add(1) for a whole addr message
wgAddLater(n) == UNCHANGED wg    \* mutant: wg.Add is left to the goroutine
wgAdd(n) == wg' = wg + n

\* Insert new objects, wg.Add(1) and go connectionLoop for each.
register(new, parent) ==
    /\ peers' = peers \cup new
    /\ loop' = [mp \in ManagedPeer |-> IF mp \in new THEN "top" ELSE loop[mp]]
    /\ ctx' = [mp \in ManagedPeer |-> IF mp \in new THEN parent ELSE ctx[mp]]
    /\ wgAdd(Cardinality(new))

tellNobody(S) == UNCHANGED told  \* mutant: the listener is forgotten

\* OnPeerDisconnected(mp), for each.
tellDisconnected(S) ==
    told' = [mp \in ManagedPeer |-> IF mp \in S THEN "disconnected" ELSE told[mp]]

cancelNothing(S) == UNCHANGED ctx  \* mutant

\* mp.cancel(), for each.
cancel(S) == ctx' = [mp \in ManagedPeer |-> IF mp \in S THEN "done" ELSE ctx[mp]]

\* p.Disconnect() where mp.Peer() is not nil.  The two calls are one step: only the
\* peer's own loop changes mp.peer, and if it comes between them, it has set one
\* that was not seen, or has cleared one that is closed.
disconnect(S) ==
    conn' = [mp \in ManagedPeer |->
               IF mp \in S /\ attached[mp] THEN "closed" ELSE conn[mp]]

\* removePeer in three steps, with peersMu held: cancel the first of the entries S
\* that the holder removes ...
startRemoval(S, holder) ==
    /\ peersMu' = holder
    /\ \E first \in S :
         /\ cancel({first})
         /\ removal' = [mp \in ManagedPeer |->
                          IF mp = first THEN "cancelled"
                          ELSE IF mp \in S THEN "listed" ELSE removal[mp]]

\* ... disconnect it ...
RemovalDisconnects(mp) ==
    /\ alive /\ removal[mp] = "cancelled"
    /\ disconnect({mp})
    /\ removal' = [removal EXCEPT ![mp] = "disconnected"]
    /\ UNCHANGED <<peers, peersMu, loopVars, ctx, told, inflight, wg, clientVars,
                   panicked>>

\* ... delete it, which no one sees without peersMu, and call the listener.
deleteEntry(mp) ==
    /\ removal[mp] = "disconnected"
    /\ peers' = peers \ {mp}
    /\ tellDisconnected({mp})
    /\ removal' = [removal EXCEPT ![mp] = "no"]

entryFor(a) == {mp \in peers : addressOf(mp) = a}

-----------------------------------------------------------------------------
(* BtcClient: Start, AddPeer, RemovePeer, Stop. *)

Start ==
    /\ alive /\ muFree /\ ~started
    /\ started' = TRUE
    /\ healthLoop' = TRUE
    /\ wg' = wg + 1
    /\ UNCHANGED <<registry, loopVars, ctx, conn, told, inflight, done, stop,
                   waiter, panicked>>

AddPeer(a) ==
    /\ alive /\ muFree
    /\ peersMu = "free"
    /\ ~Exists(a)
    /\ Fits(1)
    /\ \E mp \in Fresh : addressOf(mp) = a /\ register({mp}, "caller")
    /\ UNCHANGED <<peersMu, removal, conn, attached, status, failureCount, told,
                   inflight, clientVars, panicked>>

RemovePeer(a) ==
    /\ alive /\ muFree /\ peersMu = "free"
    /\ Exists(a)
    /\ startRemoval(entryFor(a), "caller")
    /\ UNCHANGED <<peers, loopVars, conn, told, inflight, wg, clientVars, panicked>>

RemovePeerReturns(mp) ==
    /\ alive /\ peersMu = "caller"
    /\ deleteEntry(mp)
    /\ peersMu' = "free"
    /\ UNCHANGED <<loopVars, ctx, conn, inflight, wg, clientVars, panicked>>

\* The caller cancels the context it passed to AddPeer.
ContextDone(mp) ==
    /\ alive /\ ctx[mp] = "caller"
    /\ ctx' = [ctx EXCEPT ![mp] = "done"]
    /\ UNCHANGED <<registry, loopVars, conn, told, inflight, wg, clientVars, panicked>>

\* close(pm.done) under BtcClient.mu; closing it a second time panics.
StopCloses ==
    /\ alive /\ muFree /\ started
    /\ IF done
       THEN panicked' = "close of closed channel" /\ UNCHANGED <<done, stop>>
       ELSE done' = TRUE /\ stop' = "closed" /\ UNCHANGED panicked
    /\ UNCHANGED <<registry, loopVars, ctx, conn, told, inflight, wg, started,
                   healthLoop, waiter>>

\* The range over pm.peers under peersMu; entries stay registered.  Then the
\* goroutine that waits for the others is started.
StopSweeps ==
    /\ alive /\ stop = "closed" /\ peersMu = "free"
    /\ cancel(peers) /\ disconnect(peers)
    /\ stop' = "swept"
    /\ waiter' = "waiting"
    /\ UNCHANGED <<registry, loopVars, told, inflight, wg, started, done, healthLoop,
                   panicked>>

StopSucceeds ==
    /\ alive /\ stop = "swept"
    /\ waiter = "returned"
    /\ stop' = "ok"
    /\ started' = FALSE
    /\ UNCHANGED <<registry, loopVars, ctx, conn, told, inflight, done, wg, healthLoop,
                   waiter, panicked>>

\* Stop's own context expires first: ErrStopTimeout, and started stays true.
StopTimesOut ==
    /\ alive /\ stop = "swept"
    /\ stop' = "timeout"
    /\ UNCHANGED <<registry, loopVars, ctx, conn, told, inflight, wg, started, done,
                   healthLoop, waiter, panicked>>

\* sync.WaitGroup.Wait finds the counter at zero, or the last Done wakes it ...
WaitReleased ==
    /\ alive /\ waiter = "waiting"
    /\ wg = 0
    /\ waiter' = "released"
    /\ UNCHANGED <<registry, loopVars, ctx, conn, told, inflight, wg, started, done,
                   healthLoop, stop, panicked>>

\* ... and it returns; woken after an Add that followed that Done, it panics.
WaitReturns ==
    /\ alive /\ waiter = "released"
    /\ \/ waiter' = "returned" /\ UNCHANGED panicked
       \/ wg # 0 /\ panicked' = "WaitGroup is reused" /\ UNCHANGED waiter
    /\ UNCHANGED <<registry, loopVars, ctx, conn, told, inflight, wg, started, done,
                   healthLoop, stop>>

-----------------------------------------------------------------------------
(* connectionLoop(mp). *)

goto(mp, point) == loop' = [loop EXCEPT ![mp] = point]
setStatus(mp, s) == status' = [status EXCEPT ![mp] = s]
clearNothing(mp) == UNCHANGED attached  \* mutant
clearPeer(mp) == attached' = [attached EXCEPT ![mp] = FALSE]

StoppingIgnoresDone(mp) == ctx[mp] = "done"  \* mutant

\* pm.isStopping() || mp.ctx.Err() != nil
Stopping(mp) == done \/ ctx[mp] = "done"

\* return, with the deferred wg.Done().
return(mp) ==
    /\ goto(mp, "exited")
    /\ wg' = wg - 1

LoopQuits(mp) ==
    /\ alive /\ loop[mp] = "top"
    /\ Stopping(mp)
    /\ return(mp)
    /\ UNCHANGED <<registry, ctx, conn, attached, status, failureCount, told, inflight,
                   clientVars, panicked>>

LoopDials(mp) ==
    /\ alive /\ loop[mp] = "top"
    /\ ~Stopping(mp)
    /\ goto(mp, "dial")
    /\ setStatus(mp, "connecting")
    /\ UNCHANGED <<registry, ctx, conn, attached, failureCount, told, inflight, wg,
                   clientVars, panicked>>

\* Mutant: the dial is not bound to the context.
DialSucceedsAnyway(mp) ==
    /\ alive /\ loop[mp] = "dial"
    /\ goto(mp, "dialed")
    /\ conn' = [conn EXCEPT ![mp] = "open"]
    /\ UNCHANGED <<registry, ctx, attached, status, failureCount, told, inflight, wg,
                   clientVars, panicked>>

\* DialContext, NewOutboundPeer and AssociateConnection succeed.  DialContext
\* does not succeed on a context that is done; nothing after it looks at ctx.
DialSucceeds(mp) ==
    /\ alive /\ loop[mp] = "dial"
    /\ ctx[mp] # "done"
    /\ goto(mp, "dialed")
    /\ conn' = [conn EXCEPT ![mp] = "open"]
    /\ UNCHANGED <<registry, ctx, attached, status, failureCount, told, inflight, wg,
                   clientVars, panicked>>

\* mp.setPeer(p), the last thing dial does.
DialAttaches(mp) ==
    /\ alive /\ loop[mp] = "dialed"
    /\ goto(mp, "attached")
    /\ attached' = [attached EXCEPT ![mp] = TRUE]
    /\ UNCHANGED <<registry, ctx, conn, status, failureCount, told, inflight, wg,
                   clientVars, panicked>>

GaveUpTooLate(mp) == failureCount[mp] > MaxFailureCount  \* mutant
GaveUp(mp) == failureCount[mp] >= MaxFailureCount

\* Mutant: the threshold is compared with the count before the increment.
DialFailsStale(mp) ==
    /\ alive /\ loop[mp] = "dial"
    /\ setStatus(mp, "disconnected")
    /\ failureCount' = [failureCount EXCEPT ![mp] = @ + 1]
    /\ goto(mp, IF GaveUp(mp) THEN "evict" ELSE "delay")
    /\ UNCHANGED <<registry, ctx, conn, attached, told, inflight, wg, clientVars,
                   panicked>>

\* dial returns an error: a refused or timed-out connection, a context that is
\* done, a malformed address.  incrementFailure, then the threshold decides.
DialFails(mp) ==
    /\ alive /\ loop[mp] = "dial"
    /\ setStatus(mp, "disconnected")
    /\ failureCount' = [failureCount EXCEPT ![mp] = @ + 1]
    /\ goto(mp, IF GaveUp(mp)' THEN "evict" ELSE "delay")
    /\ UNCHANGED <<registry, ctx, conn, attached, told, inflight, wg, clientVars,
                   panicked>>

\* Mutant: the loop returns and leaves its entry to the health check.
EvictNobody(mp) ==
    /\ alive /\ loop[mp] = "evict"
    /\ return(mp)
    /\ UNCHANGED <<registry, ctx, conn, attached, status, failureCount, told, inflight,
                   clientVars, panicked>>

\* evictPeer(mp): removePeer(mp.address), whatever is registered there by the
\* time peersMu is acquired, ...
EvictPeer(mp) ==
    /\ alive /\ loop[mp] = "evict" /\ peersMu = "free"
    /\ goto(mp, "evicting")
    /\ startRemoval(entryFor(addressOf(mp)), "loop")
    /\ UNCHANGED <<peers, conn, attached, status, failureCount, told, inflight, wg,
                   clientVars, panicked>>

EvictFindsNone(mp) ==
    /\ alive /\ loop[mp] = "evict" /\ peersMu = "free"
    /\ ~Exists(addressOf(mp))
    /\ return(mp)
    /\ UNCHANGED <<registry, ctx, conn, attached, status, failureCount, told, inflight,
                   clientVars, panicked>>

\* ... and return.
EvictReturns(mp) ==
    /\ alive /\ loop[mp] = "evicting"
    /\ \E victim \in ManagedPeer : deleteEntry(victim)
    /\ peersMu' = "free"
    /\ return(mp)
    /\ UNCHANGED <<ctx, conn, attached, status, failureCount, inflight, clientVars,
                   panicked>>

\* setStatus, resetFailures, OnPeerConnected, and getaddr is queued.
LoopConnects(mp) ==
    /\ alive /\ loop[mp] = "attached"
    /\ goto(mp, "waiting")
    /\ setStatus(mp, "connected")
    /\ failureCount' = [failureCount EXCEPT ![mp] = 0]
    /\ told' = [told EXCEPT ![mp] = "connected"]
    /\ UNCHANGED <<registry, ctx, conn, attached, inflight, wg, clientVars, panicked>>

\* WaitForDisconnect returns: setStatus, clearPeer, OnPeerDisconnected.
LoopDisconnects(mp) ==
    /\ alive /\ loop[mp] = "waiting"
    /\ conn[mp] = "closed"
    /\ goto(mp, "delay")
    /\ setStatus(mp, "disconnected")
    /\ clearPeer(mp)
    /\ conn' = [conn EXCEPT ![mp] = "none"]
    /\ tellDisconnected({mp})
    /\ UNCHANGED <<registry, ctx, failureCount, inflight, wg, clientVars, panicked>>

\* Mutant: the loop mistakes the end of the delay for the end of the peer.
WaitElapsesForGood(mp) ==
    /\ alive /\ loop[mp] = "delay"
    /\ return(mp)
    /\ UNCHANGED <<registry, ctx, conn, attached, status, failureCount, told, inflight,
                   clientVars, panicked>>

\* waitOrCancel: the timer, or done / ctx.Done().  When several are ready,
\* select takes any of them.
WaitElapses(mp) ==
    /\ alive /\ loop[mp] = "delay"
    /\ goto(mp, "top")
    /\ UNCHANGED <<registry, ctx, conn, attached, status, failureCount, told, inflight,
                   wg, clientVars, panicked>>

WaitCancelled(mp) ==
    /\ alive /\ loop[mp] = "delay"
    /\ Stopping(mp)
    /\ return(mp)
    /\ UNCHANGED <<registry, ctx, conn, attached, status, failureCount, told, inflight,
                   clientVars, panicked>>

LoopStep(mp) ==
    \/ LoopQuits(mp) \/ LoopDials(mp)
    \/ DialSucceeds(mp) \/ DialAttaches(mp) \/ DialFails(mp)
    \/ LoopConnects(mp) \/ LoopDisconnects(mp)
    \/ EvictPeer(mp) \/ EvictFindsNone(mp) \/ EvictReturns(mp)
    \/ WaitElapses(mp) \/ WaitCancelled(mp)

-----------------------------------------------------------------------------
(* healthCheckLoop, the remote end, and the handlers of its messages. *)

\* runHealthChecks: every entry at the threshold goes, in one critical section.
RunHealthChecks ==
    /\ alive /\ healthLoop /\ peersMu = "free"
    /\ startRemoval({mp \in peers : GaveUp(mp)}, "health")
    /\ UNCHANGED <<peers, loopVars, conn, told, inflight, wg, clientVars, panicked>>

\* removePeer of the next one.
HealthCheckGoesOn(mp) ==
    /\ alive /\ removal[mp] = "listed"
    /\ \A other \in ManagedPeer : removal[other] \in {"no", "listed"}
    /\ cancel({mp})
    /\ removal' = [removal EXCEPT ![mp] = "cancelled"]
    /\ UNCHANGED <<peers, peersMu, loopVars, conn, told, inflight, wg, clientVars,
                   panicked>>

HealthCheckRemoves(mp) ==
    /\ alive /\ peersMu = "health"
    /\ deleteEntry(mp)
    /\ peersMu' = IF \E other \in ManagedPeer : removal'[other] # "no"
                  THEN "health" ELSE "free"
    /\ UNCHANGED <<loopVars, ctx, conn, inflight, wg, clientVars, panicked>>

\* Mutant: no deferred wg.Done.
HealthLoopReturnsUncounted ==
    /\ alive /\ healthLoop /\ peersMu # "health" /\ done
    /\ healthLoop' = FALSE
    /\ UNCHANGED <<registry, loopVars, ctx, conn, told, inflight, wg, started, done,
                   stop, waiter, panicked>>

HealthLoopReturns ==
    /\ alive /\ healthLoop /\ peersMu # "health" /\ done
    /\ healthLoop' = FALSE
    /\ wg' = wg - 1
    /\ UNCHANGED <<registry, loopVars, ctx, conn, told, inflight, started, done, stop,
                   waiter, panicked>>

\* btcd's protocol negotiation, which runs in goroutines of its own.
Negotiated(mp) ==
    /\ alive /\ conn[mp] = "open"
    /\ conn' = [conn EXCEPT ![mp] = "ready"]
    /\ UNCHANGED <<registry, loopVars, ctx, told, inflight, wg, clientVars, panicked>>

\* The remote hangs up, the negotiation fails, or btcd times the peer out.
ConnectionLost(mp) ==
    /\ alive /\ Up(mp)
    /\ conn' = [conn EXCEPT ![mp] = "closed"]
    /\ UNCHANGED <<registry, loopVars, ctx, told, inflight, wg, clientVars, panicked>>

\* btcd's input goroutine reads an addr message and calls handleAddr, which
\* may be delayed (OnAddr, then peersMu) past the end of the connection.
AddrArrives(mp, list) ==
    /\ alive /\ conn[mp] = "ready"
    /\ list \notin inflight
    /\ inflight' = inflight \cup {list}
    /\ UNCHANGED <<registry, loopVars, ctx, conn, told, wg, clientVars, panicked>>

\* addDiscoveredPeers: new addresses in the order of the list until the list
\* or the room ends.  Their contexts descend from context.Background().
AddDiscoveredPeers(list) ==
    /\ alive /\ list \in inflight /\ peersMu = "free"
    /\ inflight' = inflight \ {list}
    /\ LET unknown == {mp \in Fresh : addressOf(mp) \in list /\ ~Exists(addressOf(mp))}
       IN \E new \in SUBSET unknown :
            /\ new # {} => Fits(Cardinality(new))
            /\ new = unknown \/ ~Fits(Cardinality(new) + 1)
            /\ register(new, "background")
    /\ UNCHANGED <<peersMu, removal, conn, attached, status, failureCount, told,
                   clientVars, panicked>>

-----------------------------------------------------------------------------

ClientStep ==
    \/ Start
    \/ StopCloses \/ StopSweeps \/ StopSucceeds \/ StopTimesOut
    \/ WaitReleased \/ WaitReturns
    \/ \E a \in Address : AddPeer(a) \/ RemovePeer(a)
    \/ \E mp \in ManagedPeer : ContextDone(mp)

HealthStep == RunHealthChecks \/ HealthLoopReturns

\* What is left of removals that have begun; an eviction returns in its LoopStep.
RemovalStep ==
    \E mp \in ManagedPeer :
        \/ RemovalDisconnects(mp)
        \/ RemovePeerReturns(mp)
        \/ HealthCheckGoesOn(mp) \/ HealthCheckRemoves(mp)

RemoteStep ==
    \/ \E mp \in ManagedPeer : Negotiated(mp) \/ ConnectionLost(mp)
    \/ \E mp \in ManagedPeer, list \in AddrMsg : AddrArrives(mp, list)

Next ==
    \/ ClientStep
    \/ \E mp \in ManagedPeer : LoopStep(mp)
    \/ HealthStep
    \/ RemovalStep
    \/ RemoteStep
    \/ \E list \in AddrMsg : AddDiscoveredPeers(list)

Spec == Init /\ [][Next]_vars

\* The Go scheduler runs every goroutine that can run: the connection loops
\* (a dial ends by ConnectionTimeout, a delay by its timer), the health loop,
\* the handlers, a removal that has begun and a Stop that was called.  Nothing
\* makes callers call, the remote hang up, or Stop's context expire.
Fairness ==
    /\ \A mp \in ManagedPeer : WF_vars(LoopStep(mp))
    /\ WF_vars(HealthLoopReturns)
    /\ WF_vars(RemovalStep)
    /\ WF_vars(StopSweeps \/ WaitReleased \/ WaitReturns \/ StopSucceeds)
    /\ \A list \in AddrMsg : WF_vars(AddDiscoveredPeers(list))

FairSpec == Spec /\ Fairness

-----------------------------------------------------------------------------
(* Properties. *)

\* Types; and peers is a map, with at most one entry for each address.
TypeOK ==
    /\ peers \subseteq ManagedPeer
    /\ \A m, n \in peers : addressOf(m) = addressOf(n) => m = n
    /\ peersMu \in Holder
    /\ removal \in [ManagedPeer -> {"no", "listed", "cancelled", "disconnected"}]
    /\ loop \in [ManagedPeer -> LoopPoint]
    /\ ctx \in [ManagedPeer -> {"caller", "background", "done"}]
    /\ conn \in [ManagedPeer -> {"none", "open", "ready", "closed"}]
    /\ attached \in [ManagedPeer -> BOOLEAN]
    /\ status \in [ManagedPeer -> PeerStatus]
    /\ failureCount \in [ManagedPeer -> 0..MaxFailureCount]
    /\ told \in [ManagedPeer -> {"none", "connected", "disconnected"}]
    /\ inflight \subseteq AddrMsg
    /\ wg \in Nat
    /\ started \in BOOLEAN /\ done \in BOOLEAN /\ healthLoop \in BOOLEAN
    /\ stop \in {"idle", "closed", "swept", "ok", "timeout"}
    /\ waiter \in {"none", "waiting", "released", "returned"}
    /\ panicked \in {"no", "close of closed channel", "WaitGroup is reused"}

\* "MaxPeers: the maximum number of concurrent peer connections", as far as the
\* registry keeps it: AddPeer and addDiscoveredPeers never fill it past MaxPeers,
\* in whatever order they, the removals and the evictions take peersMu.
MaxPeersRespected == Cardinality(peers) <= MaxPeers

\* An entry of the registry is not a husk: until its context or the client is
\* done, a connectionLoop goroutine is serving it.  (removePeer by address and a
\* loop that returns on its own could break this; manager.go 81-163, 235-239.)
RegisteredIsServed ==
    \A mp \in peers : ~Stopping(mp) => mp \in Live

\* No connectionLoop runs on outside the registry without having been told to
\* stop: RemovePeer, an eviction and a health check all cancel what they delete.
NoRunawayLoop == \A mp \in Live \ peers : ctx[mp] = "done"

\* Every running goroutine is in pm.wg exactly once, so that wg.Wait in Stop
\* waits for all of them and only for them.
GoroutinesCounted ==
    wg = Cardinality(Live) + (IF healthLoop THEN 1 ELSE 0)

\* A btcd peer exists exactly while its connectionLoop is between dial and the
\* end of the connection, mp.peer is set when the loop dereferences it without a
\* test (manager.go:148), and a peer is "connected" exactly while it waits.
ConnectionOwned ==
    \A mp \in ManagedPeer :
        /\ conn[mp] # "none" <=> loop[mp] \in {"dialed", "attached", "waiting"}
        /\ attached[mp] <=> loop[mp] \in {"attached", "waiting"}
        /\ status[mp] = "connected" <=> loop[mp] = "waiting"

\* A listener that was last told of a connection is never left with it: the
\* peer is still waiting on that connection; and a registered peer that waits on
\* a connection has been announced.
ListenersNotMisled ==
    /\ \A mp \in ManagedPeer : told[mp] = "connected" => loop[mp] = "waiting"
    /\ \A mp \in peers : loop[mp] = "waiting" => told[mp] = "connected"

\* Once Stop has swept the registry no goroutine is left that does not know: a
\* connectionLoop past its first test has a cancelled context, also one that
\* addDiscoveredPeers or AddPeer started after the sweep.
SweepReachesAll ==
    waiter # "none" => \A mp \in Live : loop[mp] = "top" \/ ctx[mp] = "done"

\* When wg.Wait has been let through, no peer is being dialed or connected, and
\* none will be: a loop that is started later only finds done closed.
GracefulStopIsFinal ==
    waiter \in {"released", "returned"} =>
        \A mp \in ManagedPeer : loop[mp] \in {"none", "top", "exited"}

\* A peer at the threshold is being evicted by its own loop or is gone: a health
\* check only removes what an eviction is about to remove, never a peer that is
\* being dialed or is connected.
HealthChecksSpareTheLiving ==
    \A mp \in ManagedPeer : GaveUp(mp) => loop[mp] \in {"evict", "evicting", "exited"}

\* Stop's order: done is closed first, the sweep comes before the Wait, a Stop
\* that returned nil had its Wait return, the health loop runs between Start and
\* the Wait only, and started is true until a Stop succeeds.
StopProtocol ==
    /\ stop = "idle" <=> ~done
    /\ waiter = "none" <=> stop \in {"idle", "closed"}
    /\ stop = "ok" => waiter = "returned"
    /\ healthLoop => started
    /\ stop \in {"closed", "swept", "timeout"} => started
    /\ waiter \in {"released", "returned"} /\ stop # "ok" => ~healthLoop

\* A peer that has left the registry gets no new connection, wherever its loop was
\* when the caller, an eviction or a health check removed it: one that passed its
\* test of the context before the removal fails its dial, however late it dials.
\* (A connection that the removal did not see, dialed and not attached, stays.)
RemovedIsNotDialed ==
    [][\A mp \in ManagedPeer \ peers : conn[mp] = "none" => conn'[mp] = "none"]_vars

\* A peer that reached MaxFailureCount leaves the registry, with or without a
\* health check (the client may never have been started).
GivenUpLeaves ==
    \A mp \in ManagedPeer :
        failureCount[mp] = MaxFailureCount ~> (mp \notin peers \/ ~alive)

\* A registered peer that loses its connection is dialed again, unless its
\* context or the client ends first.
KeepsReconnecting ==
    \A mp \in ManagedPeer :
        mp \in peers /\ conn[mp] = "closed"
            ~> (loop[mp] = "dial" \/ Stopping(mp) \/ ~alive)

\* After Stop's sweep every connectionLoop that has no open connection returns,
\* however its dial, its delay or its eviction ends.
StoppedLoopsExit ==
    \A mp \in ManagedPeer :
        waiter = "waiting" /\ mp \in Live /\ ~Up(mp)
            ~> (loop[mp] = "exited" \/ ~alive)

\* Stop returns, without help from its context, when its sweep left no
\* connection open.
StopReturns ==
    (stop = "swept" /\ \A mp \in ManagedPeer : ~Up(mp)) ~> (stop # "swept" \/ ~alive)

=============================================================================
