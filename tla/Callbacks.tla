------------------------------- MODULE Callbacks -------------------------------
(***************************************************************************)
(* Who waits for whom in btcclient: the locks that the methods of          *)
(* BtcClient (client.go), the loops of PeerManager (manager.go) and the    *)
(* message handlers (handlers.go) take, the listeners of the user that     *)
(* they call meanwhile, and what those listeners call back.                *)
(*                                                                         *)
(* Peers and their state are PeerManager's; here a goroutine is what it    *)
(* has left to do: a sequence of lock operations, calls of listeners and   *)
(* the steps that others wait for.                                         *)
(***************************************************************************)
EXTENDS Naturals, FiniteSets, SequencesExt

CONSTANTS
    Caller,   \* goroutines of the user
    Loop,     \* connection loops, running or not
    Health,   \* the health-check loop
    Handler,  \* input handlers of the peers (btcd), which call the message listeners
    MayCall,  \* Stop has a deadline or not -> listener -> the methods it may call
    MaxTurns  \* bound: goroutine -> how many calls, rounds, checks or messages it begins

Goroutine == Caller \cup Loop \cup {Health} \cup Handler
Lock      == {"mu", "peersMu"}
Listener  == {"OnPeerConnected", "OnPeerDisconnected", "OnMessage", "OnAddr"}
Callback  == {"AddPeer", "RemovePeer", "PeerCount"}
Method    == Callback \cup {"Start", "Stop"}

ASSUME CallbacksAssumption ==
    /\ MayCall \in [BOOLEAN -> [Listener -> SUBSET Callback]]
    /\ MaxTurns \in [Goroutine -> Nat]

VARIABLES
    deadline,  \* the context given to Stop has a deadline
    todo,      \* goroutine -> what it has left to do
    turns,     \* goroutine -> what it may still begin (for the bound)
    writer, readers, blocked,  \* lock -> who has it, or waits for its readers to leave;
               \*   who holds it for reading; who waits to do so
    alive,     \* loops of the WaitGroup: started and not returned
    started, stopping  \* pm.started; pm.done is closed

lockVars == <<writer, readers, blocked>>
runVars  == <<alive, started, stopping>>
fixed    == <<deadline, turns>>
vars     == <<fixed, todo, lockVars, runVars>>

-----------------------------------------------------------------------------
(* The methods and loops as sequences of instructions. *)

\* removePeer calls the listener under the locks of its caller, if it finds the peer.
removePeer == <<<<"listener", "OnPeerDisconnected">>>>

addPeer == <<<<"do", "addPeer">>>>

underPeersMu(work) == <<<<"Lock", "peersMu">>>> \o work \o <<<<"Unlock", "peersMu">>>>

\* Mutants of AddPeer: an early return that keeps a lock, and the locks the other way
\* round.
addKeepsLock ==
    <<<<"RLock", "mu">>, <<"Lock", "peersMu">>, <<"do", "addPeer">>, <<"RUnlock", "mu">>>>
addReversed ==
    <<<<"Lock", "peersMu">>, <<"RLock", "mu">>, <<"do", "addPeer">>,
      <<"RUnlock", "mu">>, <<"Unlock", "peersMu">>>>

AddPeer == <<<<"RLock", "mu">>>> \o underPeersMu(addPeer) \o <<<<"RUnlock", "mu">>>>

RemovePeer == <<<<"RLock", "mu">>>> \o underPeersMu(removePeer) \o <<<<"RUnlock", "mu">>>>

PeerCount == <<<<"RLock", "peersMu">>, <<"RUnlock", "peersMu">>>>

Start == <<<<"Lock", "mu">>, <<"do", "start">>, <<"Unlock", "mu">>>>
Stop  == <<<<"Lock", "mu">>, <<"do", "stop">>, <<"Unlock", "mu">>>>

\* The rest of a Stop that closes done: the sweep, and the wait for the loops.
sweepAndWait == underPeersMu(<<>>) \o <<<<"do", "wait">>>>

body(method) ==
    CASE method = "Start"      -> Start
      [] method = "Stop"       -> Stop
      [] method = "AddPeer"    -> AddPeer
      [] method = "RemovePeer" -> RemovePeer
      [] method = "PeerCount"  -> PeerCount

\* A round of a connection loop: a dial that fails, fails once too often, or leads to
\* a connection, whose listeners are called without a lock.
rounds ==
    { <<>>,
      underPeersMu(removePeer) \o <<<<"do", "return">>>>,
      <<<<"listener", "OnPeerConnected">>, <<"do", "disconnect">>,
        <<"listener", "OnPeerDisconnected">>>> }

\* Mutant of runHealthChecks: under the lock of the client as well.
checksUnderMu == <<<<"RLock", "mu">>>> \o underPeersMu(removePeer) \o <<<<"RUnlock", "mu">>>>

runHealthChecks == underPeersMu(removePeer)

\* What an input handler does with a message.
messages ==
    { <<<<"listener", "OnMessage">>>>,
      <<<<"listener", "OnAddr">>>> \o underPeersMu(addPeer) }

\* A client that has been started, with any peers.
Init ==
    /\ deadline \in BOOLEAN
    /\ todo = [g \in Goroutine |-> <<>>] /\ turns = MaxTurns
    /\ writer = [l \in Lock |-> {}]
    /\ readers = [l \in Lock |-> {}] /\ blocked = [l \in Lock |-> {}]
    /\ \E running \in SUBSET Loop : alive = {Health} \cup running
    /\ started = TRUE /\ stopping = FALSE

-----------------------------------------------------------------------------
(* One instruction of a goroutine. *)

Idle(g) == todo[g] = <<>>
next(g, what) == ~Idle(g) /\ Head(todo[g])[1] = what
on(g)   == Head(todo[g])[2]
go(g, instructions) == todo' = [todo EXCEPT ![g] = instructions \o Tail(@)]
done(g) == go(g, <<>>)

\* RLock: a writer, waiting or not, holds new readers up.
RLock(g) ==
    /\ next(g, "RLock")
    /\ g \notin blocked[on(g)]
    /\ IF writer[on(g)] = {}
       THEN readers' = [readers EXCEPT ![on(g)] = @ \cup {g}] /\ done(g) /\ UNCHANGED blocked
       ELSE blocked' = [blocked EXCEPT ![on(g)] = @ \cup {g}] /\ UNCHANGED <<readers, todo>>
    /\ UNCHANGED <<fixed, writer, runVars>>

RUnlock(g) ==
    /\ next(g, "RUnlock")
    /\ readers' = [readers EXCEPT ![on(g)] = @ \ {g}]
    /\ done(g)
    /\ UNCHANGED <<fixed, writer, blocked, runVars>>

\* Lock: first among the writers, then the readers have to leave.
Announce(g) ==
    /\ next(g, "Lock")
    /\ writer[on(g)] = {}
    /\ writer' = [writer EXCEPT ![on(g)] = {g}]
    /\ IF readers[on(g)] = {} THEN done(g) ELSE UNCHANGED todo
    /\ UNCHANGED <<fixed, readers, blocked, runVars>>

Acquire(g) ==
    /\ next(g, "Lock")
    /\ writer[on(g)] = {g} /\ readers[on(g)] = {}
    /\ done(g)
    /\ UNCHANGED <<fixed, lockVars, runVars>>

\* Unlock lets the blocked readers in before the next writer.
Unlock(g) ==
    /\ next(g, "Unlock")
    /\ writer' = [writer EXCEPT ![on(g)] = {}]
    /\ readers' = [readers EXCEPT ![on(g)] = @ \cup blocked[on(g)]]
    /\ blocked' = [blocked EXCEPT ![on(g)] = {}]
    /\ todo' = [h \in Goroutine |->
                    IF h = g \/ h \in blocked[on(g)] THEN Tail(todo[h]) ELSE todo[h]]
    /\ UNCHANGED <<fixed, runVars>>

\* A listener, nil or not, that calls nothing or one method of the client.
Listen(g) ==
    /\ next(g, "listener")
    /\ \/ done(g)
       \/ \E method \in MayCall[deadline][on(g)] : go(g, body(method))
    /\ UNCHANGED <<fixed, lockVars, runVars>>

\* addPeer and addDiscoveredPeers: a new loop, or none.
Add(g) ==
    /\ next(g, "do") /\ on(g) = "addPeer"
    /\ alive' = alive \/ \E h \in Loop \ alive : Idle(h) /\ alive' = alive \cup {h}
    /\ done(g)
    /\ UNCHANGED <<fixed, lockVars, started, stopping>>

\* Start of a client that runs already is an error.
Starts(g) ==
    /\ next(g, "do") /\ on(g) = "start"
    /\ started' = TRUE
    /\ alive' = IF started THEN alive ELSE alive \cup {Health}
    /\ done(g)
    /\ UNCHANGED <<fixed, lockVars, stopping>>

\* Stop of one that does not run as well.
Stops(g) ==
    /\ next(g, "do") /\ on(g) = "stop"
    /\ IF started
       THEN stopping' = TRUE /\ go(g, sweepAndWait)
       ELSE UNCHANGED stopping /\ done(g)
    /\ UNCHANGED <<fixed, lockVars, alive, started>>

\* The loops have returned, or the context has expired.
Waits(g) ==
    /\ next(g, "do") /\ on(g) = "wait"
    /\ \/ alive = {} /\ started' = FALSE
       \/ deadline /\ UNCHANGED started
    /\ done(g)
    /\ UNCHANGED <<fixed, lockVars, alive, stopping>>

Disconnects(g) ==
    /\ next(g, "do") /\ on(g) = "disconnect"
    /\ done(g)
    /\ UNCHANGED <<fixed, lockVars, runVars>>

Returns(g) ==
    /\ next(g, "do") /\ on(g) = "return"
    /\ alive' = alive \ {g}
    /\ done(g)
    /\ UNCHANGED <<fixed, lockVars, started, stopping>>

-----------------------------------------------------------------------------
(* What goroutines begin. *)

begin(g, instructions) ==
    /\ Idle(g) /\ turns[g] > 0
    /\ todo' = [todo EXCEPT ![g] = instructions]
    /\ turns' = [turns EXCEPT ![g] = @ - 1]
    /\ UNCHANGED <<deadline, lockVars, runVars>>

\* One Stop only: PeerManager has what a second one does.
Call(c) ==
    \/ \E method \in Method \ {"Stop"} : begin(c, body(method))
    \/ /\ ~stopping /\ \A d \in Caller : <<"do", "stop">> \notin Range(todo[d])
       /\ begin(c, Stop)

\* A connection loop dials, unless the manager stops or the peer's context is over.
Dial(g) == g \in alive /\ ~stopping /\ \E round \in rounds : begin(g, round)

\* The health-check loop at a tick.
Tick == Health \in alive /\ ~stopping /\ begin(Health, runHealthChecks)

\* A message for the input handler of a connected peer.
Receive(h) == \E message \in messages : begin(h, message)

LoopReturns(g) ==
    /\ g \in alive /\ Idle(g)
    /\ stopping \/ g \in Loop
    /\ alive' = alive \ {g}
    /\ UNCHANGED <<fixed, todo, lockVars, started, stopping>>

-----------------------------------------------------------------------------

Step(g) ==
    \/ RLock(g) \/ RUnlock(g) \/ Announce(g) \/ Acquire(g) \/ Unlock(g) \/ Listen(g)
    \/ Add(g) \/ Starts(g) \/ Stops(g) \/ Waits(g) \/ Disconnects(g) \/ Returns(g)

Next ==
    \/ \E g \in Goroutine : Step(g)
    \/ \E c \in Caller : Call(c)
    \/ \E g \in Loop : Dial(g)
    \/ Tick
    \/ \E h \in Handler : Receive(h)
    \/ \E g \in alive : LoopReturns(g)

Spec == Init /\ [][Next]_vars

\* Goroutines go on, listeners return, contexts with a deadline expire, connections
\* end, a loop looks at done.  Since what a goroutine begins is bounded, no one is
\* overtaken for ever, and weak fairness will do.
Fairness ==
    /\ \A g \in Goroutine : WF_vars(Step(g))
    /\ \A g \in Loop \cup {Health} : WF_vars(stopping /\ LoopReturns(g))

FairSpec == Spec /\ Fairness

-----------------------------------------------------------------------------
(* Properties. *)

Instruction ==
    ({"Lock", "Unlock", "RLock", "RUnlock"} \X Lock) \cup ({"listener"} \X Listener)
    \cup ({"do"} \X {"addPeer", "start", "stop", "wait", "disconnect", "return"})

\* Who holds a lock.
holds(g, l) ==
    \/ g \in readers[l]
    \/ g \in writer[l] /\ ~(next(g, "Lock") /\ on(g) = l)

\* The type of the state, and of the locks: a writer that has its lock excludes all
\* others, readers wait for a writer only, and who releases a lock holds it and who
\* has nothing left to do holds none.
TypeOK ==
    /\ deadline \in BOOLEAN /\ started \in BOOLEAN /\ stopping \in BOOLEAN
    /\ \A g \in Goroutine : todo[g] \in Seq(Instruction)
    /\ turns \in [Goroutine -> Nat]
    /\ alive \subseteq Loop \cup {Health}
    /\ \A l \in Lock :
        /\ Cardinality(writer[l]) <= 1 /\ writer[l] \subseteq Goroutine
        /\ readers[l] \subseteq Goroutine /\ blocked[l] \subseteq Goroutine
        /\ (\E g \in writer[l] : holds(g, l)) => readers[l] = {}
        /\ blocked[l] # {} => writer[l] # {}
        /\ \A g \in Goroutine :
            /\ Idle(g) => ~holds(g, l)
            /\ next(g, "Unlock") /\ on(g) = l => g \in writer[l]
            /\ next(g, "RUnlock") /\ on(g) = l => g \in readers[l]

\* Locks are taken in one order, mu before peersMu, and never twice: a goroutine that
\* asks for a lock holds no later one and not this one, not even for reading, whatever
\* called it and whatever its listener called (client.go:95-123, manager.go:93-95).
LockOrder ==
    \A g \in Goroutine, l \in Lock :
        (next(g, "Lock") \/ next(g, "RLock")) /\ on(g) = l
            => ~holds(g, l) /\ ~holds(g, "peersMu")

\* Every call of a method returns, that of a listener as well, although a Stop waits
\* for the loops with mu in its hand and a removal calls a listener with both locks
\* (client.go:62-90).
CallsReturn == \A c \in Caller \cup Handler : ~Idle(c) ~> Idle(c)

=============================================================================
