-------------------------------- MODULE Indexer --------------------------------
(***************************************************************************)
(* The lifecycle of the indexer (indexer/indexer.go): goroutines call Run, *)
(* Start and Stop of one Indexer, which drives its own btcclient, here the *)
(* abstract BtcClient that PeerManager implements.                         *)
(*                                                                         *)
(* idx.mu is held for all of Stop (stopper), and makes Start atomic.       *)
(* AddPeer, which connectPeers calls without idx.mu, waits for the mutex   *)
(* of the client while a Stop of the client holds it.                      *)
(***************************************************************************)
EXTENDS BtcClient, Sequences, SequencesExt

CONSTANTS
    Caller,         \* goroutines that use the indexer
    ExplicitPeers,  \* the lists Config.Peers is taken from
    SeedPeers,      \* the lists ChainParams.DNSSeeds is taken from, with the port
    MaxCalls        \* bound: the calls of a goroutine

ASSUME IndexerAssumption ==
    /\ ExplicitPeers \subseteq Seq(Address) /\ SeedPeers \subseteq Seq(Address)
    /\ MaxCalls \in Nat

VARIABLES
    explicit, seeds,  \* the configuration
    running,    \* idx.running
    stopper,    \* {the caller inside idx.Stop}, the holder of idx.mu, or {}
    at,         \* caller -> where it is
    todo,       \* caller -> the peers connectPeers has yet to add
    failed,     \* caller -> the number of errors of its connectPeers
    cancelled,  \* callers whose Run has a context that is done
    result,     \* caller -> what its last Run or Stop returned
    calls       \* caller -> number of calls (for the bound)

config  == <<explicit, seeds>>
runVars == <<at, todo, failed, result>>
vars == <<clientState, config, running, stopper, runVars, cancelled, calls>>

\* "out": not in a call; Run is in "connect", then in "wait" and "finish", or in
\* "cleanup"; a direct Stop is in "stop".
Point == {"out", "connect", "wait", "cleanup", "finish", "stop"}
Results == {"none", "nil", "timeout", "not running", "no connection"}

\* A list without what it has named before: what the first n of its peers leave.
unseen(list) ==
    LET taken[n \in 0..Len(list)] ==
            IF n = 0 THEN <<>>
            ELSE IF Contains(taken[n - 1], list[n]) THEN taken[n - 1]
            ELSE Append(taken[n - 1], list[n])
    IN taken[Len(list)]

\* Mutant: the seeds are compared with each other only.
resolvePeersTwice(listed, dns) == unseen(listed) \o unseen(dns)

\* resolvePeers: what was not seen before, the explicit peers first.
resolvePeers(listed, dns) == unseen(listed \o dns)

Init ==
    /\ ClientInit
    /\ explicit \in ExplicitPeers /\ seeds \in SeedPeers
    /\ running = FALSE
    /\ stopper = {}
    /\ at = [c \in Caller |-> "out"]
    /\ todo = [c \in Caller |-> <<>>]
    /\ failed = [c \in Caller |-> 0]
    /\ cancelled = {}
    /\ result = [c \in Caller |-> "none"]
    /\ calls = [c \in Caller |-> 0]

call(c) ==
    /\ clientAlive
    /\ at[c] = "out" /\ calls[c] < MaxCalls
    /\ calls' = [calls EXCEPT ![c] = @ + 1]

goto(c, point) == at' = [at EXCEPT ![c] = point]

-----------------------------------------------------------------------------
(* Start and Run.  A Start that finds the indexer running, or that the client
   refuses because it is started, returns an error and changes nothing. *)

start ==
    /\ stopper = {}
    /\ ~running
    /\ ClientStart
    /\ running' = TRUE

Start(c) ==
    /\ call(c)
    /\ start
    /\ UNCHANGED <<config, stopper, runVars, cancelled>>

errsKept(c) == UNCHANGED failed  \* mutant: the errors of the last Run count
noErrs(c) == failed' = [failed EXCEPT ![c] = 0]

\* Run after its Start: connectPeers resolves the peers.
Run(c) ==
    /\ call(c)
    /\ start
    /\ goto(c, "connect")
    /\ todo' = [todo EXCEPT ![c] = resolvePeers(explicit, seeds)]
    /\ noErrs(c)
    /\ cancelled' = cancelled \ {c}
    /\ UNCHANGED <<config, stopper, result>>

\* One AddPeer of connectPeers: refused when registered or when there is no room.
ConnectPeer(c) ==
    /\ clientAlive /\ phase # "stopping"
    /\ at[c] = "connect" /\ todo[c] # <<>>
    /\ todo' = [todo EXCEPT ![c] = Tail(@)]
    /\ LET a == Head(todo[c])
       IN IF a \in members \/ ~HasRoom({a})
          THEN /\ failed' = [failed EXCEPT ![c] = @ + 1]
               /\ UNCHANGED clientState
          ELSE Register({a}) /\ UNCHANGED failed
    /\ UNCHANGED <<config, running, stopper, at, cancelled, result, calls>>

\* ErrNoPeers, or every peer failed.
AllFailed(c) == failed[c] = Len(resolvePeers(explicit, seeds))

Connected(c) ==
    /\ clientAlive
    /\ at[c] = "connect" /\ todo[c] = <<>>
    /\ goto(c, IF AllFailed(c) THEN "cleanup" ELSE "wait")
    /\ UNCHANGED <<clientState, config, running, stopper, todo, failed, cancelled, result, calls>>

\* The context given to Run is done, at any time during Run.
ContextDone(c) ==
    /\ clientAlive /\ at[c] \in {"connect", "wait"}
    /\ c \notin cancelled
    /\ cancelled' = cancelled \cup {c}
    /\ UNCHANGED <<clientState, config, running, stopper, runVars, calls>>

RunWakes(c) ==
    /\ clientAlive
    /\ at[c] = "wait" /\ c \in cancelled
    /\ goto(c, "finish")
    /\ UNCHANGED <<clientState, config, running, stopper, todo, failed, cancelled, result, calls>>

-----------------------------------------------------------------------------
(* Stop: called directly, at the end of Run, or as Run's cleanup. *)

CallStop(c) ==
    /\ call(c)
    /\ goto(c, "stop")
    /\ UNCHANGED <<clientState, config, running, stopper, todo, failed, cancelled, result>>

InStop(c) == at[c] \in {"cleanup", "finish", "stop"}

\* The cleanup ignores what Stop returns; Run returns the error of connectPeers.
return(c, err) ==
    /\ goto(c, "out")
    /\ result' = [result EXCEPT ![c] = IF at[c] = "cleanup" THEN "no connection" ELSE err]
    /\ UNCHANGED <<todo, failed>>

\* Mutant: the early return does not unlock idx.mu.
StopKeepsLock(c) ==
    /\ clientAlive
    /\ InStop(c) /\ stopper = {}
    /\ ~running
    /\ return(c, "not running")
    /\ stopper' = {c}
    /\ UNCHANGED <<clientState, config, running, cancelled, calls>>

StopNotRunning(c) ==
    /\ clientAlive
    /\ InStop(c) /\ stopper = {}
    /\ ~running
    /\ return(c, "not running")
    /\ UNCHANGED <<clientState, config, running, stopper, cancelled, calls>>

StopClient(c) ==
    /\ InStop(c) /\ stopper = {}
    /\ running
    /\ StopBegins
    /\ stopper' = {c}
    /\ UNCHANGED <<config, running, runVars, cancelled, calls>>

\* Mutant: running is reset on the error path only.
resetOnError == running' = (phase' # "timeout")

reset == running' = FALSE

\* The client's Stop returns nil, or ErrStopTimeout after ShutdownTimeout.
Stopped(c) ==
    /\ stopper = {c}
    /\ StopReturnsNil
    /\ return(c, "nil")
    /\ reset
    /\ stopper' = {}
    /\ UNCHANGED <<config, cancelled, calls>>

\* Mutant: the error of the client is dropped.
StopTimedOutQuietly(c) ==
    /\ stopper = {c}
    /\ StopReturnsTimeout
    /\ return(c, "nil")
    /\ reset
    /\ stopper' = {}
    /\ UNCHANGED <<config, cancelled, calls>>

StopTimedOut(c) ==
    /\ stopper = {c}
    /\ StopReturnsTimeout
    /\ return(c, "timeout")
    /\ reset
    /\ stopper' = {}
    /\ UNCHANGED <<config, cancelled, calls>>

-----------------------------------------------------------------------------

\* The loops, the remotes and the health check of the client.
ClientPeers ==
    /\ PeersChange
    /\ UNCHANGED <<config, running, stopper, runVars, cancelled, calls>>

RunStep(c) == ConnectPeer(c) \/ Connected(c) \/ RunWakes(c)

StopStep(c) ==
    \/ StopNotRunning(c) \/ StopClient(c)
    \/ Stopped(c) \/ StopTimedOut(c)

Next ==
    \/ \E c \in Caller :
         \/ Start(c) \/ Run(c) \/ CallStop(c) \/ ContextDone(c)
         \/ RunStep(c) \/ StopStep(c)
    \/ ClientPeers

Spec == Init /\ [][Next]_vars

\* Goroutines in a call go on, a mutex is granted to one that waits for it, and
\* the client's Stop ends by ShutdownTimeout at the latest.
Fairness == \A c \in Caller : WF_vars(RunStep(c)) /\ SF_vars(StopStep(c))

FairSpec == Spec /\ Fairness

-----------------------------------------------------------------------------
(* Properties. *)

TypeOK ==
    /\ members \subseteq Address /\ up \subseteq Address
    /\ started \in BOOLEAN
    /\ phase \in {"idle", "stopping", "ok", "timeout"}
    /\ panicked \in {"no", "close of closed channel", "WaitGroup is reused"}
    /\ running \in BOOLEAN
    /\ stopper \subseteq Caller /\ Cardinality(stopper) <= 1
    /\ at \in [Caller -> Point]
    /\ \A c \in Caller : Len(todo[c]) + failed[c] <= Len(resolvePeers(explicit, seeds))
    /\ cancelled \subseteq Caller
    /\ result \in [Caller -> Results]
    /\ calls \in [Caller -> 0..MaxCalls]

\* "deduplicated peers: explicit peers first, then DNS seeds": every configured
\* peer is dialed, once, and no seed is dialed before an explicit peer.
ResolvesEachOnce ==
    LET list == resolvePeers(explicit, seeds)
    IN /\ ToSet(list) = ToSet(explicit) \cup ToSet(seeds)
       /\ IsInjective(list)
       /\ \A i, j \in DOMAIN list : i < j /\ Contains(explicit, list[j])
                                       => Contains(explicit, list[i])

\* The indexer and its client agree on whether they run, whoever calls Start and
\* Stop in whatever order, except after a shutdown that timed out.
AgreesWithClient ==
    /\ running => started
    /\ started => running \/ phase = "timeout"

\* Only the holder of idx.mu stops the client, and it is a goroutine in Stop.
StopsAreSerial ==
    clientAlive =>
        /\ phase = "stopping" <=> stopper # {}
        /\ \A c \in stopper : InStop(c) /\ running

\* A Run or a Stop that returned nil leaves no connection, then and later.
NilMeansDisconnected ==
    (\E c \in Caller : result[c] = "nil") => up = {} /\ phase = "ok"

\* A Run whose context is done returns, and so does a Stop, whatever the peers and
\* the other callers do.
CallsReturn ==
    \A c \in Caller :
        at[c] = "stop" \/ (at[c] \in {"connect", "wait"} /\ c \in cancelled)
            ~> (at[c] = "out" \/ ~clientAlive)

-----------------------------------------------------------------------------
(* What the comments and error texts say and the code does not do. *)

\* indexer.go:24 "indexer: not running", the error of a Stop that is refused:
\* when the indexer is not running, neither is its client.
NotRunningIsStopped == clientAlive /\ stopper = {} /\ ~running => ~started

\* indexer.go:185 "best-effort cleanup": the cleanup of a Run that connected
\* nobody does no harm.
CleanupIsSafe ==
    [][panicked' = "close of closed channel" => \A c \in Caller : at[c] # "cleanup"]_vars

=============================================================================
