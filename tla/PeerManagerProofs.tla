-------------------------- MODULE PeerManagerProofs --------------------------
(***************************************************************************)
(* Proofs about PeerManager, for every set of addresses and of peers and   *)
(* every value of MaxPeers and MaxFailureCount: its invariants, and that   *)
(* it implements BtcClient.                                                *)
(***************************************************************************)
EXTENDS PeerManagerRefines, FiniteSetTheorems, TLAPS

USE DEF registry

\* The inductive invariant behind type correctness: the counters stay in their
\* ranges because a loop that increments its failure count is below the
\* threshold, and one that calls wg.Done was counted.
Counters ==
    /\ TypeOK
    /\ HealthChecksSpareTheLiving
    /\ GoroutinesCounted
    /\ StopProtocol

-----------------------------------------------------------------------------
(* The registry and the set of running loops. *)

LEMMA LiveIsFinite == IsFiniteSet(Live) /\ Cardinality(Live) \in Nat
BY ConfigAssumption, FS_Subset, FS_CardinalityType DEF Live

\* A loop that returns leaves the set of running loops smaller by one.
LEMMA LiveLosesOne ==
    ASSUME NEW mp \in ManagedPeer, TypeOK, loop[mp] \in Running,
           goto(mp, "exited")
    PROVE  /\ Cardinality(Live') = Cardinality(Live) - 1
           /\ Cardinality(Live) \in Nat \ {0}
<1>1. IsFiniteSet(Live)
  BY ConfigAssumption, FS_Subset DEF Live
<1>2. mp \in Live /\ Live' = Live \ {mp}
  BY DEF Live, goto, TypeOK, Running
<1>3. Cardinality(Live) \in Nat /\ Cardinality(Live \ {mp}) = Cardinality(Live) - 1
      /\ Cardinality(Live \ {mp}) \in Nat
  BY <1>1, <1>2, FS_RemoveElement, FS_CardinalityType
<1> QED
  BY <1>2, <1>3

\* A step between two running points of a loop leaves the set as it is.
LEMMA LiveKept ==
    ASSUME NEW mp \in ManagedPeer, NEW point \in Running, TypeOK,
           loop[mp] \in Running, goto(mp, point)
    PROVE  Live' = Live
  BY DEF Live, goto, TypeOK, Running

\* Registering new objects makes it larger by their number.
LEMMA LiveGains ==
    ASSUME TypeOK, NEW new \in SUBSET Fresh,
           loop' = [mp \in ManagedPeer |-> IF mp \in new THEN "top" ELSE loop[mp]]
    PROVE  /\ Cardinality(Live') = Cardinality(Live) + Cardinality(new)
           /\ Cardinality(new) \in Nat
<1>1. new \subseteq ManagedPeer /\ \A mp \in new : loop[mp] = "none"
  BY DEF Fresh
<1>2. IsFiniteSet(Live) /\ IsFiniteSet(new)
  BY <1>1, ConfigAssumption, FS_Subset DEF Live
<1>3. Live' = Live \cup new /\ Live \cap new = {}
  BY <1>1 DEF Live, TypeOK, Running
<1>4. Cardinality(Live \cup new)
        = Cardinality(Live) + Cardinality(new) - Cardinality(Live \cap new)
  BY <1>2, FS_Union
<1>5. Cardinality(Live) \in Nat /\ Cardinality(new) \in Nat
      /\ Cardinality(Live \cap new) = 0
  BY <1>2, <1>3, FS_CardinalityType, FS_EmptySet
<1> QED
  BY <1>3, <1>4, <1>5

\* Loops that start, end or move nowhere else leave wg counted.
LEMMA CountKept ==
    ASSUME GoroutinesCounted, Live' = Live, UNCHANGED <<wg, healthLoop>>
    PROVE  GoroutinesCounted'
BY DEF GoroutinesCounted

\* return(mp): the deferred wg.Done was preceded by its wg.Add.
LEMMA ReturnCounts ==
    ASSUME NEW mp \in ManagedPeer, TypeOK, GoroutinesCounted,
           loop[mp] \in Running, return(mp), UNCHANGED healthLoop
    PROVE  wg' \in Nat /\ GoroutinesCounted'
<1>1. /\ Cardinality(Live') = Cardinality(Live) - 1
      /\ Cardinality(Live) \in Nat \ {0}
  BY LiveLosesOne DEF return
<1>2. CASE healthLoop
  <2>1. wg = Cardinality(Live) + 1
    BY <1>2 DEF GoroutinesCounted
  <2>2. wg' = Cardinality(Live') + 1 /\ wg' \in Nat
    BY <1>1, <2>1 DEF return
  <2>3. healthLoop'
    BY <1>2
  <2> QED
    BY <2>2, <2>3 DEF GoroutinesCounted
<1>3. CASE ~healthLoop
  <2>1. wg = Cardinality(Live)
    BY <1>3, <1>1 DEF GoroutinesCounted
  <2>2. wg' = Cardinality(Live') /\ wg' \in Nat
    BY <1>1, <2>1 DEF return
  <2>3. ~healthLoop'
    BY <1>3
  <2> QED
    BY <2>2, <2>3, <1>1 DEF GoroutinesCounted
<1> QED
  BY <1>2, <1>3

\* A loop that is not being evicted may fail once more.
LEMMA BelowThreshold ==
    ASSUME NEW mp \in ManagedPeer, TypeOK, HealthChecksSpareTheLiving,
           loop[mp] \notin {"evict", "evicting", "exited"}
    PROVE  failureCount[mp] + 1 \in 0..MaxFailureCount
<1>1. failureCount[mp] \in 0..MaxFailureCount
  BY DEF TypeOK
<1>2. ~(failureCount[mp] >= MaxFailureCount)
  BY DEF HealthChecksSpareTheLiving, GaveUp
<1>3. MaxFailureCount \in Nat
  BY ConfigAssumption
<1> QED
  BY <1>1, <1>2, <1>3

\* There is one fresh object for an address at most.
LEMMA FreshIsUnique ==
    ASSUME NEW m \in Fresh, NEW n \in Fresh, addressOf(m) = addressOf(n)
    PROVE  m = n
<1>1. m \in ManagedPeer /\ n \in ManagedPeer /\ loop[m] = "none" /\ loop[n] = "none"
  BY DEF Fresh
<1>2. /\ m = <<m[1], m[2]>> /\ m[2] \in Nat
      /\ n = <<n[1], n[2]>> /\ n[2] \in Nat
  BY <1>1, ConfigAssumption
<1>3. ~(m[2] < n[2]) /\ ~(n[2] < m[2])
  BY <1>1 DEF Fresh
<1>4. m[2] = n[2]
  BY <1>2, <1>3
<1> QED
  BY <1>2, <1>4 DEF addressOf

\* What AddPeer and AddDiscoveredPeers have in common: some fresh objects, under
\* new addresses of their own, for which there is room.
Registers(new, parent) ==
    /\ register(new, parent)
    /\ \A mp \in new : ~Exists(addressOf(mp))
    /\ new # {} => Fits(Cardinality(new))
    /\ inflight' \subseteq inflight
    /\ UNCHANGED <<peersMu, removal, conn, attached, status, failureCount, told,
                   clientVars, panicked>>

LEMMA AddsFresh ==
    ASSUME \/ \E a \in Address : AddPeer(a)
           \/ \E list \in AddrMsg : AddDiscoveredPeers(list)
    PROVE  \E new \in SUBSET Fresh, parent \in {"caller", "background"} :
              Registers(new, parent)
<1>1. ASSUME NEW a \in Address, AddPeer(a)
      PROVE  \E new \in SUBSET Fresh : Registers(new, "caller")
  <2>1. PICK mp \in Fresh : addressOf(mp) = a /\ register({mp}, "caller")
    BY <1>1 DEF AddPeer
  <2>2. Cardinality({mp}) = 1
    BY FS_Singleton
  <2>3. Registers({mp}, "caller")
    BY <1>1, <2>1, <2>2 DEF AddPeer, Registers
  <2> QED
    BY <2>3
<1>2. ASSUME NEW list \in AddrMsg, AddDiscoveredPeers(list)
      PROVE  \E new \in SUBSET Fresh : Registers(new, "background")
  <2>1. PICK new \in SUBSET Fresh :
           /\ \A mp \in new : ~Exists(addressOf(mp))
           /\ new # {} => Fits(Cardinality(new))
           /\ register(new, "background")
    BY <1>2 DEF AddDiscoveredPeers
  <2>2. Registers(new, "background")
    BY <1>2, <2>1 DEF AddDiscoveredPeers, Registers
  <2> QED
    BY <2>2
<1> QED
  BY <1>1, <1>2

\* Registering fresh objects under addresses of their own keeps the registry a
\* map and the counters right.
LEMMA RegisterCounts ==
    ASSUME Counters, NEW new \in SUBSET Fresh, NEW parent \in {"caller", "background"},
           Registers(new, parent)
    PROVE  Counters'
<1> USE DEF Counters, Registers
<1>1. /\ Cardinality(Live') = Cardinality(Live) + Cardinality(new)
      /\ Cardinality(new) \in Nat
  BY LiveGains DEF register
<1>2. TypeOK'
  <2>1. wg' \in Nat
    <3>1. wg \in Nat /\ wg' = wg + Cardinality(new)
      BY DEF TypeOK, register, wgAdd
    <3> QED
      BY <1>1, <3>1
  <2>2. peers' \subseteq ManagedPeer
    BY DEF TypeOK, register, wgAdd, Fresh
  <2>3. \A m, n \in peers' : addressOf(m) = addressOf(n) => m = n
    BY FreshIsUnique DEF register, wgAdd, Exists, TypeOK
  <2>4. loop' \in [ManagedPeer -> LoopPoint]
    BY DEF TypeOK, register, LoopPoint
  <2>5. ctx' \in [ManagedPeer -> {"caller", "background", "done"}]
    BY DEF TypeOK, register
  <2>6. inflight' \subseteq AddrMsg
    BY DEF TypeOK
  <2> QED
    BY <2>1, <2>2, <2>3, <2>4, <2>5, <2>6 DEF TypeOK, clientVars
<1>3. HealthChecksSpareTheLiving'
  BY DEF HealthChecksSpareTheLiving, GaveUp, register, wgAdd, Fresh, TypeOK
<1>4. GoroutinesCounted'
  <2>1. healthLoop' = healthLoop /\ wg' = wg + Cardinality(new)
    BY DEF register, wgAdd, clientVars
  <2>2. Cardinality(Live) \in Nat
    BY LiveIsFinite
  <2>3. CASE healthLoop
    <3>1. wg' = Cardinality(Live') + 1
      BY <1>1, <2>1, <2>2, <2>3 DEF GoroutinesCounted
    <3> QED
      BY <2>1, <2>3, <3>1 DEF GoroutinesCounted
  <2>4. CASE ~healthLoop
    <3>1. wg' = Cardinality(Live')
      BY <1>1, <2>1, <2>2, <2>4 DEF GoroutinesCounted
    <3>2. wg' = Cardinality(Live') + 0
      BY <3>1, <1>1, <2>2
    <3> QED
      BY <2>1, <2>4, <3>2 DEF GoroutinesCounted
  <2> QED
    BY <2>3, <2>4
<1>5. StopProtocol'
  BY DEF StopProtocol, clientVars
<1> QED
  BY <1>2, <1>3, <1>4, <1>5

-----------------------------------------------------------------------------
(* The first and the last step of a removal. *)

\* A removal from S begins: contexts only become done, that of the first entry does,
\* and no entry but those of S is marked.
Cancels(S) ==
    /\ removal' \in [ManagedPeer -> {"no", "listed", "cancelled", "disconnected"}]
    /\ ctx' \in [ManagedPeer -> {"caller", "background", "done"}]
    /\ peersMu' \in Holder
    /\ \A mp \in ManagedPeer : ctx'[mp] \in {ctx[mp], "done"}
    /\ \A mp \in ManagedPeer :
          removal'[mp] # removal[mp] =>
              mp \in S /\ (removal'[mp] # "listed" => ctx'[mp] = "done")
    /\ \E first \in S : ctx'[first] = "done"

LEMMA RemovalStarts ==
    ASSUME TypeOK, NEW S \in SUBSET peers, NEW holder \in {"caller", "loop", "health"},
           startRemoval(S, holder)
    PROVE  Cancels(S)
<1>1. PICK first \in S :
         /\ ctx' = [mp \in ManagedPeer |-> IF mp \in {first} THEN "done" ELSE ctx[mp]]
         /\ removal' = [mp \in ManagedPeer |->
                          IF mp = first THEN "cancelled"
                          ELSE IF mp \in S THEN "listed" ELSE removal[mp]]
  BY DEF startRemoval, cancel
<1>2. first \in ManagedPeer /\ S \subseteq ManagedPeer
  BY <1>1 DEF TypeOK
<1>3. removal' \in [ManagedPeer -> {"no", "listed", "cancelled", "disconnected"}]
  BY <1>1 DEF TypeOK
<1>4. ctx' \in [ManagedPeer -> {"caller", "background", "done"}]
  BY <1>1 DEF TypeOK
<1>5. \A mp \in ManagedPeer : ctx'[mp] \in {ctx[mp], "done"}
  BY <1>1
<1>6. \A mp \in ManagedPeer :
         removal'[mp] # removal[mp] =>
             mp \in S /\ (removal'[mp] # "listed" => ctx'[mp] = "done")
  BY <1>1, <1>2
<1>7. ctx'[first] = "done"
  BY <1>1, <1>2
<1>8. peersMu' \in Holder
  BY DEF startRemoval, Holder
<1> QED
  BY <1>3, <1>4, <1>5, <1>6, <1>7, <1>8 DEF Cancels

\* RemovePeer, an eviction and a health check begin alike.
Begins ==
    /\ \E S \in SUBSET peers : Cancels(S)
    /\ UNCHANGED <<peers, conn, attached, status, failureCount, told, inflight, wg,
                   clientVars, panicked>>

LEMMA RemovePeerBegins ==
    ASSUME TypeOK, NEW a \in Address, RemovePeer(a)
    PROVE  Begins /\ UNCHANGED loop
BY RemovalStarts DEF RemovePeer, entryFor, Begins, loopVars

LEMMA HealthCheckBegins ==
    ASSUME TypeOK, RunHealthChecks
    PROVE  Begins /\ UNCHANGED loop
<1>1. {mp \in peers : GaveUp(mp)} \in SUBSET peers
  OBVIOUS
<1> QED
  BY <1>1, RemovalStarts DEF RunHealthChecks, Begins, loopVars

LEMMA EvictBegins ==
    ASSUME TypeOK, NEW mp \in ManagedPeer, EvictPeer(mp)
    PROVE  /\ Begins
           /\ loop[mp] = "evict" /\ goto(mp, "evicting")
           /\ mp \in peers => ctx'[mp] = "done"
<1>1. entryFor(addressOf(mp)) \in SUBSET peers
  BY DEF entryFor
<1>2. Cancels(entryFor(addressOf(mp)))
  BY <1>1, RemovalStarts DEF EvictPeer
<1>3. Begins
  BY <1>1, <1>2 DEF EvictPeer, Begins
<1>4. mp \in peers => entryFor(addressOf(mp)) = {mp}
  BY DEF entryFor, TypeOK
<1>5. mp \in peers => ctx'[mp] = "done"
  BY <1>2, <1>4 DEF Cancels
<1> QED
  BY <1>3, <1>5 DEF EvictPeer

-----------------------------------------------------------------------------
(* Type correctness. *)

LEMMA CountersInit == Init => Counters
<1> SUFFICES ASSUME Init PROVE Counters
  OBVIOUS
<1>1. Cardinality(Live) = 0
  <2>1. Live = {}
    BY DEF Init, Live, Running
  <2> QED
    BY <2>1, FS_EmptySet
<1>2. TypeOK
  <2>1. failureCount \in [ManagedPeer -> 0..MaxFailureCount]
    BY ConfigAssumption DEF Init
  <2>2. attached \in [ManagedPeer -> BOOLEAN]
    BY DEF Init
  <2> QED
    BY <2>1, <2>2 DEF Init, TypeOK, LoopPoint, PeerStatus, Holder
<1>3. HealthChecksSpareTheLiving
  BY ConfigAssumption DEF Init, HealthChecksSpareTheLiving, GaveUp
<1>4. GoroutinesCounted
  BY <1>1 DEF Init, GoroutinesCounted
<1>5. StopProtocol
  BY DEF Init, StopProtocol
<1> QED
  BY <1>2, <1>3, <1>4, <1>5 DEF Counters

LEMMA CountersStep == Counters /\ [Next]_vars => Counters'
<1> SUFFICES ASSUME Counters, [Next]_vars PROVE Counters'
  OBVIOUS
<1> USE DEF Counters
<1>1. CASE Start
  <2>0. Live' = Live /\ Cardinality(Live) \in Nat
    BY <1>1, LiveIsFinite DEF Start, Live, loopVars
  <2>1. TypeOK'
    <3>1. wg \in Nat /\ wg' = wg + 1
      BY <1>1 DEF Start, TypeOK
    <3>2. wg' \in Nat
      BY <3>1
    <3> QED
      BY <1>1, <3>2 DEF TypeOK, LoopPoint, PeerStatus, loopVars, clientVars, Start
  <2>2. HealthChecksSpareTheLiving'
    BY <1>1 DEF TypeOK, HealthChecksSpareTheLiving, GaveUp, loopVars, Start
  <2>3. GoroutinesCounted'
    <3>1. wg = Cardinality(Live)
      BY <1>1, <2>0 DEF Start, GoroutinesCounted, StopProtocol
    <3>2. wg' = Cardinality(Live') + 1
      BY <1>1, <2>0, <3>1 DEF Start
    <3>3. healthLoop'
      BY <1>1 DEF Start
    <3> QED
      BY <3>2, <3>3 DEF GoroutinesCounted
  <2>4. StopProtocol'
    BY <1>1 DEF TypeOK, StopProtocol, clientVars, Start
  <2> QED
    BY <2>1, <2>2, <2>3, <2>4
<1>2. CASE StopCloses
  <2>1. TypeOK'
    BY <1>2 DEF TypeOK, LoopPoint, PeerStatus, loopVars, clientVars, StopCloses
  <2>2. HealthChecksSpareTheLiving'
    BY <1>2 DEF TypeOK, HealthChecksSpareTheLiving, GaveUp, loopVars, StopCloses
  <2>3. GoroutinesCounted'
    BY <1>2, CountKept DEF Live, loopVars, clientVars, StopCloses
  <2>4. StopProtocol'
    BY <1>2 DEF TypeOK, StopProtocol, clientVars, StopCloses
  <2> QED
    BY <2>1, <2>2, <2>3, <2>4
<1>3. CASE StopSweeps
  <2>1. TypeOK'
    BY <1>3 DEF TypeOK, LoopPoint, PeerStatus, loopVars, clientVars, StopSweeps,
       cancel, disconnect
  <2>2. HealthChecksSpareTheLiving'
    BY <1>3 DEF TypeOK, HealthChecksSpareTheLiving, GaveUp, loopVars, StopSweeps,
       cancel, disconnect
  <2>3. GoroutinesCounted'
    BY <1>3, CountKept DEF Live, loopVars, clientVars, StopSweeps, cancel, disconnect
  <2>4. StopProtocol'
    BY <1>3 DEF TypeOK, StopProtocol, clientVars, StopSweeps, cancel, disconnect
  <2> QED
    BY <2>1, <2>2, <2>3, <2>4
<1>4. CASE StopSucceeds
  <2>1. TypeOK'
    BY <1>4 DEF TypeOK, LoopPoint, PeerStatus, loopVars, clientVars, StopSucceeds
  <2>2. HealthChecksSpareTheLiving'
    BY <1>4 DEF TypeOK, HealthChecksSpareTheLiving, GaveUp, loopVars, StopSucceeds
  <2>3. GoroutinesCounted'
    BY <1>4, CountKept DEF Live, loopVars, clientVars, StopSucceeds
  <2>4. StopProtocol'
    BY <1>4 DEF TypeOK, StopProtocol, clientVars, StopSucceeds
  <2> QED
    BY <2>1, <2>2, <2>3, <2>4
<1>5. CASE StopTimesOut
  <2>1. TypeOK'
    BY <1>5 DEF TypeOK, LoopPoint, PeerStatus, loopVars, clientVars, StopTimesOut
  <2>2. HealthChecksSpareTheLiving'
    BY <1>5 DEF TypeOK, HealthChecksSpareTheLiving, GaveUp, loopVars, StopTimesOut
  <2>3. GoroutinesCounted'
    BY <1>5, CountKept DEF Live, loopVars, clientVars, StopTimesOut
  <2>4. StopProtocol'
    BY <1>5 DEF TypeOK, StopProtocol, clientVars, StopTimesOut
  <2> QED
    BY <2>1, <2>2, <2>3, <2>4
<1>6. CASE WaitReleased
  <2>0. ~healthLoop
    BY <1>6, LiveIsFinite DEF WaitReleased, GoroutinesCounted
  <2>1. TypeOK'
    BY <1>6 DEF TypeOK, LoopPoint, PeerStatus, loopVars, clientVars, WaitReleased
  <2>2. HealthChecksSpareTheLiving'
    BY <1>6 DEF TypeOK, HealthChecksSpareTheLiving, GaveUp, loopVars, WaitReleased
  <2>3. GoroutinesCounted'
    BY <1>6, CountKept DEF Live, loopVars, clientVars, WaitReleased
  <2>4. StopProtocol'
    BY <1>6, <2>0 DEF TypeOK, StopProtocol, clientVars, WaitReleased
  <2> QED
    BY <2>1, <2>2, <2>3, <2>4
<1>7. CASE WaitReturns
  <2>1. TypeOK'
    BY <1>7 DEF TypeOK, LoopPoint, PeerStatus, loopVars, clientVars, WaitReturns
  <2>2. HealthChecksSpareTheLiving'
    BY <1>7 DEF TypeOK, HealthChecksSpareTheLiving, GaveUp, loopVars, WaitReturns
  <2>3. GoroutinesCounted'
    BY <1>7, CountKept DEF Live, loopVars, clientVars, WaitReturns
  <2>4. StopProtocol'
    BY <1>7 DEF TypeOK, StopProtocol, clientVars, WaitReturns
  <2> QED
    BY <2>1, <2>2, <2>3, <2>4
<1>8. CASE RunHealthChecks
  <2>0. Begins /\ UNCHANGED loop
    BY <1>8, HealthCheckBegins
  <2>1. TypeOK'
    BY <2>0 DEF TypeOK, LoopPoint, clientVars, Begins, Cancels
  <2>2. HealthChecksSpareTheLiving'
    BY <2>0 DEF TypeOK, HealthChecksSpareTheLiving, GaveUp, Begins
  <2>3. GoroutinesCounted'
    BY <2>0, CountKept DEF Begins, clientVars, Live
  <2>4. StopProtocol'
    BY <2>0 DEF StopProtocol, Begins, clientVars
  <2> QED
    BY <2>1, <2>2, <2>3, <2>4
<1>9. CASE HealthLoopReturns
  <2>0. Live' = Live /\ Cardinality(Live) \in Nat
    BY <1>9, LiveIsFinite DEF HealthLoopReturns, Live, loopVars
  <2>a. wg = Cardinality(Live) + 1
    BY <1>9 DEF HealthLoopReturns, GoroutinesCounted
  <2>b. wg' = Cardinality(Live)
    BY <1>9, <2>0, <2>a DEF HealthLoopReturns
  <2>1. TypeOK'
    BY <1>9, <2>0, <2>b DEF TypeOK, LoopPoint, PeerStatus, loopVars, clientVars,
       HealthLoopReturns
  <2>2. HealthChecksSpareTheLiving'
    BY <1>9 DEF TypeOK, HealthChecksSpareTheLiving, GaveUp, loopVars, HealthLoopReturns
  <2>3. GoroutinesCounted'
    <3>1. wg' = Cardinality(Live') + 0
      BY <2>0, <2>b
    <3>2. ~healthLoop'
      BY <1>9 DEF HealthLoopReturns
    <3> QED
      BY <3>1, <3>2 DEF GoroutinesCounted
  <2>4. StopProtocol'
    BY <1>9 DEF TypeOK, StopProtocol, clientVars, HealthLoopReturns
  <2> QED
    BY <2>1, <2>2, <2>3, <2>4
<1>10. ASSUME NEW a \in Address, RemovePeer(a) PROVE Counters'
  <2>0. Begins /\ UNCHANGED loop
    BY <1>10, RemovePeerBegins
  <2>1. TypeOK'
    BY <2>0 DEF TypeOK, LoopPoint, clientVars, Begins, Cancels
  <2>2. HealthChecksSpareTheLiving'
    BY <2>0 DEF TypeOK, HealthChecksSpareTheLiving, GaveUp, Begins
  <2>3. GoroutinesCounted'
    BY <2>0, CountKept DEF Begins, clientVars, Live
  <2>4. StopProtocol'
    BY <2>0 DEF StopProtocol, Begins, clientVars
  <2> QED
    BY <2>1, <2>2, <2>3, <2>4
<1>11. ASSUME NEW mp \in ManagedPeer, ContextDone(mp) PROVE Counters'
  <2>1. TypeOK'
    BY <1>11 DEF TypeOK, LoopPoint, PeerStatus, loopVars, clientVars, ContextDone
  <2>2. HealthChecksSpareTheLiving'
    BY <1>11 DEF TypeOK, HealthChecksSpareTheLiving, GaveUp, loopVars, ContextDone
  <2>3. GoroutinesCounted'
    BY <1>11, CountKept DEF Live, loopVars, clientVars, ContextDone
  <2>4. StopProtocol'
    BY <1>11 DEF TypeOK, StopProtocol, clientVars, ContextDone
  <2> QED
    BY <2>1, <2>2, <2>3, <2>4
<1>12. ASSUME NEW mp \in ManagedPeer, Negotiated(mp) PROVE Counters'
  <2>1. TypeOK'
    BY <1>12 DEF TypeOK, LoopPoint, PeerStatus, loopVars, clientVars, Negotiated
  <2>2. HealthChecksSpareTheLiving'
    BY <1>12 DEF TypeOK, HealthChecksSpareTheLiving, GaveUp, loopVars, Negotiated
  <2>3. GoroutinesCounted'
    BY <1>12, CountKept DEF Live, loopVars, clientVars, Negotiated
  <2>4. StopProtocol'
    BY <1>12 DEF TypeOK, StopProtocol, clientVars, Negotiated
  <2> QED
    BY <2>1, <2>2, <2>3, <2>4
<1>13. ASSUME NEW mp \in ManagedPeer, ConnectionLost(mp) PROVE Counters'
  <2>1. TypeOK'
    BY <1>13 DEF TypeOK, LoopPoint, PeerStatus, loopVars, clientVars, ConnectionLost
  <2>2. HealthChecksSpareTheLiving'
    BY <1>13 DEF TypeOK, HealthChecksSpareTheLiving, GaveUp, loopVars, ConnectionLost
  <2>3. GoroutinesCounted'
    BY <1>13, CountKept DEF Live, loopVars, clientVars, ConnectionLost
  <2>4. StopProtocol'
    BY <1>13 DEF TypeOK, StopProtocol, clientVars, ConnectionLost
  <2> QED
    BY <2>1, <2>2, <2>3, <2>4
<1>14. ASSUME NEW mp \in ManagedPeer, NEW list \in AddrMsg, AddrArrives(mp, list) PROVE Counters'
  <2>1. TypeOK'
    BY <1>14 DEF TypeOK, LoopPoint, PeerStatus, loopVars, clientVars, AddrArrives
  <2>2. HealthChecksSpareTheLiving'
    BY <1>14 DEF TypeOK, HealthChecksSpareTheLiving, GaveUp, loopVars, AddrArrives
  <2>3. GoroutinesCounted'
    BY <1>14, CountKept DEF Live, loopVars, clientVars, AddrArrives
  <2>4. StopProtocol'
    BY <1>14 DEF TypeOK, StopProtocol, clientVars, AddrArrives
  <2> QED
    BY <2>1, <2>2, <2>3, <2>4
<1>15. ASSUME NEW mp \in ManagedPeer, LoopDials(mp) PROVE Counters'
  <2>0. Live' = Live
    BY <1>15, LiveKept DEF LoopDials, Running
  <2>1. TypeOK'
    BY <1>15 DEF TypeOK, LoopPoint, PeerStatus, loopVars, clientVars, LoopDials,
       goto, setStatus
  <2>2. HealthChecksSpareTheLiving'
    BY <1>15 DEF TypeOK, HealthChecksSpareTheLiving, GaveUp, loopVars, LoopDials,
       goto, setStatus
  <2>3. GoroutinesCounted'
    BY <1>15, <2>0, CountKept DEF clientVars, LoopDials
  <2>4. StopProtocol'
    BY <1>15 DEF TypeOK, StopProtocol, clientVars, LoopDials, goto, setStatus
  <2> QED
    BY <2>1, <2>2, <2>3, <2>4
<1>16. ASSUME NEW mp \in ManagedPeer, DialSucceeds(mp) PROVE Counters'
  <2>0. Live' = Live
    BY <1>16, LiveKept DEF DialSucceeds, Running
  <2>1. TypeOK'
    BY <1>16 DEF TypeOK, LoopPoint, PeerStatus, loopVars, clientVars, DialSucceeds, goto
  <2>2. HealthChecksSpareTheLiving'
    BY <1>16 DEF TypeOK, HealthChecksSpareTheLiving, GaveUp, loopVars, DialSucceeds,
       goto
  <2>3. GoroutinesCounted'
    BY <1>16, <2>0, CountKept DEF clientVars, DialSucceeds
  <2>4. StopProtocol'
    BY <1>16 DEF TypeOK, StopProtocol, clientVars, DialSucceeds, goto
  <2> QED
    BY <2>1, <2>2, <2>3, <2>4
<1>17. ASSUME NEW mp \in ManagedPeer, DialAttaches(mp) PROVE Counters'
  <2>0. Live' = Live
    BY <1>17, LiveKept DEF DialAttaches, Running
  <2>1. TypeOK'
    BY <1>17 DEF TypeOK, LoopPoint, PeerStatus, loopVars, clientVars, DialAttaches, goto
  <2>2. HealthChecksSpareTheLiving'
    BY <1>17 DEF TypeOK, HealthChecksSpareTheLiving, GaveUp, loopVars, DialAttaches,
       goto
  <2>3. GoroutinesCounted'
    BY <1>17, <2>0, CountKept DEF clientVars, DialAttaches
  <2>4. StopProtocol'
    BY <1>17 DEF TypeOK, StopProtocol, clientVars, DialAttaches, goto
  <2> QED
    BY <2>1, <2>2, <2>3, <2>4
<1>18. ASSUME NEW mp \in ManagedPeer, LoopDisconnects(mp) PROVE Counters'
  <2>0. Live' = Live
    BY <1>18, LiveKept DEF LoopDisconnects, Running
  <2>1. TypeOK'
    BY <1>18 DEF TypeOK, LoopPoint, PeerStatus, loopVars, clientVars,
       LoopDisconnects, goto, setStatus, clearPeer, tellDisconnected
  <2>2. HealthChecksSpareTheLiving'
    BY <1>18 DEF TypeOK, HealthChecksSpareTheLiving, GaveUp, loopVars,
       LoopDisconnects, goto, setStatus, clearPeer, tellDisconnected
  <2>3. GoroutinesCounted'
    BY <1>18, <2>0, CountKept DEF clientVars, LoopDisconnects
  <2>4. StopProtocol'
    BY <1>18 DEF TypeOK, StopProtocol, clientVars, LoopDisconnects, goto, setStatus,
       clearPeer, tellDisconnected
  <2> QED
    BY <2>1, <2>2, <2>3, <2>4
<1>19. ASSUME NEW mp \in ManagedPeer, WaitElapses(mp) PROVE Counters'
  <2>0. Live' = Live
    BY <1>19, LiveKept DEF WaitElapses, Running
  <2>1. TypeOK'
    BY <1>19 DEF TypeOK, LoopPoint, PeerStatus, loopVars, clientVars, WaitElapses, goto
  <2>2. HealthChecksSpareTheLiving'
    BY <1>19 DEF TypeOK, HealthChecksSpareTheLiving, GaveUp, loopVars, WaitElapses, goto
  <2>3. GoroutinesCounted'
    BY <1>19, <2>0, CountKept DEF clientVars, WaitElapses
  <2>4. StopProtocol'
    BY <1>19 DEF TypeOK, StopProtocol, clientVars, WaitElapses, goto
  <2> QED
    BY <2>1, <2>2, <2>3, <2>4
<1>20. ASSUME NEW mp \in ManagedPeer, LoopConnects(mp) PROVE Counters'
  <2>0. Live' = Live
    BY <1>20, LiveKept DEF LoopConnects, Running
  <2>a. ~(0 >= MaxFailureCount)
    BY ConfigAssumption
  <2>b. failureCount'[mp] = 0
    BY <1>20 DEF LoopConnects, TypeOK
  <2>c. ~GaveUp(mp)'
    BY <2>a, <2>b DEF GaveUp
  <2>d. \A m \in ManagedPeer \ {mp} : failureCount'[m] = failureCount[m] /\ loop'[m] = loop[m]
    BY <1>20 DEF LoopConnects, TypeOK, goto
  <2>1. TypeOK'
    <3>1. 0 \in 0..MaxFailureCount
      BY ConfigAssumption
    <3>2. failureCount' \in [ManagedPeer -> 0..MaxFailureCount]
      BY <1>20, <3>1 DEF LoopConnects, TypeOK
    <3> QED
      BY <1>20, <3>2 DEF TypeOK, LoopPoint, PeerStatus, loopVars, clientVars,
         LoopConnects, goto, setStatus
  <2>2. HealthChecksSpareTheLiving'
    BY <1>20, <2>c, <2>d DEF TypeOK, HealthChecksSpareTheLiving, GaveUp, loopVars,
       LoopConnects, goto, setStatus
  <2>3. GoroutinesCounted'
    BY <1>20, <2>0, CountKept DEF clientVars, LoopConnects
  <2>4. StopProtocol'
    BY <1>20 DEF TypeOK, StopProtocol, clientVars, LoopConnects, goto, setStatus
  <2> QED
    BY <2>1, <2>2, <2>3, <2>4
<1>21. ASSUME NEW mp \in ManagedPeer, DialFails(mp) PROVE Counters'
  <2>0. Live' = Live
    BY <1>21, LiveKept DEF DialFails, Running
  <2>a. failureCount[mp] + 1 \in 0..MaxFailureCount
    BY <1>21, BelowThreshold DEF DialFails
  <2>1. TypeOK'
    <3>1. failureCount' \in [ManagedPeer -> 0..MaxFailureCount]
      BY <1>21, <2>a DEF DialFails, TypeOK
    <3> QED
      BY <1>21, <3>1 DEF TypeOK, LoopPoint, PeerStatus, loopVars, clientVars,
         DialFails, goto, setStatus
  <2>2. HealthChecksSpareTheLiving'
    BY <1>21, <2>a DEF TypeOK, HealthChecksSpareTheLiving, GaveUp, loopVars,
       DialFails, goto, setStatus
  <2>3. GoroutinesCounted'
    BY <1>21, <2>0, CountKept DEF clientVars, DialFails
  <2>4. StopProtocol'
    BY <1>21 DEF TypeOK, StopProtocol, clientVars, DialFails, goto, setStatus
  <2> QED
    BY <2>1, <2>2, <2>3, <2>4
<1>22. ASSUME NEW mp \in ManagedPeer, LoopQuits(mp) PROVE Counters'
  <2>0. wg' \in Nat /\ GoroutinesCounted'
    BY <1>22, ReturnCounts DEF LoopQuits, Running, clientVars
  <2>1. TypeOK'
    BY <1>22, <2>0 DEF TypeOK, LoopPoint, PeerStatus, loopVars, clientVars,
       LoopQuits, return, goto
  <2>2. HealthChecksSpareTheLiving'
    BY <1>22 DEF TypeOK, HealthChecksSpareTheLiving, GaveUp, loopVars, LoopQuits,
       return, goto
  <2>3. GoroutinesCounted'
    BY <2>0
  <2>4. StopProtocol'
    BY <1>22 DEF TypeOK, StopProtocol, clientVars, LoopQuits, return, goto
  <2> QED
    BY <2>1, <2>2, <2>3, <2>4
<1>23. ASSUME NEW mp \in ManagedPeer, WaitCancelled(mp) PROVE Counters'
  <2>0. wg' \in Nat /\ GoroutinesCounted'
    BY <1>23, ReturnCounts DEF WaitCancelled, Running, clientVars
  <2>1. TypeOK'
    BY <1>23, <2>0 DEF TypeOK, LoopPoint, PeerStatus, loopVars, clientVars,
       WaitCancelled, return, goto
  <2>2. HealthChecksSpareTheLiving'
    BY <1>23 DEF TypeOK, HealthChecksSpareTheLiving, GaveUp, loopVars, WaitCancelled,
       return, goto
  <2>3. GoroutinesCounted'
    BY <2>0
  <2>4. StopProtocol'
    BY <1>23 DEF TypeOK, StopProtocol, clientVars, WaitCancelled, return, goto
  <2> QED
    BY <2>1, <2>2, <2>3, <2>4
<1>24. ASSUME NEW mp \in ManagedPeer, EvictPeer(mp) PROVE Counters'
  <2>0. Begins /\ loop[mp] = "evict" /\ goto(mp, "evicting")
    BY <1>24, EvictBegins
  <2>a. Live' = Live
    BY <2>0, LiveKept DEF Running
  <2>1. TypeOK'
    BY <2>0 DEF TypeOK, LoopPoint, clientVars, Begins, Cancels, goto
  <2>2. HealthChecksSpareTheLiving'
    BY <2>0 DEF TypeOK, HealthChecksSpareTheLiving, GaveUp, Begins, goto
  <2>3. GoroutinesCounted'
    BY <2>0, <2>a, CountKept DEF Begins, clientVars
  <2>4. StopProtocol'
    BY <2>0 DEF StopProtocol, Begins, clientVars
  <2> QED
    BY <2>1, <2>2, <2>3, <2>4
<1>25. ASSUME NEW new \in SUBSET Fresh, NEW parent \in {"caller", "background"},
             Registers(new, parent)
      PROVE  Counters'
  BY <1>25, RegisterCounts
<1>26. CASE UNCHANGED vars
  <2>1. Live' = Live
    BY <1>26 DEF vars, Live
  <2> QED
    BY <1>26, <2>1 DEF vars, TypeOK, HealthChecksSpareTheLiving, GaveUp,
       GoroutinesCounted, StopProtocol
<1>27. ASSUME NEW mp \in ManagedPeer, RemovalDisconnects(mp) PROVE Counters'
  <2>1. TypeOK'
    BY <1>27 DEF TypeOK, LoopPoint, PeerStatus, loopVars, clientVars,
       RemovalDisconnects, disconnect
  <2>2. HealthChecksSpareTheLiving'
    BY <1>27 DEF TypeOK, HealthChecksSpareTheLiving, GaveUp, loopVars,
       RemovalDisconnects, disconnect
  <2>3. GoroutinesCounted'
    BY <1>27, CountKept DEF Live, loopVars, clientVars, RemovalDisconnects
  <2>4. StopProtocol'
    BY <1>27 DEF TypeOK, StopProtocol, clientVars, RemovalDisconnects, disconnect
  <2> QED
    BY <2>1, <2>2, <2>3, <2>4
<1>28. ASSUME NEW mp \in ManagedPeer, RemovePeerReturns(mp) PROVE Counters'
  <2>1. TypeOK'
    BY <1>28 DEF TypeOK, Holder, LoopPoint, PeerStatus, loopVars, clientVars,
       RemovePeerReturns, deleteEntry, tellDisconnected
  <2>2. HealthChecksSpareTheLiving'
    BY <1>28 DEF TypeOK, HealthChecksSpareTheLiving, GaveUp, loopVars,
       RemovePeerReturns, deleteEntry, tellDisconnected
  <2>3. GoroutinesCounted'
    BY <1>28, CountKept DEF Live, loopVars, clientVars, RemovePeerReturns
  <2>4. StopProtocol'
    BY <1>28 DEF TypeOK, StopProtocol, clientVars, RemovePeerReturns, deleteEntry,
       tellDisconnected
  <2> QED
    BY <2>1, <2>2, <2>3, <2>4
<1>29. ASSUME NEW mp \in ManagedPeer, HealthCheckGoesOn(mp) PROVE Counters'
  <2>1. TypeOK'
    BY <1>29 DEF TypeOK, LoopPoint, PeerStatus, loopVars, clientVars,
       HealthCheckGoesOn, cancel
  <2>2. HealthChecksSpareTheLiving'
    BY <1>29 DEF TypeOK, HealthChecksSpareTheLiving, GaveUp, loopVars,
       HealthCheckGoesOn, cancel
  <2>3. GoroutinesCounted'
    BY <1>29, CountKept DEF Live, loopVars, clientVars, HealthCheckGoesOn
  <2>4. StopProtocol'
    BY <1>29 DEF TypeOK, StopProtocol, clientVars, HealthCheckGoesOn, cancel
  <2> QED
    BY <2>1, <2>2, <2>3, <2>4
<1>30. ASSUME NEW mp \in ManagedPeer, HealthCheckRemoves(mp) PROVE Counters'
  <2>1. TypeOK'
    BY <1>30 DEF TypeOK, Holder, LoopPoint, PeerStatus, loopVars, clientVars,
       HealthCheckRemoves, deleteEntry, tellDisconnected
  <2>2. HealthChecksSpareTheLiving'
    BY <1>30 DEF TypeOK, HealthChecksSpareTheLiving, GaveUp, loopVars,
       HealthCheckRemoves, deleteEntry, tellDisconnected
  <2>3. GoroutinesCounted'
    BY <1>30, CountKept DEF Live, loopVars, clientVars, HealthCheckRemoves
  <2>4. StopProtocol'
    BY <1>30 DEF TypeOK, StopProtocol, clientVars, HealthCheckRemoves, deleteEntry,
       tellDisconnected
  <2> QED
    BY <2>1, <2>2, <2>3, <2>4
<1>31. ASSUME NEW mp \in ManagedPeer, EvictFindsNone(mp) PROVE Counters'
  <2>0. wg' \in Nat /\ GoroutinesCounted'
    BY <1>31, ReturnCounts DEF EvictFindsNone, Running, clientVars
  <2>1. TypeOK'
    BY <1>31, <2>0 DEF TypeOK, LoopPoint, PeerStatus, loopVars, clientVars,
       EvictFindsNone, return, goto, Exists
  <2>2. HealthChecksSpareTheLiving'
    BY <1>31 DEF TypeOK, HealthChecksSpareTheLiving, GaveUp, loopVars, EvictFindsNone,
       return, goto, Exists
  <2>3. GoroutinesCounted'
    BY <2>0
  <2>4. StopProtocol'
    BY <1>31 DEF TypeOK, StopProtocol, clientVars, EvictFindsNone, return, goto,
       Exists
  <2> QED
    BY <2>1, <2>2, <2>3, <2>4
<1>32. ASSUME NEW mp \in ManagedPeer, EvictReturns(mp) PROVE Counters'
  <2>0. wg' \in Nat /\ GoroutinesCounted'
    BY <1>32, ReturnCounts DEF EvictReturns, Running, clientVars
  <2>1. TypeOK'
    <3>1. PICK victim \in ManagedPeer : deleteEntry(victim)
      BY <1>32 DEF EvictReturns
    <3>2. /\ peers' = peers \ {victim}
          /\ removal' = [removal EXCEPT ![victim] = "no"]
          /\ told' = [m \in ManagedPeer |-> IF m \in {victim} THEN "disconnected" ELSE told[m]]
      BY <3>1 DEF deleteEntry, tellDisconnected
    <3>3. peersMu' = "free" /\ loop' = [loop EXCEPT ![mp] = "exited"]
          /\ UNCHANGED <<ctx, conn, attached, status, failureCount, inflight, clientVars,
                         panicked>>
      BY <1>32 DEF EvictReturns, return, goto
    <3> QED
      BY <2>0, <3>2, <3>3 DEF TypeOK, Holder, LoopPoint, clientVars
  <2>2. HealthChecksSpareTheLiving'
    BY <1>32 DEF TypeOK, HealthChecksSpareTheLiving, GaveUp, loopVars, EvictReturns,
       deleteEntry, tellDisconnected, return, goto
  <2>3. GoroutinesCounted'
    BY <2>0
  <2>4. StopProtocol'
    BY <1>32 DEF TypeOK, StopProtocol, clientVars, EvictReturns, deleteEntry,
       tellDisconnected, return, goto
  <2> QED
    BY <2>1, <2>2, <2>3, <2>4
<1> QED
  BY AddsFresh, <1>1, <1>2, <1>3, <1>4, <1>5, <1>6, <1>7, <1>8, <1>9, <1>10, <1>11,
     <1>12, <1>13, <1>14, <1>15, <1>16, <1>17, <1>18, <1>19, <1>20, <1>21, <1>22,
     <1>23, <1>24, <1>25, <1>26,
     <1>27, <1>28, <1>29, <1>30, <1>31, <1>32
     DEF Next, ClientStep, LoopStep, HealthStep, RemovalStep, RemoteStep

\* Every behaviour of the peer manager keeps the types of its state: the registry
\* stays a map, a failure count never passes the threshold, and the counter of
\* the WaitGroup never becomes negative (which would panic).
THEOREM TypeCorrect == Spec => []TypeOK
<1>1. Spec => []Counters
  BY CountersInit, CountersStep, PTL DEF Spec
<1>2. Counters => TypeOK
  BY DEF Counters
<1> QED
  BY <1>1, <1>2, PTL

-----------------------------------------------------------------------------
(* The registry and the loops that serve it. *)

\* What is known while removals are under way: they are of registered entries, an
\* entry is cancelled before it is disconnected and deleted, and a loop that
\* evicts has cancelled its own entry, if that is the one it found.
Removing ==
    /\ \A mp \in ManagedPeer : removal[mp] # "no" => mp \in peers
    /\ \A mp \in peers : loop[mp] # "none"
    /\ \A mp \in ManagedPeer :
          removal[mp] \in {"cancelled", "disconnected"} => ctx[mp] = "done"
    /\ \A mp \in peers : loop[mp] = "evicting" => ctx[mp] = "done"

LEMMA BeginsKeepsRemoving ==
    ASSUME TypeOK, Removing, Begins,
           \A m \in peers :
              loop'[m] = loop[m] \/ (loop'[m] = "evicting" /\ ctx'[m] = "done")
    PROVE  Removing'
<1>1. PICK S \in SUBSET peers : Cancels(S)
  BY DEF Begins
<1>2. peers' = peers /\ peers \subseteq ManagedPeer
  BY DEF Begins, TypeOK
<1>3. \A m \in ManagedPeer : ctx[m] = "done" => ctx'[m] = "done"
  BY <1>1 DEF Cancels
<1>4. \A m \in ManagedPeer : removal'[m] # "no" => m \in peers'
  BY <1>1, <1>2 DEF Cancels, Removing
<1>5. \A m \in ManagedPeer :
         removal'[m] \in {"cancelled", "disconnected"} => ctx'[m] = "done"
  BY <1>1, <1>3 DEF Cancels, Removing
<1>6. \A m \in peers' : loop'[m] # "none" /\ (loop'[m] = "evicting" => ctx'[m] = "done")
  BY <1>2, <1>3 DEF Removing
<1> QED
  BY <1>4, <1>5, <1>6 DEF Removing

LEMMA RemovingStep ==
    TypeOK /\ Removing /\ [Next]_vars => Removing'
<1> SUFFICES ASSUME TypeOK, Removing, [Next]_vars PROVE Removing'
  OBVIOUS
<1>1. ASSUME NEW new \in SUBSET Fresh, NEW parent \in {"caller", "background"},
             Registers(new, parent)
      PROVE  Removing'
  BY <1>1 DEF TypeOK, Removing, Fresh, Registers, register, wgAdd
<1>2. ASSUME NEW a \in Address, RemovePeer(a) PROVE Removing'
  <2>1. Begins /\ loop' = loop
    BY <1>2, RemovePeerBegins
  <2> QED
    BY <2>1, BeginsKeepsRemoving
<1>3. CASE RunHealthChecks
  <2>1. Begins /\ loop' = loop
    BY <1>3, HealthCheckBegins
  <2> QED
    BY <2>1, BeginsKeepsRemoving
<1>4. ASSUME NEW mp \in ManagedPeer, EvictPeer(mp) PROVE Removing'
  <2>1. Begins /\ loop[mp] = "evict" /\ loop' = [loop EXCEPT ![mp] = "evicting"]
    BY <1>4, EvictBegins DEF goto
  <2>2. mp \in peers => ctx'[mp] = "done"
    BY <1>4, EvictBegins
  <2>3. \A m \in peers :
           loop'[m] = loop[m] \/ (loop'[m] = "evicting" /\ ctx'[m] = "done")
    BY <2>1, <2>2 DEF TypeOK
  <2> QED
    BY <2>1, <2>3, BeginsKeepsRemoving
<1>5. ASSUME NEW mp \in ManagedPeer, EvictFindsNone(mp) PROVE Removing'
  BY <1>5 DEF TypeOK, Removing, EvictFindsNone, loopVars, return, goto
<1>6. ASSUME NEW mp \in ManagedPeer, EvictReturns(mp) PROVE Removing'
  BY <1>6 DEF TypeOK, Removing, EvictReturns, loopVars, deleteEntry, return, goto
<1>7. ASSUME NEW mp \in ManagedPeer, RemovalDisconnects(mp) PROVE Removing'
  BY <1>7 DEF TypeOK, Removing, RemovalDisconnects, loopVars
<1>8. ASSUME NEW mp \in ManagedPeer, RemovePeerReturns(mp) PROVE Removing'
  BY <1>8 DEF TypeOK, Removing, RemovePeerReturns, loopVars, deleteEntry
<1>9. ASSUME NEW mp \in ManagedPeer, HealthCheckGoesOn(mp) PROVE Removing'
  BY <1>9 DEF TypeOK, Removing, HealthCheckGoesOn, loopVars, cancel
<1>10. ASSUME NEW mp \in ManagedPeer, HealthCheckRemoves(mp) PROVE Removing'
  BY <1>10 DEF TypeOK, Removing, HealthCheckRemoves, loopVars, deleteEntry
<1>11. ASSUME NEW mp \in ManagedPeer, ContextDone(mp) PROVE Removing'
  BY <1>11 DEF TypeOK, Removing, ContextDone, loopVars
<1>12. ASSUME NEW mp \in ManagedPeer, LoopQuits(mp) PROVE Removing'
  BY <1>12 DEF TypeOK, Removing, LoopQuits, loopVars, return, goto
<1>13. ASSUME NEW mp \in ManagedPeer, LoopDials(mp) PROVE Removing'
  BY <1>13 DEF TypeOK, Removing, LoopDials, loopVars, goto
<1>14. ASSUME NEW mp \in ManagedPeer, DialSucceeds(mp) PROVE Removing'
  BY <1>14 DEF TypeOK, Removing, DialSucceeds, loopVars, goto
<1>15. ASSUME NEW mp \in ManagedPeer, DialAttaches(mp) PROVE Removing'
  BY <1>15 DEF TypeOK, Removing, DialAttaches, loopVars, goto
<1>16. ASSUME NEW mp \in ManagedPeer, DialFails(mp) PROVE Removing'
  BY <1>16 DEF TypeOK, Removing, DialFails, loopVars, goto
<1>17. ASSUME NEW mp \in ManagedPeer, LoopConnects(mp) PROVE Removing'
  BY <1>17 DEF TypeOK, Removing, LoopConnects, loopVars, goto
<1>18. ASSUME NEW mp \in ManagedPeer, LoopDisconnects(mp) PROVE Removing'
  BY <1>18 DEF TypeOK, Removing, LoopDisconnects, loopVars, goto
<1>19. ASSUME NEW mp \in ManagedPeer, WaitElapses(mp) PROVE Removing'
  BY <1>19 DEF TypeOK, Removing, WaitElapses, loopVars, goto
<1>20. ASSUME NEW mp \in ManagedPeer, WaitCancelled(mp) PROVE Removing'
  BY <1>20 DEF TypeOK, Removing, WaitCancelled, loopVars, return, goto
<1>21. CASE StopSweeps
  BY <1>21 DEF TypeOK, Removing, StopSweeps, cancel, loopVars
<1>22. CASE UNCHANGED <<peers, removal, loop, ctx>>
  BY <1>22 DEF Removing
<1> QED
  BY AddsFresh, <1>1, <1>2, <1>3, <1>4, <1>5, <1>6, <1>7, <1>8, <1>9, <1>10, <1>11,
     <1>12, <1>13, <1>14, <1>15, <1>16, <1>17, <1>18, <1>19, <1>20, <1>21, <1>22
     DEF Next, ClientStep, LoopStep, HealthStep, RemovalStep, RemoteStep, vars,
     clientVars, loopVars, Start, StopCloses, StopSucceeds, StopTimesOut, WaitReleased,
     WaitReturns, HealthLoopReturns, AddrArrives, Negotiated, ConnectionLost

\* Removals are in order in every reachable state.
LEMMA RemovalInOrder == Spec => []Removing
<1>1. Init => Removing
  BY DEF Init, Removing
<1> QED
  BY <1>1, RemovingStep, TypeCorrect, PTL DEF Spec

LEMMA ServedStep ==
    TypeOK /\ Removing /\ RegisteredIsServed /\ [Next]_vars => RegisteredIsServed'
<1> SUFFICES ASSUME TypeOK, Removing, RegisteredIsServed, [Next]_vars PROVE RegisteredIsServed'
  OBVIOUS
<1>1. ASSUME NEW new \in SUBSET Fresh, NEW parent \in {"caller", "background"},
            Registers(new, parent)
     PROVE  RegisteredIsServed'
  BY <1>1 DEF TypeOK, RegisteredIsServed, Stopping, Live, Running, Fresh, entryFor,
     Registers, register, wgAdd, clientVars
<1>2. ASSUME NEW a \in Address, RemovePeer(a) PROVE RegisteredIsServed'
  BY <1>2, RemovePeerBegins DEF TypeOK, RegisteredIsServed, Stopping, Live, Running,
     Begins, Cancels, clientVars
<1>3. ASSUME NEW mp \in ManagedPeer, ContextDone(mp) PROVE RegisteredIsServed'
  BY <1>3 DEF TypeOK, RegisteredIsServed, Stopping, Live, Running, Fresh, entryFor,
     ContextDone, clientVars, loopVars
<1>4. CASE StopCloses
  BY <1>4 DEF TypeOK, RegisteredIsServed, Stopping, Live, Running, Fresh, entryFor,
     StopCloses, clientVars, loopVars
<1>5. CASE StopSweeps
  BY <1>5 DEF TypeOK, RegisteredIsServed, Stopping, Live, Running, Fresh, entryFor,
     StopSweeps, cancel, disconnect, clientVars, loopVars
<1>6. ASSUME NEW mp \in ManagedPeer, LoopQuits(mp) PROVE RegisteredIsServed'
  BY <1>6 DEF TypeOK, RegisteredIsServed, Stopping, Live, Running, Fresh, entryFor,
     LoopQuits, return, goto, clientVars, loopVars
<1>7. ASSUME NEW mp \in ManagedPeer, LoopDials(mp) PROVE RegisteredIsServed'
  BY <1>7 DEF TypeOK, RegisteredIsServed, Stopping, Live, Running, Fresh, entryFor,
     LoopDials, goto, setStatus, clientVars, loopVars
<1>8. ASSUME NEW mp \in ManagedPeer, DialSucceeds(mp) PROVE RegisteredIsServed'
  BY <1>8 DEF TypeOK, RegisteredIsServed, Stopping, Live, Running, Fresh, entryFor,
     DialSucceeds, goto, clientVars, loopVars
<1>9. ASSUME NEW mp \in ManagedPeer, DialAttaches(mp) PROVE RegisteredIsServed'
  BY <1>9 DEF TypeOK, RegisteredIsServed, Stopping, Live, Running, Fresh, entryFor,
     DialAttaches, goto, clientVars, loopVars
<1>10. ASSUME NEW mp \in ManagedPeer, DialFails(mp) PROVE RegisteredIsServed'
  BY <1>10 DEF TypeOK, RegisteredIsServed, Stopping, Live, Running, Fresh,
     entryFor, DialFails, goto, setStatus, clientVars, loopVars
<1>11. ASSUME NEW mp \in ManagedPeer, EvictPeer(mp) PROVE RegisteredIsServed'
  <2>1. Begins /\ loop[mp] = "evict" /\ loop' = [loop EXCEPT ![mp] = "evicting"]
    BY <1>11, EvictBegins DEF goto
  <2>2. Live' = Live
    BY <2>1, LiveKept DEF goto, Running
  <2>a. peers' = peers /\ done' = done
    BY <2>1 DEF Begins, clientVars
  <2>3. \A m \in ManagedPeer : ctx[m] = "done" => ctx'[m] = "done"
    BY <2>1 DEF Begins, Cancels
  <2> QED
    BY <2>2, <2>a, <2>3 DEF RegisteredIsServed, Stopping, Live, TypeOK
<1>12. ASSUME NEW mp \in ManagedPeer, LoopConnects(mp) PROVE RegisteredIsServed'
  BY <1>12 DEF TypeOK, RegisteredIsServed, Stopping, Live, Running, Fresh,
     entryFor, LoopConnects, goto, setStatus, clientVars, loopVars
<1>13. ASSUME NEW mp \in ManagedPeer, LoopDisconnects(mp) PROVE RegisteredIsServed'
  BY <1>13 DEF TypeOK, RegisteredIsServed, Stopping, Live, Running, Fresh,
     entryFor, LoopDisconnects, goto, setStatus, clearPeer, tellDisconnected,
     clientVars, loopVars
<1>14. ASSUME NEW mp \in ManagedPeer, WaitElapses(mp) PROVE RegisteredIsServed'
  BY <1>14 DEF TypeOK, RegisteredIsServed, Stopping, Live, Running, Fresh,
     entryFor, WaitElapses, goto, clientVars, loopVars
<1>15. ASSUME NEW mp \in ManagedPeer, WaitCancelled(mp) PROVE RegisteredIsServed'
  BY <1>15 DEF TypeOK, RegisteredIsServed, Stopping, Live, Running, Fresh,
     entryFor, WaitCancelled, return, goto, clientVars, loopVars
<1>16. CASE RunHealthChecks
  BY <1>16, HealthCheckBegins DEF TypeOK, RegisteredIsServed, Stopping, Live, Running,
     Begins, Cancels, clientVars
<1>17. CASE UNCHANGED <<peers, loop, ctx, done>>
  BY <1>17 DEF RegisteredIsServed, Stopping, Live, Running, Fresh, entryFor
<1>18. ASSUME NEW mp \in ManagedPeer, RemovalDisconnects(mp) PROVE RegisteredIsServed'
  BY <1>18 DEF TypeOK, RegisteredIsServed, Removing, Stopping, Live, Running, Fresh,
     entryFor, RemovalDisconnects, disconnect, clientVars, loopVars
<1>19. ASSUME NEW mp \in ManagedPeer, RemovePeerReturns(mp) PROVE RegisteredIsServed'
  BY <1>19 DEF TypeOK, RegisteredIsServed, Removing, Stopping, Live, Running, Fresh,
     entryFor, RemovePeerReturns, deleteEntry, tellDisconnected, clientVars, loopVars
<1>20. ASSUME NEW mp \in ManagedPeer, HealthCheckGoesOn(mp) PROVE RegisteredIsServed'
  BY <1>20 DEF TypeOK, RegisteredIsServed, Removing, Stopping, Live, Running, Fresh,
     entryFor, HealthCheckGoesOn, cancel, clientVars, loopVars
<1>21. ASSUME NEW mp \in ManagedPeer, HealthCheckRemoves(mp) PROVE RegisteredIsServed'
  BY <1>21 DEF TypeOK, RegisteredIsServed, Removing, Stopping, Live, Running, Fresh,
     entryFor, HealthCheckRemoves, deleteEntry, tellDisconnected, clientVars, loopVars
<1>22. ASSUME NEW mp \in ManagedPeer, EvictFindsNone(mp) PROVE RegisteredIsServed'
  BY <1>22 DEF TypeOK, RegisteredIsServed, Removing, Stopping, Live, Running, Fresh,
     entryFor, EvictFindsNone, return, goto, Exists, clientVars, loopVars
<1>23. ASSUME NEW mp \in ManagedPeer, EvictReturns(mp) PROVE RegisteredIsServed'
  BY <1>23 DEF TypeOK, RegisteredIsServed, Removing, Stopping, Live, Running, Fresh,
     entryFor, EvictReturns, deleteEntry, tellDisconnected, return, goto, clientVars,
     loopVars
<1> QED
  BY AddsFresh, <1>1, <1>2, <1>3, <1>4, <1>5, <1>6, <1>7, <1>8, <1>9, <1>10, <1>11,
     <1>12, <1>13, <1>14, <1>15, <1>16, <1>17,
     <1>18, <1>19, <1>20, <1>21, <1>22, <1>23
     DEF Next, ClientStep, LoopStep, HealthStep, RemovalStep, RemoteStep, vars,
     clientVars, loopVars, Start, StopSucceeds, StopTimesOut, WaitReleased,
     WaitReturns, HealthLoopReturns, AddrArrives, Negotiated, ConnectionLost

LEMMA NoRunawayStep ==
    TypeOK /\ Removing /\ NoRunawayLoop /\ [Next]_vars => NoRunawayLoop'
<1> SUFFICES ASSUME TypeOK, Removing, NoRunawayLoop, [Next]_vars PROVE NoRunawayLoop'
  OBVIOUS
<1>1. ASSUME NEW new \in SUBSET Fresh, NEW parent \in {"caller", "background"},
            Registers(new, parent)
     PROVE  NoRunawayLoop'
  BY <1>1 DEF TypeOK, NoRunawayLoop, Live, Running, Fresh, entryFor, Registers,
     register, wgAdd, clientVars
<1>2. ASSUME NEW a \in Address, RemovePeer(a) PROVE NoRunawayLoop'
  BY <1>2, RemovePeerBegins DEF TypeOK, NoRunawayLoop, Live, Running, Begins, Cancels
<1>3. ASSUME NEW mp \in ManagedPeer, ContextDone(mp) PROVE NoRunawayLoop'
  BY <1>3 DEF TypeOK, NoRunawayLoop, Live, Running, Fresh, entryFor, ContextDone,
     clientVars, loopVars
<1>4. CASE StopSweeps
  BY <1>4 DEF TypeOK, NoRunawayLoop, Live, Running, Fresh, entryFor, StopSweeps,
     cancel, disconnect, clientVars, loopVars
<1>5. ASSUME NEW mp \in ManagedPeer, LoopQuits(mp) PROVE NoRunawayLoop'
  BY <1>5 DEF TypeOK, NoRunawayLoop, Live, Running, Fresh, entryFor, LoopQuits,
     return, goto, clientVars, loopVars
<1>6. ASSUME NEW mp \in ManagedPeer, LoopDials(mp) PROVE NoRunawayLoop'
  BY <1>6 DEF TypeOK, NoRunawayLoop, Live, Running, Fresh, entryFor, LoopDials,
     goto, setStatus, clientVars, loopVars
<1>7. ASSUME NEW mp \in ManagedPeer, DialSucceeds(mp) PROVE NoRunawayLoop'
  BY <1>7 DEF TypeOK, NoRunawayLoop, Live, Running, Fresh, entryFor, DialSucceeds,
     goto, clientVars, loopVars
<1>8. ASSUME NEW mp \in ManagedPeer, DialAttaches(mp) PROVE NoRunawayLoop'
  BY <1>8 DEF TypeOK, NoRunawayLoop, Live, Running, Fresh, entryFor, DialAttaches,
     goto, clientVars, loopVars
<1>9. ASSUME NEW mp \in ManagedPeer, DialFails(mp) PROVE NoRunawayLoop'
  BY <1>9 DEF TypeOK, NoRunawayLoop, Live, Running, Fresh, entryFor, DialFails,
     goto, setStatus, clientVars, loopVars
<1>10. ASSUME NEW mp \in ManagedPeer, EvictPeer(mp) PROVE NoRunawayLoop'
  <2>1. Begins /\ loop[mp] = "evict" /\ loop' = [loop EXCEPT ![mp] = "evicting"]
    BY <1>10, EvictBegins DEF goto
  <2>2. Live' = Live /\ peers' = peers
    BY <2>1 DEF TypeOK, Live, Running, Begins
  <2>3. \A m \in ManagedPeer : ctx[m] = "done" => ctx'[m] = "done"
    BY <2>1 DEF Begins, Cancels
  <2> QED
    BY <2>2, <2>3 DEF NoRunawayLoop, Live
<1>11. ASSUME NEW mp \in ManagedPeer, LoopConnects(mp) PROVE NoRunawayLoop'
  BY <1>11 DEF TypeOK, NoRunawayLoop, Live, Running, Fresh, entryFor, LoopConnects,
     goto, setStatus, clientVars, loopVars
<1>12. ASSUME NEW mp \in ManagedPeer, LoopDisconnects(mp) PROVE NoRunawayLoop'
  BY <1>12 DEF TypeOK, NoRunawayLoop, Live, Running, Fresh, entryFor,
     LoopDisconnects, goto, setStatus, clearPeer, tellDisconnected, clientVars,
     loopVars
<1>13. ASSUME NEW mp \in ManagedPeer, WaitElapses(mp) PROVE NoRunawayLoop'
  BY <1>13 DEF TypeOK, NoRunawayLoop, Live, Running, Fresh, entryFor, WaitElapses,
     goto, clientVars, loopVars
<1>14. ASSUME NEW mp \in ManagedPeer, WaitCancelled(mp) PROVE NoRunawayLoop'
  BY <1>14 DEF TypeOK, NoRunawayLoop, Live, Running, Fresh, entryFor,
     WaitCancelled, return, goto, clientVars, loopVars
<1>15. CASE RunHealthChecks
  BY <1>15, HealthCheckBegins DEF TypeOK, NoRunawayLoop, Live, Running, Begins,
     Cancels
<1>16. CASE UNCHANGED <<peers, loop, ctx>>
  BY <1>16 DEF NoRunawayLoop, Live, Running, Fresh, entryFor
<1>17. ASSUME NEW mp \in ManagedPeer, RemovalDisconnects(mp) PROVE NoRunawayLoop'
  BY <1>17 DEF TypeOK, NoRunawayLoop, Removing, Live, Running, Fresh, entryFor,
     RemovalDisconnects, disconnect, clientVars, loopVars
<1>18. ASSUME NEW mp \in ManagedPeer, RemovePeerReturns(mp) PROVE NoRunawayLoop'
  BY <1>18 DEF TypeOK, NoRunawayLoop, Removing, Live, Running, Fresh, entryFor,
     RemovePeerReturns, deleteEntry, tellDisconnected, clientVars, loopVars
<1>19. ASSUME NEW mp \in ManagedPeer, HealthCheckGoesOn(mp) PROVE NoRunawayLoop'
  BY <1>19 DEF TypeOK, NoRunawayLoop, Removing, Live, Running, Fresh, entryFor,
     HealthCheckGoesOn, cancel, clientVars, loopVars
<1>20. ASSUME NEW mp \in ManagedPeer, HealthCheckRemoves(mp) PROVE NoRunawayLoop'
  BY <1>20 DEF TypeOK, NoRunawayLoop, Removing, Live, Running, Fresh, entryFor,
     HealthCheckRemoves, deleteEntry, tellDisconnected, clientVars, loopVars
<1>21. ASSUME NEW mp \in ManagedPeer, EvictFindsNone(mp) PROVE NoRunawayLoop'
  BY <1>21 DEF TypeOK, NoRunawayLoop, Removing, Live, Running, Fresh, entryFor,
     EvictFindsNone, return, goto, Exists, clientVars, loopVars
<1>22. ASSUME NEW mp \in ManagedPeer, EvictReturns(mp) PROVE NoRunawayLoop'
  BY <1>22 DEF TypeOK, NoRunawayLoop, Removing, Live, Running, Fresh, entryFor,
     EvictReturns, deleteEntry, tellDisconnected, return, goto, clientVars, loopVars
<1> QED
  BY AddsFresh, <1>1, <1>2, <1>3, <1>4, <1>5, <1>6, <1>7, <1>8, <1>9, <1>10, <1>11,
     <1>12, <1>13, <1>14, <1>15, <1>16,
     <1>17, <1>18, <1>19, <1>20, <1>21, <1>22
     DEF Next, ClientStep, LoopStep, HealthStep, RemovalStep, RemoteStep, vars,
     clientVars, loopVars, Start, StopCloses, StopSucceeds, StopTimesOut,
     WaitReleased, WaitReturns, HealthLoopReturns, AddrArrives, Negotiated,
     ConnectionLost

LEMMA OwnedStep ==
    TypeOK /\ ConnectionOwned /\ [Next]_vars => ConnectionOwned'
<1> SUFFICES ASSUME TypeOK, ConnectionOwned, [Next]_vars PROVE ConnectionOwned'
  OBVIOUS
<1>1. ASSUME NEW new \in SUBSET Fresh, NEW parent \in {"caller", "background"},
            Registers(new, parent)
     PROVE  ConnectionOwned'
  BY <1>1 DEF TypeOK, ConnectionOwned, Fresh, Up, Registers, register, wgAdd,
     clientVars
<1>2. ASSUME NEW a \in Address, RemovePeer(a) PROVE ConnectionOwned'
  <2>1. UNCHANGED <<loop, conn, attached, status>>
    BY <1>2, RemovePeerBegins DEF Begins
  <2> QED
    BY <2>1 DEF ConnectionOwned
<1>3. CASE StopSweeps
  BY <1>3 DEF TypeOK, ConnectionOwned, Fresh, Up, StopSweeps, cancel, disconnect,
     clientVars, loopVars
<1>4. ASSUME NEW mp \in ManagedPeer, LoopQuits(mp) PROVE ConnectionOwned'
  BY <1>4 DEF TypeOK, ConnectionOwned, Fresh, Up, LoopQuits, return, goto,
     clientVars, loopVars
<1>5. ASSUME NEW mp \in ManagedPeer, LoopDials(mp) PROVE ConnectionOwned'
  BY <1>5 DEF TypeOK, ConnectionOwned, Fresh, Up, LoopDials, goto, setStatus,
     clientVars, loopVars
<1>6. ASSUME NEW mp \in ManagedPeer, DialSucceeds(mp) PROVE ConnectionOwned'
  BY <1>6 DEF TypeOK, ConnectionOwned, Fresh, Up, DialSucceeds, goto, clientVars,
     loopVars
<1>7. ASSUME NEW mp \in ManagedPeer, DialAttaches(mp) PROVE ConnectionOwned'
  BY <1>7 DEF TypeOK, ConnectionOwned, Fresh, Up, DialAttaches, goto, clientVars,
     loopVars
<1>8. ASSUME NEW mp \in ManagedPeer, DialFails(mp) PROVE ConnectionOwned'
  BY <1>8 DEF TypeOK, ConnectionOwned, Fresh, Up, DialFails, goto, setStatus,
     clientVars, loopVars
<1>9. ASSUME NEW mp \in ManagedPeer, EvictPeer(mp) PROVE ConnectionOwned'
  <2>1. Begins /\ loop[mp] = "evict" /\ loop' = [loop EXCEPT ![mp] = "evicting"]
    BY <1>9, EvictBegins DEF goto
  <2> QED
    BY <2>1 DEF TypeOK, ConnectionOwned, Begins
<1>10. ASSUME NEW mp \in ManagedPeer, LoopConnects(mp) PROVE ConnectionOwned'
  BY <1>10 DEF TypeOK, ConnectionOwned, Fresh, Up, LoopConnects, goto, setStatus,
     clientVars, loopVars
<1>11. ASSUME NEW mp \in ManagedPeer, LoopDisconnects(mp) PROVE ConnectionOwned'
  BY <1>11 DEF TypeOK, ConnectionOwned, Fresh, Up, LoopDisconnects, goto,
     setStatus, clearPeer, tellDisconnected, clientVars, loopVars
<1>12. ASSUME NEW mp \in ManagedPeer, WaitElapses(mp) PROVE ConnectionOwned'
  BY <1>12 DEF TypeOK, ConnectionOwned, Fresh, Up, WaitElapses, goto, clientVars,
     loopVars
<1>13. ASSUME NEW mp \in ManagedPeer, WaitCancelled(mp) PROVE ConnectionOwned'
  BY <1>13 DEF TypeOK, ConnectionOwned, Fresh, Up, WaitCancelled, return, goto,
     clientVars, loopVars
<1>14. CASE RunHealthChecks
  <2>1. UNCHANGED <<loop, conn, attached, status>>
    BY <1>14, HealthCheckBegins DEF Begins
  <2> QED
    BY <2>1 DEF ConnectionOwned
<1>15. ASSUME NEW mp \in ManagedPeer, Negotiated(mp) PROVE ConnectionOwned'
  BY <1>15 DEF TypeOK, ConnectionOwned, Fresh, Up, Negotiated, clientVars, loopVars
<1>16. ASSUME NEW mp \in ManagedPeer, ConnectionLost(mp) PROVE ConnectionOwned'
  BY <1>16 DEF TypeOK, ConnectionOwned, Fresh, Up, ConnectionLost, clientVars,
     loopVars
<1>17. CASE UNCHANGED <<loop, conn, attached, status>>
  BY <1>17 DEF ConnectionOwned, Fresh, Up
<1>18. ASSUME NEW mp \in ManagedPeer, RemovalDisconnects(mp) PROVE ConnectionOwned'
  BY <1>18 DEF TypeOK, ConnectionOwned, Up, RemovalDisconnects, disconnect,
     clientVars, loopVars
<1>19. ASSUME NEW mp \in ManagedPeer, EvictFindsNone(mp) PROVE ConnectionOwned'
  BY <1>19 DEF TypeOK, ConnectionOwned, Up, EvictFindsNone, return, goto, Exists,
     clientVars, loopVars
<1>20. ASSUME NEW mp \in ManagedPeer, EvictReturns(mp) PROVE ConnectionOwned'
  BY <1>20 DEF TypeOK, ConnectionOwned, Up, EvictReturns, deleteEntry,
     tellDisconnected, return, goto, clientVars, loopVars
<1> QED
  BY AddsFresh, <1>1, <1>2, <1>3, <1>4, <1>5, <1>6, <1>7, <1>8, <1>9, <1>10, <1>11,
     <1>12, <1>13, <1>14, <1>15, <1>16, <1>17,
     <1>18, <1>19, <1>20
     DEF Next, ClientStep, LoopStep, HealthStep, RemovalStep, RemoteStep, vars,
     clientVars, loopVars, Start, StopCloses, StopSucceeds, StopTimesOut,
     WaitReleased, WaitReturns, HealthLoopReturns, AddrArrives, ContextDone,
     RemovePeerReturns, HealthCheckGoesOn, HealthCheckRemoves, deleteEntry,
     tellDisconnected, cancel

LEMMA ListenersStep ==
    TypeOK /\ ListenersNotMisled /\ [Next]_vars => ListenersNotMisled'
<1> SUFFICES ASSUME TypeOK, ListenersNotMisled, [Next]_vars PROVE ListenersNotMisled'
  OBVIOUS
<1>1. ASSUME NEW new \in SUBSET Fresh, NEW parent \in {"caller", "background"},
            Registers(new, parent)
     PROVE  ListenersNotMisled'
  BY <1>1 DEF TypeOK, ListenersNotMisled, Fresh, entryFor, Registers, register,
     wgAdd, clientVars
<1>2. ASSUME NEW a \in Address, RemovePeer(a) PROVE ListenersNotMisled'
  BY <1>2, RemovePeerBegins DEF TypeOK, ListenersNotMisled, Begins
<1>3. ASSUME NEW mp \in ManagedPeer, LoopQuits(mp) PROVE ListenersNotMisled'
  BY <1>3 DEF TypeOK, ListenersNotMisled, Fresh, entryFor, LoopQuits, return, goto,
     clientVars, loopVars
<1>4. ASSUME NEW mp \in ManagedPeer, LoopDials(mp) PROVE ListenersNotMisled'
  BY <1>4 DEF TypeOK, ListenersNotMisled, Fresh, entryFor, LoopDials, goto,
     setStatus, clientVars, loopVars
<1>5. ASSUME NEW mp \in ManagedPeer, DialSucceeds(mp) PROVE ListenersNotMisled'
  BY <1>5 DEF TypeOK, ListenersNotMisled, Fresh, entryFor, DialSucceeds, goto,
     clientVars, loopVars
<1>6. ASSUME NEW mp \in ManagedPeer, DialAttaches(mp) PROVE ListenersNotMisled'
  BY <1>6 DEF TypeOK, ListenersNotMisled, Fresh, entryFor, DialAttaches, goto,
     clientVars, loopVars
<1>7. ASSUME NEW mp \in ManagedPeer, DialFails(mp) PROVE ListenersNotMisled'
  BY <1>7 DEF TypeOK, ListenersNotMisled, Fresh, entryFor, DialFails, goto,
     setStatus, clientVars, loopVars
<1>8. ASSUME NEW mp \in ManagedPeer, EvictPeer(mp) PROVE ListenersNotMisled'
  <2>1. Begins /\ loop[mp] = "evict" /\ loop' = [loop EXCEPT ![mp] = "evicting"]
    BY <1>8, EvictBegins DEF goto
  <2> QED
    BY <2>1 DEF TypeOK, ListenersNotMisled, Begins
<1>9. ASSUME NEW mp \in ManagedPeer, LoopConnects(mp) PROVE ListenersNotMisled'
  BY <1>9 DEF TypeOK, ListenersNotMisled, Fresh, entryFor, LoopConnects, goto,
     setStatus, clientVars, loopVars
<1>10. ASSUME NEW mp \in ManagedPeer, LoopDisconnects(mp) PROVE ListenersNotMisled'
  BY <1>10 DEF TypeOK, ListenersNotMisled, Fresh, entryFor, LoopDisconnects, goto,
     setStatus, clearPeer, tellDisconnected, clientVars, loopVars
<1>11. ASSUME NEW mp \in ManagedPeer, WaitElapses(mp) PROVE ListenersNotMisled'
  BY <1>11 DEF TypeOK, ListenersNotMisled, Fresh, entryFor, WaitElapses, goto,
     clientVars, loopVars
<1>12. ASSUME NEW mp \in ManagedPeer, WaitCancelled(mp) PROVE ListenersNotMisled'
  BY <1>12 DEF TypeOK, ListenersNotMisled, Fresh, entryFor, WaitCancelled, return,
     goto, clientVars, loopVars
<1>13. CASE RunHealthChecks
  BY <1>13, HealthCheckBegins DEF TypeOK, ListenersNotMisled, Begins
<1>14. CASE UNCHANGED <<peers, loop, told>>
  BY <1>14 DEF ListenersNotMisled, Fresh, entryFor
<1>15. ASSUME NEW mp \in ManagedPeer, RemovePeerReturns(mp) PROVE ListenersNotMisled'
  BY <1>15 DEF TypeOK, ListenersNotMisled, entryFor, RemovePeerReturns, deleteEntry,
     tellDisconnected, clientVars, loopVars
<1>16. ASSUME NEW mp \in ManagedPeer, HealthCheckRemoves(mp) PROVE ListenersNotMisled'
  BY <1>16 DEF TypeOK, ListenersNotMisled, entryFor, HealthCheckRemoves, deleteEntry,
     tellDisconnected, clientVars, loopVars
<1>17. ASSUME NEW mp \in ManagedPeer, EvictFindsNone(mp) PROVE ListenersNotMisled'
  BY <1>17 DEF TypeOK, ListenersNotMisled, entryFor, EvictFindsNone, return, goto,
     Exists, clientVars, loopVars
<1>18. ASSUME NEW mp \in ManagedPeer, EvictReturns(mp) PROVE ListenersNotMisled'
  <2>1. PICK victim \in ManagedPeer : deleteEntry(victim)
    BY <1>18 DEF EvictReturns
  <2>2. /\ peers' = peers \ {victim}
        /\ told' = [m \in ManagedPeer |-> IF m \in {victim} THEN "disconnected" ELSE told[m]]
    BY <2>1 DEF deleteEntry, tellDisconnected
  <2>3. loop[mp] = "evicting" /\ loop' = [loop EXCEPT ![mp] = "exited"]
    BY <1>18 DEF EvictReturns, return, goto
  <2> QED
    BY <2>2, <2>3 DEF TypeOK, ListenersNotMisled
<1> QED
  BY AddsFresh, <1>1, <1>2, <1>3, <1>4, <1>5, <1>6, <1>7, <1>8, <1>9, <1>10, <1>11,
     <1>12, <1>13, <1>14,
     <1>15, <1>16, <1>17, <1>18
     DEF Next, ClientStep, LoopStep, HealthStep, RemovalStep, RemoteStep, vars,
     clientVars, loopVars, Start, StopCloses, StopSweeps, StopSucceeds, StopTimesOut,
     WaitReleased, WaitReturns, HealthLoopReturns, AddrArrives, ContextDone,
     Negotiated, ConnectionLost, cancel, disconnect, RemovalDisconnects,
     HealthCheckGoesOn, disconnect, cancel

LEMMA SweepStep ==
    TypeOK /\ StopProtocol /\ NoRunawayLoop /\ SweepReachesAll /\ [Next]_vars => SweepReachesAll'
<1> SUFFICES ASSUME TypeOK, StopProtocol, NoRunawayLoop, SweepReachesAll,
[Next]_vars PROVE SweepReachesAll'
  OBVIOUS
<1>1. ASSUME NEW new \in SUBSET Fresh, NEW parent \in {"caller", "background"},
            Registers(new, parent)
     PROVE  SweepReachesAll'
  BY <1>1 DEF TypeOK, SweepReachesAll, NoRunawayLoop, StopProtocol, Stopping, Live,
     Running, Fresh, entryFor, Registers, register, wgAdd, clientVars
<1>2. ASSUME NEW a \in Address, RemovePeer(a) PROVE SweepReachesAll'
  BY <1>2, RemovePeerBegins DEF TypeOK, SweepReachesAll, Live, Running, Begins,
     Cancels, clientVars
<1>3. ASSUME NEW mp \in ManagedPeer, ContextDone(mp) PROVE SweepReachesAll'
  BY <1>3 DEF TypeOK, SweepReachesAll, NoRunawayLoop, StopProtocol, Stopping, Live,
     Running, Fresh, entryFor, ContextDone, clientVars, loopVars
<1>4. CASE StopSweeps
  BY <1>4 DEF TypeOK, SweepReachesAll, NoRunawayLoop, StopProtocol, Stopping, Live,
     Running, Fresh, entryFor, StopSweeps, cancel, disconnect, clientVars, loopVars
<1>5. CASE WaitReleased
  BY <1>5 DEF TypeOK, SweepReachesAll, NoRunawayLoop, StopProtocol, Stopping, Live,
     Running, Fresh, entryFor, WaitReleased, clientVars, loopVars
<1>6. CASE WaitReturns
  BY <1>6 DEF TypeOK, SweepReachesAll, NoRunawayLoop, StopProtocol, Stopping, Live,
     Running, Fresh, entryFor, WaitReturns, clientVars, loopVars
<1>7. ASSUME NEW mp \in ManagedPeer, LoopQuits(mp) PROVE SweepReachesAll'
  BY <1>7 DEF TypeOK, SweepReachesAll, NoRunawayLoop, StopProtocol, Stopping, Live,
     Running, Fresh, entryFor, LoopQuits, return, goto, clientVars, loopVars
<1>8. ASSUME NEW mp \in ManagedPeer, LoopDials(mp) PROVE SweepReachesAll'
  BY <1>8 DEF TypeOK, SweepReachesAll, NoRunawayLoop, StopProtocol, Stopping, Live,
     Running, Fresh, entryFor, LoopDials, goto, setStatus, clientVars, loopVars
<1>9. ASSUME NEW mp \in ManagedPeer, DialSucceeds(mp) PROVE SweepReachesAll'
  BY <1>9 DEF TypeOK, SweepReachesAll, NoRunawayLoop, StopProtocol, Stopping, Live,
     Running, Fresh, entryFor, DialSucceeds, goto, clientVars, loopVars
<1>10. ASSUME NEW mp \in ManagedPeer, DialAttaches(mp) PROVE SweepReachesAll'
  BY <1>10 DEF TypeOK, SweepReachesAll, NoRunawayLoop, StopProtocol, Stopping,
     Live, Running, Fresh, entryFor, DialAttaches, goto, clientVars, loopVars
<1>11. ASSUME NEW mp \in ManagedPeer, DialFails(mp) PROVE SweepReachesAll'
  BY <1>11 DEF TypeOK, SweepReachesAll, NoRunawayLoop, StopProtocol, Stopping,
     Live, Running, Fresh, entryFor, DialFails, goto, setStatus, clientVars, loopVars
<1>12. ASSUME NEW mp \in ManagedPeer, EvictPeer(mp) PROVE SweepReachesAll'
  <2>1. Begins /\ loop[mp] = "evict" /\ loop' = [loop EXCEPT ![mp] = "evicting"]
    BY <1>12, EvictBegins DEF goto
  <2>2. Live' = Live /\ waiter' = waiter
    BY <2>1 DEF TypeOK, Live, Running, Begins, clientVars
  <2>3. \A m \in ManagedPeer : ctx[m] = "done" => ctx'[m] = "done"
    BY <2>1 DEF Begins, Cancels
  <2>4. loop[mp] # "top" /\ mp \in Live
    BY <2>1 DEF Live, Running
  <2>5. \A m \in ManagedPeer \ {mp} : loop'[m] = loop[m]
    BY <2>1 DEF TypeOK
  <2> QED
    BY <2>2, <2>3, <2>4, <2>5 DEF SweepReachesAll, Live
<1>13. ASSUME NEW mp \in ManagedPeer, LoopConnects(mp) PROVE SweepReachesAll'
  BY <1>13 DEF TypeOK, SweepReachesAll, NoRunawayLoop, StopProtocol, Stopping,
     Live, Running, Fresh, entryFor, LoopConnects, goto, setStatus, clientVars,
     loopVars
<1>14. ASSUME NEW mp \in ManagedPeer, LoopDisconnects(mp) PROVE SweepReachesAll'
  BY <1>14 DEF TypeOK, SweepReachesAll, NoRunawayLoop, StopProtocol, Stopping,
     Live, Running, Fresh, entryFor, LoopDisconnects, goto, setStatus, clearPeer,
     tellDisconnected, clientVars, loopVars
<1>15. ASSUME NEW mp \in ManagedPeer, WaitElapses(mp) PROVE SweepReachesAll'
  BY <1>15 DEF TypeOK, SweepReachesAll, NoRunawayLoop, StopProtocol, Stopping,
     Live, Running, Fresh, entryFor, WaitElapses, goto, clientVars, loopVars
<1>16. ASSUME NEW mp \in ManagedPeer, WaitCancelled(mp) PROVE SweepReachesAll'
  BY <1>16 DEF TypeOK, SweepReachesAll, NoRunawayLoop, StopProtocol, Stopping,
     Live, Running, Fresh, entryFor, WaitCancelled, return, goto, clientVars, loopVars
<1>17. CASE RunHealthChecks
  BY <1>17, HealthCheckBegins DEF TypeOK, SweepReachesAll, Live, Running, Begins,
     Cancels, clientVars
<1>18. CASE UNCHANGED <<loop, ctx, waiter>>
  BY <1>18 DEF SweepReachesAll, Live
<1>19. ASSUME NEW mp \in ManagedPeer, HealthCheckGoesOn(mp) PROVE SweepReachesAll'
  BY <1>19 DEF TypeOK, SweepReachesAll, NoRunawayLoop, StopProtocol, Live, Running,
     HealthCheckGoesOn, cancel, clientVars, loopVars
<1>20. ASSUME NEW mp \in ManagedPeer, EvictFindsNone(mp) PROVE SweepReachesAll'
  BY <1>20 DEF TypeOK, SweepReachesAll, NoRunawayLoop, StopProtocol, Live, Running,
     EvictFindsNone, return, goto, Exists, clientVars, loopVars
<1>21. ASSUME NEW mp \in ManagedPeer, EvictReturns(mp) PROVE SweepReachesAll'
  BY <1>21 DEF TypeOK, SweepReachesAll, NoRunawayLoop, StopProtocol, Live, Running,
     EvictReturns, deleteEntry, tellDisconnected, return, goto, clientVars, loopVars
<1> QED
  BY AddsFresh, <1>1, <1>2, <1>3, <1>4, <1>5, <1>6, <1>7, <1>8, <1>9, <1>10, <1>11,
     <1>12, <1>13, <1>14, <1>15, <1>16, <1>17, <1>18,
     <1>19, <1>20, <1>21
     DEF Next, ClientStep, LoopStep, HealthStep, RemovalStep, RemoteStep, vars,
     clientVars, loopVars, Start, StopCloses, StopSucceeds, StopTimesOut,
     HealthLoopReturns, AddrArrives, Negotiated, ConnectionLost, RemovalDisconnects,
     RemovePeerReturns, HealthCheckRemoves, disconnect, deleteEntry, tellDisconnected

LEMMA GracefulStep ==
    Counters /\ GracefulStopIsFinal /\ [Next]_vars => GracefulStopIsFinal'
<1> SUFFICES ASSUME Counters, GracefulStopIsFinal,
[Next]_vars PROVE GracefulStopIsFinal'
  OBVIOUS
<1>1. ASSUME NEW new \in SUBSET Fresh, NEW parent \in {"caller", "background"},
            Registers(new, parent)
     PROVE  GracefulStopIsFinal'
  BY <1>1 DEF TypeOK, Counters, GracefulStopIsFinal, StopProtocol, Stopping, Live,
     Running, Fresh, Registers, register, wgAdd, clientVars
<1>2. CASE StopSweeps
  BY <1>2 DEF TypeOK, Counters, GracefulStopIsFinal, StopProtocol, Stopping, Live,
     Running, Fresh, StopSweeps, cancel, disconnect, clientVars, loopVars
<1>3. CASE WaitReleased
  <2>1. Cardinality(Live) = 0
    BY <1>3, LiveIsFinite DEF WaitReleased, Counters, GoroutinesCounted
  <2>2. Live = {}
    BY <2>1, LiveIsFinite, FS_EmptySet
  <2>3. \A mp \in ManagedPeer : loop[mp] \in {"none", "exited"}
    <3>1. \A mp \in ManagedPeer : loop[mp] \notin Running
      BY <2>2 DEF Live
    <3>2. \A mp \in ManagedPeer : loop[mp] \in LoopPoint
      BY DEF Counters, TypeOK
    <3> QED
      BY <3>1, <3>2 DEF Running, LoopPoint
  <2>4. loop' = loop
    BY <1>3 DEF WaitReleased, loopVars
  <2> QED
    BY <2>3, <2>4 DEF GracefulStopIsFinal
<1>4. CASE WaitReturns
  BY <1>4 DEF TypeOK, Counters, GracefulStopIsFinal, StopProtocol, Stopping, Live,
     Running, Fresh, WaitReturns, clientVars, loopVars
<1>5. ASSUME NEW mp \in ManagedPeer, LoopQuits(mp) PROVE GracefulStopIsFinal'
  BY <1>5 DEF TypeOK, Counters, GracefulStopIsFinal, StopProtocol, Stopping, Live,
     Running, Fresh, LoopQuits, return, goto, clientVars, loopVars
<1>6. ASSUME NEW mp \in ManagedPeer, LoopDials(mp) PROVE GracefulStopIsFinal'
  BY <1>6 DEF TypeOK, Counters, GracefulStopIsFinal, StopProtocol, Stopping, Live,
     Running, Fresh, LoopDials, goto, setStatus, clientVars, loopVars
<1>7. ASSUME NEW mp \in ManagedPeer, DialSucceeds(mp) PROVE GracefulStopIsFinal'
  BY <1>7 DEF TypeOK, Counters, GracefulStopIsFinal, StopProtocol, Stopping, Live,
     Running, Fresh, DialSucceeds, goto, clientVars, loopVars
<1>8. ASSUME NEW mp \in ManagedPeer, DialAttaches(mp) PROVE GracefulStopIsFinal'
  BY <1>8 DEF TypeOK, Counters, GracefulStopIsFinal, StopProtocol, Stopping, Live,
     Running, Fresh, DialAttaches, goto, clientVars, loopVars
<1>9. ASSUME NEW mp \in ManagedPeer, DialFails(mp) PROVE GracefulStopIsFinal'
  BY <1>9 DEF TypeOK, Counters, GracefulStopIsFinal, StopProtocol, Stopping, Live,
     Running, Fresh, DialFails, goto, setStatus, clientVars, loopVars
<1>10. ASSUME NEW mp \in ManagedPeer, EvictPeer(mp) PROVE GracefulStopIsFinal'
  BY <1>10, EvictBegins DEF Counters, TypeOK, GracefulStopIsFinal, Begins, Cancels,
     goto, clientVars
<1>11. ASSUME NEW mp \in ManagedPeer, LoopConnects(mp) PROVE GracefulStopIsFinal'
  BY <1>11 DEF TypeOK, Counters, GracefulStopIsFinal, StopProtocol, Stopping, Live,
     Running, Fresh, LoopConnects, goto, setStatus, clientVars, loopVars
<1>12. ASSUME NEW mp \in ManagedPeer, LoopDisconnects(mp) PROVE GracefulStopIsFinal'
  BY <1>12 DEF TypeOK, Counters, GracefulStopIsFinal, StopProtocol, Stopping, Live,
     Running, Fresh, LoopDisconnects, goto, setStatus, clearPeer, tellDisconnected,
     clientVars, loopVars
<1>13. ASSUME NEW mp \in ManagedPeer, WaitElapses(mp) PROVE GracefulStopIsFinal'
  BY <1>13 DEF TypeOK, Counters, GracefulStopIsFinal, StopProtocol, Stopping, Live,
     Running, Fresh, WaitElapses, goto, clientVars, loopVars
<1>14. ASSUME NEW mp \in ManagedPeer, WaitCancelled(mp) PROVE GracefulStopIsFinal'
  BY <1>14 DEF TypeOK, Counters, GracefulStopIsFinal, StopProtocol, Stopping, Live,
     Running, Fresh, WaitCancelled, return, goto, clientVars, loopVars
<1>15. CASE UNCHANGED <<loop, waiter>>
  BY <1>15 DEF GracefulStopIsFinal
<1>16. ASSUME NEW mp \in ManagedPeer, EvictFindsNone(mp) PROVE GracefulStopIsFinal'
  BY <1>16 DEF TypeOK, Counters, GracefulStopIsFinal, Running, EvictFindsNone, return,
     goto, Exists, clientVars, loopVars
<1>17. ASSUME NEW mp \in ManagedPeer, EvictReturns(mp) PROVE GracefulStopIsFinal'
  BY <1>17 DEF TypeOK, Counters, GracefulStopIsFinal, Running, EvictReturns,
     deleteEntry, tellDisconnected, return, goto, clientVars, loopVars
<1> QED
  BY AddsFresh, <1>1, <1>2, <1>3, <1>4, <1>5, <1>6, <1>7, <1>8, <1>9, <1>10, <1>11,
     <1>12, <1>13, <1>14, <1>15,
     <1>16, <1>17
     DEF Next, ClientStep, LoopStep, HealthStep, RemovalStep, RemoteStep, vars,
     clientVars, loopVars, Start, StopCloses, StopSucceeds, StopTimesOut,
     RunHealthChecks, HealthLoopReturns, RemovePeer, AddrArrives, ContextDone,
     Negotiated, ConnectionLost, cancel, disconnect, RemovalDisconnects,
     RemovePeerReturns, HealthCheckGoesOn, HealthCheckRemoves, disconnect,
     deleteEntry, tellDisconnected, cancel

-----------------------------------------------------------------------------
(* The theorems. *)

LEMMA CapacityStep == TypeOK /\ MaxPeersRespected /\ [Next]_vars => MaxPeersRespected'
<1> SUFFICES ASSUME TypeOK, MaxPeersRespected, [Next]_vars PROVE MaxPeersRespected'
  OBVIOUS
<1>1. IsFiniteSet(peers) /\ Cardinality(peers) \in Nat /\ MaxPeers \in Nat
  BY ConfigAssumption, FS_Subset, FS_CardinalityType DEF TypeOK
<1>2. ASSUME NEW new \in SUBSET Fresh, NEW parent \in {"caller", "background"},
             Registers(new, parent)
      PROVE  MaxPeersRespected'
  <2>1. CASE new = {}
    BY <1>2, <2>1 DEF Registers, register, wgAdd, MaxPeersRespected
  <2>2. CASE new # {}
    <3>1. Cardinality(peers) + Cardinality(new) <= MaxPeers
      BY <1>2, <2>2 DEF Registers, Fits
    <3>2. IsFiniteSet(new) /\ Cardinality(new) \in Nat
      BY ConfigAssumption, FS_Subset, FS_CardinalityType DEF Fresh
    <3>3. peers \cap new = {}
      BY <1>2 DEF Registers, Exists
    <3>4. Cardinality(peers \cup new) = Cardinality(peers) + Cardinality(new)
      <4>1. Cardinality(peers \cup new)
              = Cardinality(peers) + Cardinality(new) - Cardinality(peers \cap new)
        BY <1>1, <3>2, FS_Union
      <4>2. Cardinality(peers \cap new) = 0
        BY <3>3, FS_EmptySet
      <4> QED
        BY <1>1, <3>2, <4>1, <4>2
    <3> QED
      BY <1>2, <3>1, <3>4 DEF Registers, register, wgAdd, MaxPeersRespected
  <2> QED
    BY <2>1, <2>2
<1>3. CASE peers' \subseteq peers
  <2>1. Cardinality(peers') \in Nat /\ Cardinality(peers') <= Cardinality(peers)
    BY <1>1, <1>3, FS_Subset, FS_CardinalityType
  <2> QED
    BY <1>1, <2>1 DEF MaxPeersRespected
<1> QED
  BY AddsFresh, <1>2, <1>3 DEF Next, ClientStep, LoopStep, HealthStep, RemovalStep,
     RemoteStep, vars, RemovalDisconnects, RemovePeerReturns, HealthCheckGoesOn,
     HealthCheckRemoves, EvictFindsNone, EvictReturns, deleteEntry, Start, RemovePeer,
     ContextDone, StopCloses, StopSweeps, StopSucceeds, StopTimesOut, WaitReleased,
     WaitReturns, LoopQuits, LoopDials, DialSucceeds, DialAttaches, DialFails,
     EvictPeer, LoopConnects, LoopDisconnects, WaitElapses, WaitCancelled,
     RunHealthChecks, HealthLoopReturns, Negotiated, ConnectionLost, AddrArrives

\* Whatever the order in which AddPeer, addDiscoveredPeers, RemovePeer, evictions
\* and health checks take peersMu, the registry never holds more than MaxPeers.
THEOREM Capacity == Spec => []MaxPeersRespected
<1>1. Init => MaxPeersRespected
  BY ConfigAssumption, FS_EmptySet DEF Init, MaxPeersRespected
<1> QED
  BY <1>1, CapacityStep, TypeCorrect, PTL DEF Spec

\* pm.wg counts exactly the goroutines that run, so Stop waits for all of them.
THEOREM AllCounted == Spec => []GoroutinesCounted
<1>1. Spec => []Counters
  BY CountersInit, CountersStep, PTL DEF Spec
<1> QED
  BY <1>1, PTL DEF Counters

\* Every registered peer has its loop until it is cancelled or the client is done.
THEOREM Served == Spec => []RegisteredIsServed
<1>1. Init => RegisteredIsServed
  BY DEF Init, RegisteredIsServed
<1> QED
  BY <1>1, ServedStep, TypeCorrect, RemovalInOrder, PTL DEF Spec

\* Every loop outside the registry has been cancelled.
THEOREM NoRunaway == Spec => []NoRunawayLoop
<1>1. Init => NoRunawayLoop
  BY DEF Init, NoRunawayLoop, Live, Running
<1> QED
  BY <1>1, NoRunawayStep, TypeCorrect, RemovalInOrder, PTL DEF Spec

\* Every btcd peer has the loop that waits for it, which never dereferences a
\* nil mp.peer.
THEOREM Owned == Spec => []ConnectionOwned
<1>1. Init => ConnectionOwned
  BY DEF Init, ConnectionOwned
<1> QED
  BY <1>1, OwnedStep, TypeCorrect, PTL DEF Spec

\* The listeners' last word on a peer agrees with its loop.
THEOREM Announced == Spec => []ListenersNotMisled
<1>1. Init => ListenersNotMisled
  BY DEF Init, ListenersNotMisled
<1> QED
  BY <1>1, ListenersStep, TypeCorrect, PTL DEF Spec

\* No peer is at the failure threshold unless its own loop is evicting it.
THEOREM HealthChecksRemoveNoneAlive == Spec => []HealthChecksSpareTheLiving
<1>1. Spec => []Counters
  BY CountersInit, CountersStep, PTL DEF Spec
<1> QED
  BY <1>1, PTL DEF Counters

\* Stop's sweep misses no loop, whatever is registered before, during or after it.
THEOREM SweepComplete == Spec => []SweepReachesAll
<1>1. Init => SweepReachesAll
  BY DEF Init, SweepReachesAll
<1>2. Spec => []Counters
  BY CountersInit, CountersStep, PTL DEF Spec
<1>3. Counters => TypeOK /\ StopProtocol
  BY DEF Counters
<1> QED
  BY <1>1, <1>2, <1>3, SweepStep, NoRunaway, PTL DEF Spec

\* After a graceful Stop no peer is or will be dialed or connected.
THEOREM GracefulStop == Spec => []GracefulStopIsFinal
<1>1. Init => GracefulStopIsFinal
  BY DEF Init, GracefulStopIsFinal
<1>2. Spec => []Counters
  BY CountersInit, CountersStep, PTL DEF Spec
<1> QED
  BY <1>1, <1>2, GracefulStep, PTL DEF Spec

\* A peer that has left the registry is not connected again: the only step that
\* makes a connection needs a context that is not done, every loop outside the
\* registry has been cancelled, and removals and sweeps close what entries have.
THEOREM RemovedStaysDown == Spec => RemovedIsNotDialed
<1> DEFINE NotDialed ==
      \A mp \in ManagedPeer \ peers : conn[mp] = "none" => conn'[mp] = "none"
<1>1. TypeOK /\ Removing /\ NoRunawayLoop /\ [Next]_vars => [NotDialed]_vars
  <2> SUFFICES ASSUME TypeOK, Removing, NoRunawayLoop, Next PROVE NotDialed
    BY DEF vars
  <2>1. ASSUME NEW mp \in ManagedPeer, DialSucceeds(mp) PROVE NotDialed
    <3>1. mp \in Live /\ ctx[mp] # "done"
      BY <2>1 DEF DialSucceeds, Live, Running
    <3>2. mp \in peers
      BY <3>1 DEF NoRunawayLoop
    <3> QED
      BY <2>1, <3>2 DEF DialSucceeds, TypeOK
  <2>2. CASE StopSweeps
    BY <2>2 DEF StopSweeps, disconnect, TypeOK
  <2>3. ASSUME NEW mp \in ManagedPeer, RemovalDisconnects(mp) PROVE NotDialed
    <3>1. mp \in peers
      BY <2>3 DEF RemovalDisconnects, Removing
    <3> QED
      BY <2>3, <3>1 DEF RemovalDisconnects, disconnect, TypeOK
  <2>4. ASSUME NEW mp \in ManagedPeer,
               Negotiated(mp) \/ ConnectionLost(mp) \/ LoopDisconnects(mp)
        PROVE  NotDialed
    BY <2>4 DEF Negotiated, ConnectionLost, Up, LoopDisconnects, TypeOK
  <2>5. CASE UNCHANGED conn
    BY <2>5
  <2> QED
    BY <2>1, <2>2, <2>3, <2>4, <2>5, AddsFresh
     DEF Next, ClientStep, LoopStep, HealthStep, RemovalStep, RemoteStep, Registers,
     Start, RemovePeer, RemovePeerReturns, ContextDone, StopCloses, StopSucceeds,
     StopTimesOut, WaitReleased, WaitReturns, LoopQuits, LoopDials, DialAttaches,
     DialFails, EvictPeer, EvictFindsNone, EvictReturns, LoopConnects, WaitElapses,
     WaitCancelled, RunHealthChecks, HealthCheckGoesOn, HealthCheckRemoves,
     HealthLoopReturns, AddrArrives
<1> QED
  BY <1>1, TypeCorrect, RemovalInOrder, NoRunaway, PTL DEF Spec, RemovedIsNotDialed

-----------------------------------------------------------------------------
(* PeerManager implements BtcClient. *)

\* What a step needs to know of the state: Stop returns nil only when no peer is
\* up, and from then on none is announced.
Guarantees ==
    /\ TypeOK
    /\ Removing
    /\ StopProtocol
    /\ MaxPeersRespected
    /\ ListenersNotMisled
    /\ GracefulStopIsFinal

USE DEF Client!clientAlive, alive

-----------------------------------------------------------------------------
(* The registry. *)

\* There are no more addresses than entries.
LEMMA MembersBounded ==
    ASSUME NEW S, IsFiniteSet(S)
    PROVE  /\ IsFiniteSet({addressOf(mp) : mp \in S})
           /\ Cardinality({addressOf(mp) : mp \in S}) <= Cardinality(S)
<1> DEFINE T == {addressOf(mp) : mp \in S}
           f == [mp \in S |-> addressOf(mp)]
<1>1. f \in Surjection(S, T)
  BY DEF Surjection
<1> QED
  BY <1>1, FS_Surjection

\* The instance of BtcClient counts with the same Cardinality.
LEMMA SameCardinality == \A S : Client!Cardinality(S) = Cardinality(S)
BY DEF Client!Cardinality, Cardinality

LEMMA AddressesTyped ==
    ASSUME NEW S \in SUBSET ManagedPeer
    PROVE  {addressOf(mp) : mp \in S} \subseteq Address
BY ConfigAssumption DEF addressOf

\* AddPeer and AddDiscoveredPeers register new addresses, for which there is room.
LEMMA RegistersMaps ==
    ASSUME Guarantees, MaxPeersRespected', alive,
           NEW new \in SUBSET Fresh, NEW parent, Registers(new, parent)
    PROVE  \E S \in SUBSET Address : Client!Register(S)
<1> DEFINE S == {addressOf(mp) : mp \in new}
<1>1. new \subseteq ManagedPeer /\ peers \subseteq ManagedPeer
  BY DEF Fresh, Guarantees, TypeOK
<1>2. S \in SUBSET Address
  BY <1>1, AddressesTyped
<1>3. S \cap membersOf = {}
  BY DEF Registers, Exists, membersOf
<1>4. peers' = peers \cup new
  BY DEF Registers, register
<1>5. membersOf' = membersOf \cup S
  BY <1>4 DEF membersOf
<1>6. Cardinality(membersOf \cup S) <= MaxPeers
  <2>1. IsFiniteSet(peers') /\ Cardinality(peers') <= MaxPeers
    BY <1>1, <1>4, ConfigAssumption, FS_Subset DEF MaxPeersRespected
  <2>2. /\ IsFiniteSet(membersOf')
        /\ Cardinality(membersOf') <= Cardinality(peers')
    BY <2>1, MembersBounded DEF membersOf
  <2>3. Cardinality(membersOf') \in Nat /\ Cardinality(peers') \in Nat /\ MaxPeers \in Nat
    BY <2>1, <2>2, FS_CardinalityType, ConfigAssumption
  <2> QED
    BY <1>5, <2>1, <2>2, <2>3
<1>7. UNCHANGED <<upOf, started, phaseOf, panicked>>
  BY DEF Registers, clientVars, upOf, phaseOf
<1>8. Client!Register(S)
  BY <1>3, <1>5, <1>6, <1>7, SameCardinality DEF Client!Register, Client!HasRoom
<1> QED
  BY <1>2, <1>8

\* The last step of a removal takes an address, and its announcement, away.
LEMMA LeaveMaps ==
    ASSUME Guarantees, alive, NEW gone \in ManagedPeer, deleteEntry(gone),
           UNCHANGED <<started, stop, panicked>>
    PROVE  \E S \in SUBSET Address : Client!Leave(S)
<1> DEFINE S == {addressOf(gone)}
<1>1. peers \subseteq ManagedPeer /\ gone \in peers
  BY DEF Guarantees, TypeOK, Removing, deleteEntry
<1>2. S \in SUBSET Address /\ S \subseteq membersOf
  BY <1>1, ConfigAssumption DEF membersOf, addressOf
<1>3. peers' = peers \ {gone}
  BY DEF deleteEntry
<1>4. membersOf' = membersOf \ S
  <2>1. \A m \in peers : addressOf(m) = addressOf(gone) => m = gone
    BY <1>1 DEF Guarantees, TypeOK
  <2> QED
    BY <1>3, <2>1 DEF membersOf
<1>5. \E lost \in SUBSET S : upOf' = upOf \ lost
  <2>1. told' = [mp \in ManagedPeer |-> IF mp \in {gone} THEN "disconnected" ELSE told[mp]]
    BY DEF deleteEntry, tellDisconnected
  <2>2. {m \in ManagedPeer : told'[m] = "connected"}
          = {m \in ManagedPeer : told[m] = "connected"} \ {gone}
    BY <2>1, <1>1
  <2>3. upOf' = {addressOf(mp) : mp \in {m \in ManagedPeer : told[m] = "connected"} \ {gone}}
    BY <2>2 DEF upOf
  <2>4. upOf' \subseteq upOf /\ upOf \ upOf' \subseteq S
    BY <2>3 DEF upOf
  <2>5. upOf \ upOf' \in SUBSET S /\ upOf' = upOf \ (upOf \ upOf')
    BY <2>4
  <2> QED
    BY <2>5
<1>6. UNCHANGED <<started, phaseOf, panicked>>
  BY DEF phaseOf
<1>7. Client!Leave(S)
  BY <1>2, <1>4, <1>5, <1>6 DEF Client!Leave
<1> QED
  BY <1>2, <1>7

-----------------------------------------------------------------------------
(* Announcements. *)

LEMMA ConnectsMaps ==
    ASSUME Guarantees, NEW mp \in ManagedPeer, LoopConnects(mp)
    PROVE  Client!Announce(addressOf(mp)) /\ addressOf(mp) \in Address
<1>1. addressOf(mp) \in Address
  BY ConfigAssumption DEF addressOf
<1>2. phaseOf # "ok"
  BY DEF LoopConnects, Guarantees, GracefulStopIsFinal, StopProtocol, phaseOf
<1>3. {m \in ManagedPeer : told'[m] = "connected"}
        = {m \in ManagedPeer : told[m] = "connected"} \cup {mp}
  BY DEF LoopConnects, Guarantees, TypeOK
<1>4. upOf' = upOf \cup {addressOf(mp)}
  BY <1>3 DEF upOf
<1>5. UNCHANGED <<membersOf, started, phaseOf, panicked>> /\ alive
  BY DEF LoopConnects, clientVars, membersOf, phaseOf
<1> QED
  BY <1>1, <1>2, <1>4, <1>5 DEF Client!Announce

\* The announced peer may have an older object of its address up.
LEMMA DisconnectsMaps ==
    ASSUME Guarantees, NEW mp \in ManagedPeer, LoopDisconnects(mp)
    PROVE  \/ Client!Lose(addressOf(mp)) /\ addressOf(mp) \in Address
           \/ UNCHANGED Client!clientState
<1>1. addressOf(mp) \in Address
  BY ConfigAssumption DEF addressOf
<1>2. {m \in ManagedPeer : told'[m] = "connected"}
        = {m \in ManagedPeer : told[m] = "connected"} \ {mp}
  BY DEF LoopDisconnects, tellDisconnected, Guarantees, TypeOK
<1>3. upOf' = upOf \/ upOf' = upOf \ {addressOf(mp)}
  <2>1. upOf' = {addressOf(n) : n \in {m \in ManagedPeer : told[m] = "connected"} \ {mp}}
    BY <1>2 DEF upOf
  <2>2. upOf' \subseteq upOf /\ upOf \ upOf' \subseteq {addressOf(mp)}
    BY <2>1 DEF upOf
  <2> QED
    BY <2>2
<1>4. UNCHANGED <<membersOf, started, phaseOf, panicked>> /\ alive
  BY DEF LoopDisconnects, clientVars, membersOf, phaseOf
<1> QED
  BY <1>1, <1>3, <1>4 DEF Client!Lose, Client!clientState

-----------------------------------------------------------------------------
(* Start and Stop. *)

LEMMA StartMaps ==
    ASSUME Start
    PROVE  Client!ClientStart
BY DEF Start, Client!ClientStart, muFree, phaseOf, membersOf, upOf

LEMMA StopClosesMaps ==
    ASSUME Guarantees, StopCloses
    PROVE  Client!StopBegins
<1>1. phaseOf # "stopping" /\ (done <=> phaseOf # "idle")
  BY DEF StopCloses, muFree, phaseOf, Guarantees, StopProtocol
<1>2. UNCHANGED <<membersOf, upOf, started>>
  BY DEF StopCloses, membersOf, upOf
<1>3. IF phaseOf = "idle"
      THEN phaseOf' = "stopping" /\ UNCHANGED panicked
      ELSE panicked' = "close of closed channel" /\ UNCHANGED phaseOf
  BY <1>1 DEF StopCloses, phaseOf
<1> QED
  BY <1>1, <1>2, <1>3 DEF StopCloses, Client!StopBegins

LEMMA StopSucceedsMaps ==
    ASSUME Guarantees, StopSucceeds
    PROVE  Client!StopReturnsNil
<1>1. \A mp \in ManagedPeer : told[mp] # "connected"
  BY DEF StopSucceeds, Guarantees, GracefulStopIsFinal, ListenersNotMisled
<1>2. upOf = {}
  BY <1>1 DEF upOf
<1>3. phaseOf = "stopping" /\ phaseOf' = "ok"
  BY DEF StopSucceeds, phaseOf
<1> QED
  BY <1>2, <1>3 DEF StopSucceeds, Client!StopReturnsNil, membersOf, upOf

LEMMA StopTimesOutMaps ==
    ASSUME StopTimesOut
    PROVE  Client!StopReturnsTimeout
BY DEF StopTimesOut, Client!StopReturnsTimeout, phaseOf, membersOf, upOf

LEMMA WaitReturnsMaps ==
    ASSUME Guarantees, WaitReturns
    PROVE  Client!WaitPanics \/ UNCHANGED Client!clientState
<1>1. phaseOf \in {"stopping", "timeout"}
  <2>1. waiter = "released"
    BY DEF WaitReturns
  <2>2. stop \notin {"idle", "closed", "ok"}
    BY <2>1 DEF Guarantees, StopProtocol
  <2>3. stop \in {"idle", "closed", "swept", "ok", "timeout"}
    BY DEF Guarantees, TypeOK
  <2> QED
    BY <2>2, <2>3 DEF phaseOf
<1>2. UNCHANGED <<membersOf, upOf, started, phaseOf>>
  BY DEF WaitReturns, membersOf, upOf, phaseOf
<1> QED
  BY <1>1, <1>2 DEF WaitReturns, Client!WaitPanics, Client!clientState

-----------------------------------------------------------------------------
(* Every step is a step of the abstract client, or none. *)

LEMMA StepMaps ==
    Guarantees /\ MaxPeersRespected' /\ [Next]_vars
        => [Client!ClientNext]_(Client!clientState)
<1> SUFFICES ASSUME Guarantees, MaxPeersRespected', [Next]_vars
             PROVE  Client!ClientNext \/ UNCHANGED Client!clientState
  OBVIOUS
<1> USE DEF Client!ClientNext, Client!PeersChange
<1>1. CASE \/ \E a \in Address : AddPeer(a)
           \/ \E list \in AddrMsg : AddDiscoveredPeers(list)
  <2>1. PICK new \in SUBSET Fresh, parent \in {"caller", "background"} :
            Registers(new, parent)
    BY <1>1, AddsFresh
  <2>2. alive
    BY <1>1 DEF AddPeer, AddDiscoveredPeers
  <2> QED
    BY <2>1, <2>2, RegistersMaps
<1>2. ASSUME NEW gone \in ManagedPeer, deleteEntry(gone), alive,
             UNCHANGED <<started, stop, panicked>>
      PROVE  Client!ClientNext
  BY <1>2, LeaveMaps
<1>3. CASE \E mp \in ManagedPeer : RemovePeerReturns(mp) \/ HealthCheckRemoves(mp)
  BY <1>2, <1>3 DEF RemovePeerReturns, HealthCheckRemoves, clientVars
<1>4. CASE \E mp \in ManagedPeer : EvictReturns(mp)
  BY <1>2, <1>4 DEF EvictReturns, clientVars
<1>5. CASE \/ \E a \in Address : RemovePeer(a)
           \/ \E mp \in ManagedPeer : EvictPeer(mp) \/ EvictFindsNone(mp)
           \/ RunHealthChecks
           \/ \E mp \in ManagedPeer : RemovalDisconnects(mp) \/ HealthCheckGoesOn(mp)
  BY <1>5 DEF RemovePeer, EvictPeer, EvictFindsNone, RunHealthChecks,
     RemovalDisconnects, HealthCheckGoesOn, clientVars, Client!clientState,
     membersOf, upOf, phaseOf
<1>6. CASE \E mp \in ManagedPeer : LoopConnects(mp)
  BY <1>6, ConnectsMaps
<1>7. CASE \E mp \in ManagedPeer : LoopDisconnects(mp)
  BY <1>7, DisconnectsMaps
<1>8. CASE Start \/ StopCloses \/ StopSucceeds \/ StopTimesOut \/ WaitReturns
  BY <1>8, StartMaps, StopClosesMaps, StopSucceedsMaps, StopTimesOutMaps,
     WaitReturnsMaps
<1>9. CASE StopSweeps
  BY <1>9 DEF StopSweeps, Client!clientState, membersOf, upOf, phaseOf
<1>10. CASE UNCHANGED <<peers, told, started, stop, panicked>>
  BY <1>10 DEF Client!clientState, membersOf, upOf, phaseOf
<1> QED
  BY <1>1, <1>3, <1>4, <1>5, <1>6, <1>7, <1>8, <1>9, <1>10 DEF Next, ClientStep,
     LoopStep, HealthStep, RemovalStep, RemoteStep, vars, clientVars, ContextDone,
     WaitReleased, LoopQuits, LoopDials, DialSucceeds, DialAttaches, DialFails,
     WaitElapses, WaitCancelled, HealthLoopReturns, Negotiated, ConnectionLost,
     AddrArrives

LEMMA InitMaps == Init => Client!ClientInit
BY DEF Init, Client!ClientInit, membersOf, upOf, phaseOf

\* The peer manager keeps every promise of the abstract client: the capacity of
\* the registry, and that a Stop which returned nil is the end of all connections.
THEOREM Implementation == Spec => ImplementsBtcClient
<1>1. Spec => []Guarantees
  <2>1. Spec => []Counters
    BY CountersInit, CountersStep, PTL DEF Spec
  <2>2. Counters => TypeOK /\ StopProtocol
    BY DEF Counters
  <2> QED
    BY <2>1, <2>2, Capacity, Announced, GracefulStop, RemovalInOrder, PTL DEF Guarantees
<1>2. Guarantees => MaxPeersRespected
  BY DEF Guarantees
<1> QED
  BY <1>1, <1>2, StepMaps, InitMaps, PTL DEF Spec, ImplementsBtcClient,
     Client!ClientSpec

=============================================================================
