----------------------------- MODULE IndexerProofs -----------------------------
(***************************************************************************)
(* What Indexer promises for any number of callers and any configuration,  *)
(* with lists of peers of any length.                                      *)
(***************************************************************************)
EXTENDS Indexer, WellFoundedInduction, SequenceTheorems, FiniteSetTheorems, TLAPS

\* The types that the other invariants need.
Types ==
    /\ stopper \subseteq Caller
    /\ at \in [Caller -> Point]
    /\ result \in [Caller -> Results]

LEMMA TypesInit == Init => Types
BY DEF Init, Types, Point, Results

\* What a caller does to the place where it is and to its result.
LEMMA TypesStep == Types /\ [Next]_vars => Types'
<1>. SUFFICES ASSUME Types, [Next]_vars PROVE Types'
  OBVIOUS
<1>. USE DEF Types, Point, Results, call, goto, return, runVars
<1>1. ASSUME NEW c \in Caller, Start(c) PROVE Types'
  BY <1>1 DEF Start, start
<1>2. ASSUME NEW c \in Caller, Run(c) PROVE Types'
  BY <1>2 DEF Run, start
<1>3. ASSUME NEW c \in Caller, CallStop(c) PROVE Types'
  BY <1>3 DEF CallStop
<1>4. ASSUME NEW c \in Caller, ContextDone(c) PROVE Types'
  BY <1>4 DEF ContextDone
<1>5. ASSUME NEW c \in Caller, RunStep(c) PROVE Types'
  BY <1>5 DEF RunStep, ConnectPeer, Connected, RunWakes
<1>6. ASSUME NEW c \in Caller, StopStep(c) PROVE Types'
  BY <1>6 DEF StopStep, StopNotRunning, StopClient, Stopped, StopTimedOut, InStop
<1>7. CASE ClientPeers
  BY <1>7 DEF ClientPeers
<1>8. CASE UNCHANGED vars
  BY <1>8 DEF vars
<1>. QED  BY <1>1, <1>2, <1>3, <1>4, <1>5, <1>6, <1>7, <1>8 DEF Next

-----------------------------------------------------------------------------

\* Start and Stop keep the indexer and its client in agreement, and nothing else
\* touches running or started.
LEMMA AgreesStep == AgreesWithClient /\ [Next]_vars => AgreesWithClient'
<1>. SUFFICES ASSUME AgreesWithClient, [Next]_vars PROVE AgreesWithClient'
  OBVIOUS
<1>. USE DEF AgreesWithClient
<1>1. ASSUME start PROVE AgreesWithClient'
  BY <1>1 DEF start, ClientStart
<1>2. ASSUME NEW c \in Caller, StopClient(c) PROVE AgreesWithClient'
  BY <1>2 DEF StopClient, StopBegins
<1>3. ASSUME NEW c \in Caller, Stopped(c) PROVE AgreesWithClient'
  BY <1>3 DEF Stopped, StopReturnsNil, reset
<1>4. ASSUME NEW c \in Caller, StopTimedOut(c) PROVE AgreesWithClient'
  BY <1>4 DEF StopTimedOut, StopReturnsTimeout, reset
<1>5. ASSUME UNCHANGED <<running, started, phase>> PROVE AgreesWithClient'
  BY <1>5
<1>6. ASSUME NEW c \in Caller,
             CallStop(c) \/ ContextDone(c) \/ RunStep(c) \/ StopNotRunning(c)
      PROVE  UNCHANGED <<running, started, phase>>
  BY <1>6 DEF CallStop, ContextDone, RunStep, ConnectPeer, Connected, RunWakes,
              StopNotRunning, Register, clientState
<1>7. ASSUME ClientPeers PROVE UNCHANGED <<running, started, phase>>
  BY <1>7 DEF ClientPeers, PeersChange, Register, Leave, Announce, Lose, WaitPanics
<1>8. ASSUME UNCHANGED vars PROVE UNCHANGED <<running, started, phase>>
  BY <1>8 DEF vars, clientState
<1>. QED  BY <1>1, <1>2, <1>3, <1>4, <1>5, <1>6, <1>7, <1>8 DEF Next, Start, Run, StopStep

\* The indexer and its client agree on whether they run, except after a shutdown that
\* timed out, for any number of goroutines (indexer.go:200-240).
THEOREM Agreement == Spec => []AgreesWithClient
<1>1. Init => AgreesWithClient
  BY DEF Init, ClientInit, AgreesWithClient
<1>. QED  BY <1>1, AgreesStep, PTL DEF Spec

-----------------------------------------------------------------------------

\* The client is told to stop, and stopped, by the holder of idx.mu.
LEMMA SerialStep ==
    Types /\ StopsAreSerial /\ [Next]_vars => StopsAreSerial'
<1>. SUFFICES ASSUME Types, StopsAreSerial, [Next]_vars, clientAlive'
              PROVE  StopsAreSerial'
  BY DEF StopsAreSerial
<1>. USE DEF Types, StopsAreSerial, InStop, clientAlive
<1>0. clientAlive
  BY DEF Next, Start, Run, start, CallStop, call, ContextDone, RunStep, ConnectPeer, Connected,
         RunWakes, StopStep, StopNotRunning, StopClient, Stopped, StopTimedOut, ClientStart,
         StopBegins, StopReturnsNil, StopReturnsTimeout, ClientPeers, PeersChange, Register,
         Leave, Announce, Lose, WaitPanics, vars, clientState
<1>1. ASSUME NEW c \in Caller, Start(c) \/ Run(c) PROVE StopsAreSerial'
  BY <1>0, <1>1 DEF Start, Run, start, call, ClientStart
<1>2. ASSUME NEW c \in Caller, CallStop(c) \/ ContextDone(c) PROVE StopsAreSerial'
  BY <1>0, <1>2 DEF CallStop, ContextDone, call, goto, runVars, clientState
<1>3. ASSUME NEW c \in Caller, RunStep(c) PROVE StopsAreSerial'
  BY <1>0, <1>3 DEF RunStep, ConnectPeer, Connected, RunWakes, goto, Register, clientState
<1>4. ASSUME NEW c \in Caller, StopNotRunning(c) PROVE StopsAreSerial'
  BY <1>0, <1>4 DEF StopNotRunning, clientState
<1>5. ASSUME NEW c \in Caller, StopClient(c) PROVE StopsAreSerial'
  BY <1>0, <1>5 DEF StopClient, StopBegins, runVars
<1>6. ASSUME NEW c \in Caller, Stopped(c) \/ StopTimedOut(c) PROVE StopsAreSerial'
  BY <1>0, <1>6 DEF Stopped, StopTimedOut, StopReturnsNil, StopReturnsTimeout
<1>7. CASE ClientPeers
  BY <1>0, <1>7 DEF ClientPeers, PeersChange, Register, Leave, Announce, Lose, WaitPanics, runVars
<1>8. CASE UNCHANGED vars
  BY <1>0, <1>8 DEF vars, clientState, runVars
<1>. QED  BY <1>1, <1>2, <1>3, <1>4, <1>5, <1>6, <1>7, <1>8 DEF Next, StopStep

\* Only the holder of idx.mu stops the client, and it is a goroutine in Stop
\* (indexer.go:219-240).
THEOREM SerialStops == Spec => []StopsAreSerial
<1>1. Init => Types /\ StopsAreSerial
  BY TypesInit DEF Init, ClientInit, StopsAreSerial
<1>2. Types /\ StopsAreSerial /\ [Next]_vars => Types' /\ StopsAreSerial'
  BY TypesStep, SerialStep
<1>. QED  BY <1>1, <1>2, PTL DEF Spec

-----------------------------------------------------------------------------

\* Only Stopped returns nil; afterwards the phase is "ok" for good and no connection
\* is announced.
LEMMA NilStep ==
    Types /\ NilMeansDisconnected /\ [Next]_vars => NilMeansDisconnected'
<1>. SUFFICES ASSUME Types, NilMeansDisconnected, [Next]_vars
              PROVE  NilMeansDisconnected'
  OBVIOUS
<1>. USE DEF Types, NilMeansDisconnected
<1>1. ASSUME UNCHANGED <<up, phase, result>> PROVE NilMeansDisconnected'
  BY <1>1
<1>2. ASSUME NEW c \in Caller,
             Start(c) \/ Run(c) \/ CallStop(c) \/ ContextDone(c) \/ RunStep(c)
      PROVE  UNCHANGED <<up, phase, result>>
  BY <1>2 DEF Start, Run, start, ClientStart, CallStop, ContextDone, RunStep, ConnectPeer,
              Connected, RunWakes, Register, clientState, runVars
<1>3. ASSUME NEW c \in Caller, StopNotRunning(c) PROVE NilMeansDisconnected'
  BY <1>3 DEF StopNotRunning, return, clientState
<1>4. ASSUME NEW c \in Caller, StopClient(c) PROVE NilMeansDisconnected'
  BY <1>4 DEF StopClient, StopBegins, runVars
<1>5. ASSUME NEW c \in Caller, Stopped(c) PROVE NilMeansDisconnected'
  BY <1>5 DEF Stopped, StopReturnsNil
<1>6. ASSUME NEW c \in Caller, StopTimedOut(c) PROVE NilMeansDisconnected'
  BY <1>6 DEF StopTimedOut, StopReturnsTimeout, return
<1>7. CASE ClientPeers
  BY <1>7 DEF ClientPeers, PeersChange, Register, Leave, Announce, Lose, WaitPanics, runVars
<1>8. ASSUME UNCHANGED vars PROVE UNCHANGED <<up, phase, result>>
  BY <1>8 DEF vars, clientState, runVars
<1>. QED  BY <1>1, <1>2, <1>3, <1>4, <1>5, <1>6, <1>7, <1>8 DEF Next, StopStep

\* A Run or a Stop that returned nil leaves no connection, then and later
\* (indexer.go:219-240).
THEOREM NilIsFinal == Spec => []NilMeansDisconnected
<1>1. Init => Types /\ NilMeansDisconnected
  BY TypesInit DEF Init, NilMeansDisconnected
<1>2. Types /\ NilMeansDisconnected /\ [Next]_vars => Types' /\ NilMeansDisconnected'
  BY TypesStep, NilStep
<1>. QED  BY <1>1, <1>2, PTL DEF Spec

-----------------------------------------------------------------------------
(* What resolvePeers returns, for lists of any length. *)

\* Sets of natural numbers have a least element: induction for what follows.
LEMMA LeastNatural ==
    ASSUME NEW T, T \subseteq Nat, T # {}
    PROVE  \E x \in T : \A y \in T : x <= y
<1>. DEFINE R == OpToRel(<, Nat)
<1>1. IsWellFoundedOn(R, Nat)
  BY NatLessThanWellFounded
<1>2. R = {ss \in Nat \X Nat : ss[1] < ss[2]}
  BY DEF OpToRel
<1>. HIDE DEF R
<1>3. \E x \in T : \A y \in T : <<y, x>> \notin R
  BY <1>1, WFMin, Zenon
<1>4. \A x, y \in Nat : <<y, x>> \notin R => x <= y
  BY <1>2
<1>. QED  BY <1>3, <1>4

\* A set of numbers with 0 that has with n - 1 also n has all of them.
LEMMA UpTo ==
    ASSUME NEW L \in Nat, NEW G, 0 \in G,
           \A n \in 1..L : n - 1 \in G => n \in G
    PROVE  \A n \in 0..L : n \in G
<1>. DEFINE T == {n \in 0..L : n \notin G}
<1>. SUFFICES ASSUME T # {} PROVE FALSE
  OBVIOUS
<1>1. T \subseteq Nat
  OBVIOUS
<1>. HIDE DEF T
<1>2. PICK n \in T : \A m \in T : n <= m
  BY <1>1, LeastNatural
<1>3. n \in 0..L /\ n \notin G /\ n # 0
  BY DEF T
<1>4. n \in 1..L /\ n - 1 \in 0..L
  BY <1>3
<1>5. n - 1 \notin T
  BY <1>2, <1>4
<1>. QED  BY <1>3, <1>4, <1>5 DEF T

\* One step of the loop, the whole loop on a prefix of the list, and unseen.
addUnseen(seen, a) == IF Contains(seen, a) THEN seen ELSE Append(seen, a)

Taking(list, f, m) ==
    f = [n \in 0..m |-> IF n = 0 THEN <<>> ELSE addUnseen(f[n - 1], list[n])]

LEMMA UnseenIs ==
    ASSUME NEW list
    PROVE  unseen(list) = (CHOOSE f : Taking(list, f, Len(list)))[Len(list)]
BY Zenon DEF unseen, Taking, addUnseen

LEMMA TakingExists ==
    ASSUME NEW list, Len(list) \in Nat
    PROVE  \E f : Taking(list, f, Len(list))
<1>. DEFINE G == {m \in Nat : \E f : Taking(list, f, m)}
<1>1. 0 \in G
  <2>. DEFINE f == [n \in 0..0 |-> <<>>]
  <2>1. Taking(list, f, 0)
    BY DEF Taking
  <2>. QED  BY <2>1
<1>2. ASSUME NEW m \in 1..Len(list), m - 1 \in G PROVE m \in G
  <2>1. PICK f : Taking(list, f, m - 1)
    BY <1>2
  <2>. DEFINE g == [n \in 0..m |-> IF n < m THEN f[n] ELSE addUnseen(f[m - 1], list[m])]
  <2>2. ASSUME NEW n \in 0..m
        PROVE  g[n] = IF n = 0 THEN <<>> ELSE addUnseen(g[n - 1], list[n])
    <3>1. CASE n = m
      <4>1. n # 0 /\ g[n - 1] = f[m - 1] /\ g[n] = addUnseen(f[m - 1], list[m])
        BY <3>1
      <4>. QED  BY <3>1, <4>1
    <3>2. CASE n # m
      <4>1. n \in 0..m - 1 /\ g[n] = f[n] /\ (n # 0 => g[n - 1] = f[n - 1])
        BY <3>2
      <4>2. f[n] = IF n = 0 THEN <<>> ELSE addUnseen(f[n - 1], list[n])
        BY <2>1, <4>1 DEF Taking
      <4>. QED  BY <4>1, <4>2
    <3>. QED  BY <3>1, <3>2
  <2>3. g = [n \in 0..m |-> g[n]]
    OBVIOUS
  <2>. HIDE DEF g
  <2>4. Taking(list, g, m)
    BY <2>2, <2>3 DEF Taking
  <2>. QED  BY <2>4
<1>. HIDE DEF G
<1>3. Len(list) \in G
  <2>1. \A n \in 0..Len(list) : n \in G
    BY <1>1, <1>2, UpTo, Zenon
  <2>. QED  BY <2>1
<1>. QED  BY <1>3 DEF G

\* After n of its peers the list has left each of them once, and those of its first m
\* peers before the others.
Left(list, n, taken) ==
    /\ taken \in Seq(Address)
    /\ ToSet(taken) = {list[i] : i \in 1..n}
    /\ IsInjective(taken)
    /\ \A m \in 0..Len(list) : \A i, j \in DOMAIN taken :
         i < j /\ taken[j] \in {list[l] : l \in 1..m} => taken[i] \in {list[l] : l \in 1..m}

LEMMA AddLeaves ==
    ASSUME NEW list \in Seq(Address), NEW n \in 1..Len(list), NEW taken, Left(list, n - 1, taken)
    PROVE  Left(list, n, addUnseen(taken, list[n]))
<1>. DEFINE a == list[n]
<1>1. /\ taken \in Seq(Address) /\ a \in Address /\ Len(taken) \in Nat /\ Len(list) \in Nat
      /\ DOMAIN taken = 1..Len(taken)
  BY DEF Left
<1>2. {list[i] : i \in 1..n} = {list[i] : i \in 1..(n - 1)} \cup {a}
  <2>1. 1..n = 1..(n - 1) \cup {n}
    BY <1>1
  <2>. QED  BY <2>1
<1>3. CASE Contains(taken, a)
  <2>1. a \in ToSet(taken)
    BY <1>1, <1>3 DEF Contains, ToSet
  <2>. QED  BY <1>2, <1>3, <2>1 DEF Left, addUnseen
<1>4. CASE ~Contains(taken, a)
  <2>. DEFINE next == Append(taken, a)
  <2>1. /\ next \in Seq(Address) /\ Len(next) = Len(taken) + 1 /\ DOMAIN next = 1..Len(taken) + 1
        /\ \A i \in 1..Len(taken) : next[i] = taken[i]
        /\ next[Len(taken) + 1] = a
    BY <1>1, AppendProperties
  <2>. HIDE DEF next
  <2>2. \A i \in 1..Len(taken) : taken[i] # a
    BY <1>4 DEF Contains
  <2>3. \A i \in DOMAIN next : i \in 1..Len(taken) \/ i = Len(taken) + 1
    BY <1>1, <2>1
  <2>4. ToSet(next) = ToSet(taken) \cup {a}
    <3>1. 1..Len(taken) \subseteq DOMAIN next /\ Len(taken) + 1 \in DOMAIN next
      BY <1>1, <2>1
    <3>. QED  BY <1>1, <2>1, <2>3, <3>1 DEF ToSet
  <2>5. ToSet(next) = {list[i] : i \in 1..n}
    BY <1>2, <2>4 DEF Left
  <2>6. IsInjective(next)
    <3>1. \A i, j \in 1..Len(taken) : taken[i] = taken[j] => i = j
      BY <1>1 DEF Left, IsInjective
    <3>. QED  BY <2>1, <2>2, <2>3, <3>1 DEF IsInjective
  <2>7. ASSUME NEW m \in 0..Len(list), NEW i \in DOMAIN next, NEW j \in DOMAIN next, i < j,
               next[j] \in {list[l] : l \in 1..m}
        PROVE  next[i] \in {list[l] : l \in 1..m}
    <3>1. i \in 1..Len(taken)
      BY <1>1, <2>1, <2>7
    <3>2. CASE j \in 1..Len(taken)
      BY <1>1, <2>1, <2>7, <3>1, <3>2 DEF Left
    <3>3. CASE j = Len(taken) + 1
      <4>1. a \in {list[l] : l \in 1..m}
        BY <2>1, <2>7, <3>3
      <4>2. a \notin {list[l] : l \in 1..(n - 1)}
        BY <1>1, <2>2 DEF Left, ToSet
      <4>3. ~(m <= n - 1)
        <5>. SUFFICES ASSUME m <= n - 1 PROVE FALSE
          OBVIOUS
        <5>1. 1..m \subseteq 1..(n - 1)
          BY <1>1
        <5>. QED  BY <4>1, <4>2, <5>1
      <4>4. 1..(n - 1) \subseteq 1..m
        BY <1>1, <4>3
      <4>5. next[i] \in {list[l] : l \in 1..(n - 1)}
        BY <1>1, <2>1, <3>1 DEF Left, ToSet
      <4>. QED  BY <4>4, <4>5
    <3>. QED  BY <2>3, <3>2, <3>3
  <2>8. Left(list, n, next)
    BY <2>1, <2>5, <2>6, <2>7 DEF Left
  <2>. QED  BY <1>4, <2>8 DEF addUnseen, next
<1>. QED  BY <1>3, <1>4

LEMMA UnseenLeaves ==
    ASSUME NEW list \in Seq(Address)
    PROVE  Left(list, Len(list), unseen(list))
<1>1. Len(list) \in Nat
  OBVIOUS
<1>2. PICK f : Taking(list, f, Len(list)) /\ unseen(list) = f[Len(list)]
  BY <1>1, UnseenIs, TakingExists
<1>3. \A n \in 0..Len(list) : f[n] = IF n = 0 THEN <<>> ELSE addUnseen(f[n - 1], list[n])
  BY <1>2 DEF Taking
<1>. DEFINE G == {n \in Nat : Left(list, n, f[n])}
<1>4. 0 \in G
  <2>1. f[0] = <<>>
    BY <1>1, <1>3
  <2>2. <<>> \in Seq(Address) /\ DOMAIN <<>> = {} /\ 1..0 = {}
    OBVIOUS
  <2>3. Left(list, 0, <<>>)
    BY <2>2 DEF Left, ToSet, IsInjective
  <2>. QED  BY <2>1, <2>3
<1>5. ASSUME NEW n \in 1..Len(list), n - 1 \in G PROVE n \in G
  <2>1. f[n] = addUnseen(f[n - 1], list[n])
    BY <1>1, <1>3
  <2>. QED  BY <1>5, <2>1, AddLeaves
<1>. HIDE DEF G
<1>6. Len(list) \in G
  <2>1. \A n \in 0..Len(list) : n \in G
    BY <1>1, <1>4, <1>5, UpTo, Zenon
  <2>. QED  BY <1>1, <2>1
<1>. QED  BY <1>2, <1>6 DEF G

\* A sequence after another one: the explicit peers are the first ones of the list.
LEMMA ListIs ==
    ASSUME NEW listed \in Seq(Address), NEW dns \in Seq(Address)
    PROVE  /\ listed \o dns \in Seq(Address)
           /\ Len(listed) \in 0..Len(listed \o dns)
           /\ {(listed \o dns)[l] : l \in 1..Len(listed)} = ToSet(listed)
           /\ {(listed \o dns)[l] : l \in 1..Len(listed \o dns)} = ToSet(listed) \cup ToSet(dns)
<1>. DEFINE list == listed \o dns
            m == Len(listed)
            n == Len(dns)
<1>1. /\ list \in Seq(Address) /\ m \in Nat /\ n \in Nat /\ Len(list) = m + n
      /\ DOMAIN listed = 1..m /\ DOMAIN dns = 1..n
      /\ \A i \in 1..m + n : list[i] = IF i <= m THEN listed[i] ELSE dns[i - m]
  BY ConcatProperties
<1>. HIDE DEF list, m, n
<1>2. \A i \in 1..m : i \in 1..m + n /\ list[i] = listed[i]
  BY <1>1
<1>3. \A i \in 1..n : m + i \in 1..m + n /\ list[m + i] = dns[i]
  <2>. SUFFICES ASSUME NEW i \in 1..n PROVE m + i \in 1..m + n /\ list[m + i] = dns[i]
    OBVIOUS
  <2>1. m + i \in 1..m + n /\ ~(m + i <= m) /\ (m + i) - m = i
    BY <1>1
  <2>. QED  BY <1>1, <2>1
<1>4. \A i \in 1..m + n : i \in 1..m \/ (i - m \in 1..n /\ list[i] = dns[i - m])
  BY <1>1
<1>5. {list[l] : l \in 1..m} = ToSet(listed)
  BY <1>1, <1>2 DEF ToSet
<1>6. {list[l] : l \in 1..Len(list)} = ToSet(listed) \cup ToSet(dns)
  <2>1. \A l \in 1..Len(list) : list[l] \in ToSet(listed) \cup ToSet(dns)
    BY <1>1, <1>2, <1>4 DEF ToSet
  <2>2. \A a \in ToSet(listed) : \E l \in 1..Len(list) : list[l] = a
    BY <1>1, <1>2 DEF ToSet
  <2>3. \A a \in ToSet(dns) : \E l \in 1..Len(list) : list[l] = a
    BY <1>1, <1>3 DEF ToSet
  <2>. QED  BY <2>1, <2>2, <2>3
<1>. QED  BY <1>1, <1>5, <1>6 DEF list, m, n

\* What resolvePeers returns: every configured peer, each once, the explicit ones first.
LEMMA Resolved ==
    ASSUME NEW listed \in Seq(Address), NEW dns \in Seq(Address)
    PROVE  LET list == resolvePeers(listed, dns)
           IN  /\ list \in Seq(Address)
               /\ ToSet(list) = ToSet(listed) \cup ToSet(dns)
               /\ IsInjective(list)
               /\ \A i, j \in DOMAIN list :
                    i < j /\ list[j] \in ToSet(listed) => list[i] \in ToSet(listed)
<1>. DEFINE all == listed \o dns
<1>1. /\ all \in Seq(Address) /\ Len(listed) \in 0..Len(all)
      /\ {all[l] : l \in 1..Len(listed)} = ToSet(listed)
      /\ {all[l] : l \in 1..Len(all)} = ToSet(listed) \cup ToSet(dns)
  BY ListIs
<1>. HIDE DEF all
<1>2. Left(all, Len(all), unseen(all))
  BY <1>1, UnseenLeaves
<1>3. \A i, j \in DOMAIN unseen(all) :
        i < j /\ unseen(all)[j] \in {all[l] : l \in 1..Len(listed)}
              => unseen(all)[i] \in {all[l] : l \in 1..Len(listed)}
  BY <1>1, <1>2 DEF Left
<1>4. resolvePeers(listed, dns) = unseen(all)
  BY DEF resolvePeers, all
<1>. QED  BY <1>1, <1>2, <1>3, <1>4 DEF Left

\* The configuration is one of those given, and stays.
LEMMA ConfigInit == Init => explicit \in Seq(Address) /\ seeds \in Seq(Address)
BY IndexerAssumption DEF Init

LEMMA ConfigStep == [Next]_vars => UNCHANGED config
<1>. SUFFICES ASSUME [Next]_vars PROVE UNCHANGED config
  OBVIOUS
<1>. QED
  BY DEF Next, Start, Run, CallStop, ContextDone, RunStep, ConnectPeer, Connected, RunWakes,
         StopStep, StopNotRunning, StopClient, Stopped, StopTimedOut, ClientPeers, vars

\* "deduplicated peers: explicit peers first, then DNS seeds" (indexer.go:265-289): of
\* lists of any length every peer is dialed once, and no seed before an explicit peer.
THEOREM EachResolvedOnce == Spec => []ResolvesEachOnce
<1>1. explicit \in Seq(Address) /\ seeds \in Seq(Address) => ResolvesEachOnce
  <2>. SUFFICES ASSUME explicit \in Seq(Address), seeds \in Seq(Address)
                PROVE  ResolvesEachOnce
    OBVIOUS
  <2>1. \A a : Contains(explicit, a) <=> a \in ToSet(explicit)
    BY DEF Contains, ToSet
  <2>. QED  BY <2>1, Resolved DEF ResolvesEachOnce
<1>2. explicit \in Seq(Address) /\ seeds \in Seq(Address) /\ [Next]_vars
        => (explicit \in Seq(Address) /\ seeds \in Seq(Address))'
  BY ConfigStep DEF config
<1>. QED  BY <1>1, <1>2, ConfigInit, PTL DEF Spec

-----------------------------------------------------------------------------
(* The rest of the state: a Run counts every peer of its list once, as one it has yet *)
(* to add or, if that failed, as an error.                                            *)

ClientTypes ==
    /\ members \subseteq Address /\ up \subseteq Address
    /\ started \in BOOLEAN /\ running \in BOOLEAN
    /\ phase \in {"idle", "stopping", "ok", "timeout"}
    /\ panicked \in {"no", "close of closed channel", "WaitGroup is reused"}

CallTypes ==
    /\ \A c, d \in stopper : c = d
    /\ cancelled \subseteq Caller
    /\ calls \in [Caller -> 0..MaxCalls]

PeersCounted ==
    /\ explicit \in Seq(Address) /\ seeds \in Seq(Address)
    /\ todo \in [Caller -> Seq(Address)] /\ failed \in [Caller -> Nat]
    /\ \A c \in Caller : Len(todo[c]) + failed[c] <= Len(resolvePeers(explicit, seeds))

LEMMA ClientTypesStep == PeersCounted /\ ClientTypes /\ [Next]_vars => ClientTypes'
<1>. SUFFICES ASSUME PeersCounted, ClientTypes, [Next]_vars PROVE ClientTypes'
  OBVIOUS
<1>. USE DEF ClientTypes
<1>1. ASSUME NEW c \in Caller, Start(c) \/ Run(c) PROVE ClientTypes'
  BY <1>1 DEF Start, Run, start, ClientStart
<1>2. ASSUME NEW c \in Caller,
             CallStop(c) \/ ContextDone(c) \/ Connected(c) \/ RunWakes(c) \/ StopNotRunning(c)
      PROVE  ClientTypes'
  BY <1>2 DEF CallStop, ContextDone, Connected, RunWakes, StopNotRunning, clientState
<1>3. ASSUME NEW c \in Caller, ConnectPeer(c) PROVE ClientTypes'
  <2>1. todo[c] \in Seq(Address) /\ todo[c] # <<>>
    BY <1>3 DEF ConnectPeer, PeersCounted
  <2>2. Head(todo[c]) \in Address
    BY <2>1, HeadTailProperties
  <2>. QED  BY <1>3, <2>2 DEF ConnectPeer, Register, clientState
<1>4. ASSUME NEW c \in Caller, StopClient(c) \/ Stopped(c) \/ StopTimedOut(c) PROVE ClientTypes'
  BY <1>4 DEF StopClient, Stopped, StopTimedOut, StopBegins, StopReturnsNil,
              StopReturnsTimeout, reset
<1>5. CASE ClientPeers
  BY <1>5 DEF ClientPeers, PeersChange, Register, Leave, Announce, Lose, WaitPanics
<1>6. CASE UNCHANGED vars
  BY <1>6 DEF vars, clientState
<1>. QED  BY <1>1, <1>2, <1>3, <1>4, <1>5, <1>6 DEF Next, RunStep, StopStep

LEMMA CallTypesStep == CallTypes /\ [Next]_vars => CallTypes'
<1>. SUFFICES ASSUME CallTypes, [Next]_vars PROVE CallTypes'
  OBVIOUS
<1>. USE DEF CallTypes
<1>1. ASSUME NEW c \in Caller, call(c) PROVE calls' \in [Caller -> 0..MaxCalls]
  <2>1. calls[c] \in 0..MaxCalls /\ calls[c] < MaxCalls /\ MaxCalls \in Nat
    BY <1>1, IndexerAssumption DEF call
  <2>2. calls[c] + 1 \in 0..MaxCalls
    BY <2>1
  <2>. QED  BY <1>1, <2>2 DEF call
<1>2. ASSUME NEW c \in Caller, Start(c) \/ Run(c) \/ CallStop(c) PROVE CallTypes'
  <2>1. stopper' = stopper /\ cancelled' \subseteq cancelled /\ call(c)
    BY <1>2 DEF Start, Run, CallStop
  <2>. QED  BY <1>1, <2>1
<1>3. ASSUME NEW c \in Caller, ContextDone(c) PROVE CallTypes'
  BY <1>3 DEF ContextDone
<1>4. ASSUME NEW c \in Caller, RunStep(c) \/ StopStep(c) PROVE CallTypes'
  BY <1>4 DEF RunStep, ConnectPeer, Connected, RunWakes, StopStep, StopNotRunning, StopClient,
              Stopped, StopTimedOut
<1>5. CASE ClientPeers
  BY <1>5 DEF ClientPeers
<1>6. CASE UNCHANGED vars
  BY <1>6 DEF vars
<1>. QED  BY <1>2, <1>3, <1>4, <1>5, <1>6 DEF Next

LEMMA PeersCountedInit == Init => PeersCounted
<1>. SUFFICES ASSUME Init PROVE PeersCounted
  OBVIOUS
<1>1. explicit \in Seq(Address) /\ seeds \in Seq(Address)
  BY ConfigInit
<1>2. resolvePeers(explicit, seeds) \in Seq(Address)
  BY <1>1, Resolved
<1>3. Len(resolvePeers(explicit, seeds)) \in Nat
  BY <1>2
<1>4. \A c \in Caller : todo[c] = <<>> /\ failed[c] = 0
  BY DEF Init
<1>5. todo \in [Caller -> Seq(Address)] /\ failed \in [Caller -> Nat]
  BY DEF Init
<1>. QED  BY <1>1, <1>3, <1>4, <1>5 DEF PeersCounted

LEMMA PeersCountedStep == PeersCounted /\ [Next]_vars => PeersCounted'
<1>. SUFFICES ASSUME PeersCounted, [Next]_vars PROVE PeersCounted'
  OBVIOUS
<1>1. explicit' = explicit /\ seeds' = seeds
  BY ConfigStep DEF config
<1>2. resolvePeers(explicit, seeds) \in Seq(Address)
  BY Resolved DEF PeersCounted
<1>. DEFINE n == Len(resolvePeers(explicit, seeds))
<1>3. n \in Nat /\ n' = n
  BY <1>1, <1>2
<1>4. /\ explicit' \in Seq(Address) /\ seeds' \in Seq(Address)
      /\ todo \in [Caller -> Seq(Address)] /\ failed \in [Caller -> Nat]
      /\ \A c \in Caller : Len(todo[c]) + failed[c] <= n
  BY <1>1 DEF PeersCounted
<1>5. SUFFICES /\ todo' \in [Caller -> Seq(Address)] /\ failed' \in [Caller -> Nat]
               /\ \A c \in Caller : Len(todo'[c]) + failed'[c] <= n
  BY <1>1, <1>4 DEF PeersCounted
<1>. DEFINE Counted == /\ todo' \in [Caller -> Seq(Address)] /\ failed' \in [Caller -> Nat]
                       /\ \A c \in Caller : Len(todo'[c]) + failed'[c] <= n
<1>6. ASSUME NEW c \in Caller, Run(c) PROVE Counted
  <2>1. /\ todo' = [todo EXCEPT ![c] = resolvePeers(explicit, seeds)]
        /\ failed' = [failed EXCEPT ![c] = 0]
    BY <1>6 DEF Run, noErrs
  <2>2. /\ todo'[c] = resolvePeers(explicit, seeds) /\ failed'[c] = 0
        /\ \A d \in Caller : d # c => todo'[d] = todo[d] /\ failed'[d] = failed[d]
    BY <1>4, <2>1
  <2>3. todo' \in [Caller -> Seq(Address)] /\ failed' \in [Caller -> Nat]
    BY <1>2, <1>4, <2>1
  <2>4. Len(todo'[c]) + failed'[c] <= n
    BY <1>3, <2>2
  <2>. HIDE DEF n
  <2>. QED  BY <1>4, <2>2, <2>3, <2>4
<1>. HIDE DEF n
<1>7. ASSUME NEW c \in Caller, ConnectPeer(c) PROVE Counted
  <2>1. /\ todo[c] # <<>> /\ todo' = [todo EXCEPT ![c] = Tail(@)]
        /\ failed' = failed \/ failed' = [failed EXCEPT ![c] = @ + 1]
    BY <1>7 DEF ConnectPeer
  <2>2. /\ todo[c] \in Seq(Address) /\ Tail(todo[c]) \in Seq(Address)
        /\ Len(Tail(todo[c])) = Len(todo[c]) - 1 /\ Len(todo[c]) \in Nat
    BY <1>4, <2>1
  <2>3. /\ todo' \in [Caller -> Seq(Address)] /\ failed' \in [Caller -> Nat]
        /\ todo'[c] = Tail(todo[c]) /\ failed'[c] <= failed[c] + 1
        /\ failed[c] \in Nat /\ failed'[c] \in Nat
        /\ \A d \in Caller : d # c => todo'[d] = todo[d] /\ failed'[d] = failed[d]
    BY <1>4, <2>1, <2>2
  <2>4. Len(todo'[c]) + failed'[c] <= n
    <3>1. Len(todo[c]) + failed[c] <= n
      BY <1>4
    <3>. QED  BY <1>3, <2>2, <2>3, <3>1
  <2>. QED  BY <1>4, <2>3, <2>4
<1>8. ASSUME UNCHANGED <<todo, failed>> PROVE Counted
  BY <1>4, <1>8
<1>9. ASSUME NEW c \in Caller,
             \/ Start(c) \/ CallStop(c) \/ ContextDone(c) \/ Connected(c) \/ RunWakes(c)
             \/ StopStep(c)
      PROVE  UNCHANGED <<todo, failed>>
  BY <1>9 DEF Start, CallStop, ContextDone, Connected, RunWakes, StopStep, StopNotRunning,
              StopClient, Stopped, StopTimedOut, return, runVars
<1>10. ClientPeers \/ UNCHANGED vars => UNCHANGED <<todo, failed>>
  BY DEF ClientPeers, vars, runVars
<1>. QED  BY <1>6, <1>7, <1>8, <1>9, <1>10 DEF Next, RunStep

\* The state is well typed, at most one goroutine is in idx.Stop, and connectPeers never
\* counts more errors than it has peers (indexer.go:225-263).
THEOREM TypeCorrect == Spec => []TypeOK
<1>1. Types /\ ClientTypes /\ CallTypes /\ PeersCounted => TypeOK
  <2>. SUFFICES ASSUME Types, ClientTypes, CallTypes, PeersCounted PROVE TypeOK
    OBVIOUS
  <2>1. Cardinality(stopper) <= 1
    <3>1. CASE stopper = {}
      BY <3>1, FS_EmptySet
    <3>2. CASE stopper # {}
      <4>1. PICK c \in stopper : stopper = {c}
        BY <3>2 DEF CallTypes
      <4>2. Cardinality({c}) = 1
        BY FS_Singleton
      <4>. QED  BY <4>1, <4>2
    <3>. QED  BY <3>1, <3>2
  <2>. QED  BY <2>1 DEF Types, ClientTypes, CallTypes, PeersCounted, TypeOK
<1>2. Init => Types /\ ClientTypes /\ CallTypes /\ PeersCounted
  <2>1. Init => ClientTypes /\ CallTypes
    <3>. SUFFICES ASSUME Init PROVE ClientTypes /\ CallTypes
      OBVIOUS
    <3>1. 0 \in 0..MaxCalls
      BY IndexerAssumption
    <3>2. calls \in [Caller -> 0..MaxCalls]
      BY <3>1 DEF Init
    <3>. QED  BY <3>2 DEF Init, ClientInit, ClientTypes, CallTypes
  <2>. QED  BY <2>1, TypesInit, PeersCountedInit
<1>3. Types /\ ClientTypes /\ CallTypes /\ PeersCounted /\ [Next]_vars
        => (Types /\ ClientTypes /\ CallTypes /\ PeersCounted)'
  BY TypesStep, ClientTypesStep, CallTypesStep, PeersCountedStep
<1>. QED  BY <1>1, <1>2, <1>3, PTL DEF Spec
=============================================================================
