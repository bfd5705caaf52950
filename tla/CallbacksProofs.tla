---------------------------- MODULE CallbacksProofs ----------------------------
(***************************************************************************)
(* The locks of btcclient, their order and who holds them, for any number  *)
(* of goroutines, calls, loops and messages, and for listeners that call   *)
(* any method back, but for OnPeerDisconnected, which removePeer calls     *)
(* with the locks held.                                                    *)
(*                                                                         *)
(* What a goroutine has left to do leads from the locks it holds now to    *)
(* none (Path): so much can be said of a list from end to end without      *)
(* induction, by the locks held before each of its instructions.           *)
(***************************************************************************)
EXTENDS Callbacks, FiniteSetTheorems, TLAPS

\* How a goroutine holds each lock.
Holding == [Lock -> {"free", "r", "w"}]
Free    == [l \in Lock |-> "free"]

\* An instruction is in its place with these locks held, and leaves those.
Takes(x, b, c) ==
    /\ x[1] = "Lock" => /\ b[x[2]] = "free" /\ b["peersMu"] = "free"
                        /\ c = [b EXCEPT ![x[2]] = "w"]
    /\ x[1] = "RLock" => /\ b[x[2]] = "free" /\ b["peersMu"] = "free"
                         /\ c = [b EXCEPT ![x[2]] = "r"]
    /\ x[1] = "Unlock" => b[x[2]] = "w" /\ c = [b EXCEPT ![x[2]] = "free"]
    /\ x[1] = "RUnlock" => b[x[2]] = "r" /\ c = [b EXCEPT ![x[2]] = "free"]
    /\ x[1] \in {"listener", "do"} => c = b
    /\ x[1] = "listener" /\ x[2] # "OnPeerDisconnected" => b = Free
    /\ x[1] = "do" /\ x[2] = "stop" => b["peersMu"] = "free"

Path(s, b, e) ==
    /\ s \in Seq(Instruction)
    /\ \E h \in [1..(Len(s) + 1) -> Holding] :
        /\ h[1] = b /\ h[Len(s) + 1] = e
        /\ \A i \in 1..Len(s) : Takes(s[i], h[i], h[i + 1])

\* The locks as the list says and as they are.
Agrees(g, b) ==
    \A l \in Lock :
        /\ b[l] = "r" <=> g \in readers[l]
        /\ b[l] = "w" => g \in writer[l]
        /\ g \in writer[l] /\ b[l] # "w" => next(g, "Lock") /\ on(g) = l

Types ==
    /\ deadline \in BOOLEAN
    /\ todo \in [Goroutine -> Seq(Instruction)]
    /\ readers \in [Lock -> SUBSET Goroutine]
    /\ writer \in [Lock -> SUBSET Goroutine]
    /\ blocked \in [Lock -> SUBSET Goroutine]

OneWriter == \A l \in Lock : \A g, h \in writer[l] : g = h

Blocked == \A l \in Lock : \A g \in blocked[l] : next(g, "RLock") /\ on(g) = l

OnPath == \A g \in Goroutine : \E b \in Holding : Path(todo[g], b, Free) /\ Agrees(g, b)

IInv == Types /\ OneWriter /\ Blocked /\ OnPath

\* What a user has to keep to.
QuietRemoval == \A withDeadline \in BOOLEAN : MayCall[withDeadline]["OnPeerDisconnected"] = {}

-----------------------------------------------------------------------------
(* Paths. *)

LEMMA PathEmpty ==
    ASSUME NEW b \in Holding
    PROVE  Path(<<>>, b, b)
<1>. DEFINE h == [i \in 1..(Len(<<>>) + 1) |-> b]
<1>1. h \in [1..(Len(<<>>) + 1) -> Holding] /\ h[1] = b /\ h[Len(<<>>) + 1] = b
  OBVIOUS
<1>2. \A i \in 1..Len(<<>>) : Takes(<<>>[i], h[i], h[i + 1])
  OBVIOUS
<1>3. <<>> \in Seq(Instruction)
  OBVIOUS
<1>. QED  BY <1>1, <1>2, <1>3 DEF Path

LEMMA PathOne ==
    ASSUME NEW x \in Instruction, NEW b \in Holding, NEW c \in Holding, Takes(x, b, c)
    PROVE  Path(<<x>>, b, c)
<1>. DEFINE h == [i \in 1..2 |-> IF i = 1 THEN b ELSE c]
<1>1. <<x>> \in Seq(Instruction) /\ Len(<<x>>) = 1 /\ <<x>>[1] = x
  OBVIOUS
<1>2. h \in [1..2 -> Holding] /\ h[1] = b /\ h[2] = c
  OBVIOUS
<1>. HIDE DEF h
<1>3. \A i \in 1..1 : Takes(<<x>>[i], h[i], h[i + 1])
  BY <1>1, <1>2
<1>. QED  BY <1>1, <1>2, <1>3 DEF Path

LEMMA PathHead ==
    ASSUME NEW s, NEW b, NEW e, Path(s, b, e), s # <<>>
    PROVE  /\ Head(s) \in Instruction /\ b \in Holding
           /\ \E c \in Holding : Takes(Head(s), b, c) /\ Path(Tail(s), c, e)
<1>1. s \in Seq(Instruction)
  BY DEF Path
<1>2. PICK h \in [1..(Len(s) + 1) -> Holding] :
          /\ h[1] = b /\ h[Len(s) + 1] = e
          /\ \A i \in 1..Len(s) : Takes(s[i], h[i], h[i + 1])
  BY DEF Path
<1>. DEFINE h2 == [i \in 1..Len(s) |-> h[i + 1]]
<1>3. /\ Len(s) \in Nat /\ Len(s) >= 1 /\ Head(s) = s[1] /\ Head(s) \in Instruction
      /\ Tail(s) \in Seq(Instruction) /\ Len(Tail(s)) = Len(s) - 1
      /\ \A i \in 1..(Len(s) - 1) : Tail(s)[i] = s[i + 1]
  BY <1>1
<1>4. h2 \in [1..Len(s) -> Holding] /\ \A i \in 1..Len(s) : h2[i] = h[i + 1]
  BY <1>3
<1>. HIDE DEF h2
<1>5. h2[1] = h[2] /\ h2[Len(s)] = e /\ h[2] \in Holding /\ b \in Holding
  BY <1>2, <1>3, <1>4
<1>6. \A i \in 1..(Len(s) - 1) : Takes(Tail(s)[i], h2[i], h2[i + 1])
  <2>1. SUFFICES ASSUME NEW i \in 1..(Len(s) - 1) PROVE Takes(Tail(s)[i], h2[i], h2[i + 1])
    OBVIOUS
  <2>2. i + 1 \in 1..Len(s) /\ i \in 1..Len(s)
    BY <1>3
  <2>3. Takes(s[i + 1], h[i + 1], h[(i + 1) + 1])
    BY <1>2, <2>2
  <2>4. h2[i] = h[i + 1] /\ h2[i + 1] = h[(i + 1) + 1] /\ Tail(s)[i] = s[i + 1]
    BY <1>3, <1>4, <2>2
  <2>. QED  BY <2>3, <2>4
<1>7. Takes(Head(s), b, h[2])
  BY <1>2, <1>3
<1>8. Path(Tail(s), h[2], e)
  <2>1. Len(Tail(s)) + 1 = Len(s)
    BY <1>3
  <2>. QED  BY <1>3, <1>4, <1>5, <1>6, <2>1 DEF Path
<1>. QED  BY <1>3, <1>5, <1>7, <1>8

LEMMA PathJoin ==
    ASSUME NEW s, NEW t, NEW b, NEW c, NEW e, Path(s, b, c), Path(t, c, e)
    PROVE  Path(s \o t, b, e)
<1>1. s \in Seq(Instruction) /\ t \in Seq(Instruction)
  BY DEF Path
<1>2. PICK h \in [1..(Len(s) + 1) -> Holding] :
          /\ h[1] = b /\ h[Len(s) + 1] = c
          /\ \A i \in 1..Len(s) : Takes(s[i], h[i], h[i + 1])
  BY DEF Path
<1>3. PICK k \in [1..(Len(t) + 1) -> Holding] :
          /\ k[1] = c /\ k[Len(t) + 1] = e
          /\ \A i \in 1..Len(t) : Takes(t[i], k[i], k[i + 1])
  BY DEF Path
<1>. DEFINE m == Len(s)
            n == Len(t)
            f == [i \in 1..(m + n + 1) |-> IF i <= m THEN h[i] ELSE k[i - m]]
<1>4. /\ m \in Nat /\ n \in Nat /\ s \o t \in Seq(Instruction) /\ Len(s \o t) = m + n
      /\ \A i \in 1..m : (s \o t)[i] = s[i]
      /\ \A i \in 1..n : (s \o t)[m + i] = t[i]
  BY <1>1
<1>5. /\ h \in [1..(m + 1) -> Holding] /\ h[1] = b /\ h[m + 1] = c
      /\ k \in [1..(n + 1) -> Holding] /\ k[1] = c /\ k[n + 1] = e
      /\ \A i \in 1..m : Takes(s[i], h[i], h[i + 1])
      /\ \A i \in 1..n : Takes(t[i], k[i], k[i + 1])
  BY <1>2, <1>3
<1>. HIDE DEF m, n
<1>6. f \in [1..(m + n + 1) -> Holding]
  <2>1. \A i \in 1..(m + n + 1) : i <= m => i \in 1..(m + 1)
    BY <1>4
  <2>2. \A i \in 1..(m + n + 1) : ~(i <= m) => i - m \in 1..(n + 1)
    BY <1>4
  <2>3. \A i \in 1..(m + n + 1) : i <= m => h[i] \in Holding
    BY <1>5, <2>1
  <2>4. \A i \in 1..(m + n + 1) : ~(i <= m) => k[i - m] \in Holding
    BY <1>5, <2>2
  <2>. QED  BY <2>3, <2>4
<1>7. \A i \in 1..(m + 1) : f[i] = h[i]
  <2>1. SUFFICES ASSUME NEW i \in 1..(m + 1) PROVE f[i] = h[i]
    OBVIOUS
  <2>2. i \in 1..(m + n + 1)
    BY <1>4
  <2>3. CASE i <= m
    BY <2>2, <2>3
  <2>4. CASE i = m + 1
    <3>1. i - m = 1 /\ ~(i <= m)
      BY <1>4, <2>4
    <3>. QED  BY <1>5, <2>2, <2>4, <3>1
  <2>5. m \in Nat
    BY <1>4
  <2>. QED  BY <2>3, <2>4, <2>5
<1>8. \A i \in 1..(n + 1) : f[m + i] = k[i]
  <2>1. SUFFICES ASSUME NEW i \in 1..(n + 1) PROVE f[m + i] = k[i]
    OBVIOUS
  <2>2. m + i \in 1..(m + n + 1) /\ ~(m + i <= m) /\ (m + i) - m = i
    BY <1>4
  <2>. QED  BY <2>2
<1>. HIDE DEF f
<1>9. \A i \in 1..(m + n) : Takes((s \o t)[i], f[i], f[i + 1])
  <2>1. SUFFICES ASSUME NEW i \in 1..(m + n) PROVE Takes((s \o t)[i], f[i], f[i + 1])
    OBVIOUS
  <2>2. CASE i <= m
    <3>1. i \in 1..m /\ i \in 1..(m + 1) /\ i + 1 \in 1..(m + 1)
      BY <1>4, <2>2
    <3>. QED  BY <1>4, <1>5, <1>7, <3>1
  <2>3. CASE i > m
    <3>. DEFINE j == i - m
    <3>1. j \in 1..n /\ j \in 1..(n + 1) /\ j + 1 \in 1..(n + 1) /\ i = m + j /\ i + 1 = m + (j + 1)
      BY <1>4, <2>3
    <3>. HIDE DEF j
    <3>2. f[i] = k[j] /\ f[i + 1] = k[j + 1] /\ (s \o t)[i] = t[j]
      BY <1>4, <1>8, <3>1
    <3>. QED  BY <1>5, <3>1, <3>2
  <2>. QED  BY <1>4, <2>2, <2>3
<1>10. f[1] = b /\ f[m + n + 1] = e
  <2>1. 1 \in 1..(m + 1) /\ n + 1 \in 1..(n + 1) /\ m + (n + 1) = m + n + 1
    BY <1>4
  <2>. QED  BY <1>5, <1>7, <1>8, <2>1
<1>. QED  BY <1>4, <1>6, <1>9, <1>10 DEF Path

LEMMA PathEnds ==
    ASSUME NEW b, NEW e, Path(<<>>, b, e)
    PROVE  b = e
<1>1. PICK h \in [1..(Len(<<>>) + 1) -> Holding] : h[1] = b /\ h[Len(<<>>) + 1] = e
  BY DEF Path
<1>2. Len(<<>>) + 1 = 1
  OBVIOUS
<1>. QED  BY <1>1, <1>2

-----------------------------------------------------------------------------
(* What goroutines begin leads from no lock to none. *)

LEMMA Instructions ==
    /\ \A l \in Lock : /\ <<"Lock", l>> \in Instruction /\ <<"Unlock", l>> \in Instruction
                       /\ <<"RLock", l>> \in Instruction /\ <<"RUnlock", l>> \in Instruction
    /\ \A x \in Listener : <<"listener", x>> \in Instruction
    /\ \A x \in {"addPeer", "start", "stop", "wait", "disconnect", "return"} :
           <<"do", x>> \in Instruction
    /\ "mu" \in Lock /\ "peersMu" \in Lock /\ "mu" # "peersMu"
    /\ Free \in Holding
BY DEF Instruction, Lock, Free, Holding

\* Locking and unlocking around a path.
LEMMA PathLocked ==
    ASSUME NEW l \in Lock, NEW b \in Holding, b[l] = "free", b["peersMu"] = "free", NEW work,
           Path(work, [b EXCEPT ![l] = "w"], [b EXCEPT ![l] = "w"])
    PROVE  Path(<<<<"Lock", l>>>> \o work \o <<<<"Unlock", l>>>>, b, b)
<1>. DEFINE c == [b EXCEPT ![l] = "w"]
<1>1. c \in Holding /\ c[l] = "w" /\ [c EXCEPT ![l] = "free"] = b
  BY DEF Holding
<1>. HIDE DEF c
<1>2. Takes(<<"Lock", l>>, b, c)
  BY DEF Takes, c
<1>3. Takes(<<"Unlock", l>>, c, b)
  BY <1>1 DEF Takes
<1>4. Path(<<<<"Lock", l>>>>, b, c) /\ Path(<<<<"Unlock", l>>>>, c, b)
  BY <1>1, <1>2, <1>3, PathOne, Instructions
<1>5. Path(<<<<"Lock", l>>>> \o work, b, c)
  BY <1>4, PathJoin DEF c
<1>. QED  BY <1>4, <1>5, PathJoin

LEMMA PathRLocked ==
    ASSUME NEW l \in Lock, NEW b \in Holding, b[l] = "free", b["peersMu"] = "free", NEW work,
           Path(work, [b EXCEPT ![l] = "r"], [b EXCEPT ![l] = "r"])
    PROVE  Path(<<<<"RLock", l>>>> \o work \o <<<<"RUnlock", l>>>>, b, b)
<1>. DEFINE c == [b EXCEPT ![l] = "r"]
<1>1. c \in Holding /\ c[l] = "r" /\ [c EXCEPT ![l] = "free"] = b
  BY DEF Holding
<1>. HIDE DEF c
<1>2. Takes(<<"RLock", l>>, b, c)
  BY DEF Takes, c
<1>3. Takes(<<"RUnlock", l>>, c, b)
  BY <1>1 DEF Takes
<1>4. Path(<<<<"RLock", l>>>>, b, c) /\ Path(<<<<"RUnlock", l>>>>, c, b)
  BY <1>1, <1>2, <1>3, PathOne, Instructions
<1>5. Path(<<<<"RLock", l>>>> \o work, b, c)
  BY <1>4, PathJoin DEF c
<1>. QED  BY <1>4, <1>5, PathJoin

\* Steps that move no lock: any of them but "stop" with any locks, and the listener
\* of a removal as well.
LEMMA PathStill ==
    ASSUME NEW b \in Holding
    PROVE  /\ \A x \in {"addPeer", "start", "wait", "disconnect", "return"} :
                  Path(<<<<"do", x>>>>, b, b)
           /\ b["peersMu"] = "free" => Path(<<<<"do", "stop">>>>, b, b)
           /\ Path(<<<<"listener", "OnPeerDisconnected">>>>, b, b)
           /\ \A x \in Listener : b = Free => Path(<<<<"listener", x>>>>, b, b)
<1>1. \A x \in {"addPeer", "start", "wait", "disconnect", "return"} : Takes(<<"do", x>>, b, b)
  BY DEF Takes
<1>2. b["peersMu"] = "free" => Takes(<<"do", "stop">>, b, b)
  BY DEF Takes
<1>3. Takes(<<"listener", "OnPeerDisconnected">>, b, b)
  BY DEF Takes
<1>4. \A x \in Listener : b = Free => Takes(<<"listener", x>>, b, b)
  BY DEF Takes
<1>5. "OnPeerDisconnected" \in Listener
  BY DEF Listener
<1>. QED  BY <1>1, <1>2, <1>3, <1>4, <1>5, PathOne, Instructions

\* The lock of the registry, with mu held or not.
LEMMA PathPeersMu ==
    ASSUME NEW b \in Holding, b["peersMu"] = "free",
           NEW work \in {<<>>, removePeer, addPeer}
    PROVE  Path(underPeersMu(work), b, b)
<1>. DEFINE c == [b EXCEPT !["peersMu"] = "w"]
<1>1. c \in Holding
  BY DEF Holding
<1>. HIDE DEF c
<1>2. Path(work, c, c)
  BY <1>1, PathEmpty, PathStill DEF removePeer, addPeer
<1>. QED  BY <1>2, PathLocked, Instructions DEF underPeersMu, c

LEMMA PathSweep ==
    ASSUME NEW b \in Holding, b["peersMu"] = "free"
    PROVE  Path(sweepAndWait, b, b)
BY PathPeersMu, PathStill, PathJoin DEF sweepAndWait

LEMMA PathMethod ==
    ASSUME NEW method \in Method
    PROVE  Path(body(method), Free, Free)
<1>. DEFINE reading == [Free EXCEPT !["mu"] = "r"]
            writing == [Free EXCEPT !["mu"] = "w"]
            counting == [Free EXCEPT !["peersMu"] = "r"]
<1>1. /\ Free \in Holding /\ Free["mu"] = "free" /\ Free["peersMu"] = "free"
      /\ reading \in Holding /\ writing \in Holding /\ counting \in Holding
      /\ reading["peersMu"] = "free" /\ writing["peersMu"] = "free"
  BY DEF Free, Holding, Lock
<1>. HIDE DEF reading, writing, counting
<1>2. ASSUME NEW work, Path(work, writing, writing)
      PROVE  Path(<<<<"Lock", "mu">>>> \o work \o <<<<"Unlock", "mu">>>>, Free, Free)
  BY <1>1, <1>2, PathLocked, Instructions DEF writing
<1>3. ASSUME NEW work, Path(work, reading, reading)
      PROVE  Path(<<<<"RLock", "mu">>>> \o work \o <<<<"RUnlock", "mu">>>>, Free, Free)
  BY <1>1, <1>3, PathRLocked, Instructions DEF reading
<1>4. Path(Start, Free, Free)
  <2>1. Start = <<<<"Lock", "mu">>>> \o <<<<"do", "start">>>> \o <<<<"Unlock", "mu">>>>
    BY DEF Start
  <2>. QED  BY <1>1, <1>2, <2>1, PathStill
<1>5. Path(Stop, Free, Free)
  <2>1. Stop = <<<<"Lock", "mu">>>> \o <<<<"do", "stop">>>> \o <<<<"Unlock", "mu">>>>
    BY DEF Stop
  <2>. QED  BY <1>1, <1>2, <2>1, PathStill
<1>6. Path(AddPeer, Free, Free)
  BY <1>1, <1>3, PathPeersMu DEF AddPeer
<1>7. Path(RemovePeer, Free, Free)
  BY <1>1, <1>3, PathPeersMu DEF RemovePeer
<1>8. Path(PeerCount, Free, Free)
  <2>1. PeerCount = <<<<"RLock", "peersMu">>>> \o <<>> \o <<<<"RUnlock", "peersMu">>>>
    BY DEF PeerCount
  <2>2. Path(<<>>, counting, counting)
    BY <1>1, PathEmpty
  <2>. QED  BY <1>1, <2>1, <2>2, PathRLocked, Instructions DEF counting
<1>. QED  BY <1>4, <1>5, <1>6, <1>7, <1>8 DEF body, Method, Callback

LEMMA PathBegin ==
    /\ \A round \in rounds : Path(round, Free, Free)
    /\ \A message \in messages : Path(message, Free, Free)
    /\ Path(runHealthChecks, Free, Free)
<1>1. Free \in Holding /\ Free["peersMu"] = "free"
  BY DEF Free, Holding, Lock
<1>2. /\ "OnPeerConnected" \in Listener /\ "OnPeerDisconnected" \in Listener
      /\ "OnMessage" \in Listener /\ "OnAddr" \in Listener
  BY DEF Listener
<1>3. Path(<<>>, Free, Free)
  BY <1>1, PathEmpty
<1>4. Path(underPeersMu(removePeer) \o <<<<"do", "return">>>>, Free, Free)
  BY <1>1, PathPeersMu, PathStill, PathJoin
<1>5. Path(<<<<"listener", "OnPeerConnected">>, <<"do", "disconnect">>,
             <<"listener", "OnPeerDisconnected">>>>, Free, Free)
  <2>1. <<<<"listener", "OnPeerConnected">>, <<"do", "disconnect">>,
          <<"listener", "OnPeerDisconnected">>>>
        = <<<<"listener", "OnPeerConnected">>>> \o <<<<"do", "disconnect">>>>
          \o <<<<"listener", "OnPeerDisconnected">>>>
    OBVIOUS
  <2>2. Path(<<<<"listener", "OnPeerConnected">>>> \o <<<<"do", "disconnect">>>>, Free, Free)
    BY <1>1, <1>2, PathStill, PathJoin
  <2>. QED  BY <1>1, <1>2, <2>1, <2>2, PathStill, PathJoin
<1>6. Path(<<<<"listener", "OnMessage">>>>, Free, Free)
  BY <1>1, <1>2, PathStill
<1>7. Path(<<<<"listener", "OnAddr">>>> \o underPeersMu(addPeer), Free, Free)
  BY <1>1, <1>2, PathPeersMu, PathStill, PathJoin
<1>8. Path(runHealthChecks, Free, Free)
  BY <1>1, PathPeersMu DEF runHealthChecks
<1>. QED  BY <1>3, <1>4, <1>5, <1>6, <1>7, <1>8 DEF rounds, messages

-----------------------------------------------------------------------------
(* The invariant. *)

LEMMA Initially == Init => IInv
<1>. SUFFICES ASSUME Init PROVE IInv
  OBVIOUS
<1>1. /\ \A g \in Goroutine : todo[g] = <<>>
      /\ \A l \in Lock : readers[l] = {} /\ writer[l] = {} /\ blocked[l] = {}
  BY DEF Init
<1>2. Types
  BY DEF Init, Types
<1>3. OneWriter /\ Blocked
  BY <1>1 DEF OneWriter, Blocked
<1>4. OnPath
  <2>1. ASSUME NEW g \in Goroutine PROVE Path(todo[g], Free, Free) /\ Agrees(g, Free)
    BY <1>1, PathEmpty, Instructions DEF Agrees, Free
  <2>. QED  BY <2>1, Instructions DEF OnPath
<1>. QED  BY <1>2, <1>3, <1>4 DEF IInv

\* What a goroutine does leaves the others where they are.
LEMMA AgreesKept ==
    ASSUME NEW g, NEW b, Agrees(g, b), todo'[g] = todo[g],
           \A l \in Lock : /\ g \in readers'[l] <=> g \in readers[l]
                           /\ g \in writer'[l] <=> g \in writer[l]
    PROVE  Agrees(g, b)'
<1>1. (next(g, "Lock")' <=> next(g, "Lock")) /\ on(g)' = on(g)
  BY DEF next, on, Idle
<1>2. ASSUME NEW l \in Lock
      PROVE  /\ b[l] = "r" <=> g \in readers'[l]
             /\ b[l] = "w" => g \in writer'[l]
             /\ g \in writer'[l] /\ b[l] # "w" => next(g, "Lock")' /\ on(g)' = l
  <2>1. /\ b[l] = "r" <=> g \in readers[l]
        /\ b[l] = "w" => g \in writer[l]
        /\ g \in writer[l] /\ b[l] # "w" => next(g, "Lock") /\ on(g) = l
    BY DEF Agrees
  <2>. QED  BY <1>1, <2>1
<1>. QED  BY <1>2 DEF Agrees

LEMMA NotLocking ==
    ASSUME NEW g, NEW b, Agrees(g, b), ~next(g, "Lock")
    PROVE  \A l \in Lock : b[l] = "w" <=> g \in writer[l]
BY DEF Agrees

\* A lock instruction names a lock.
LEMMA OnLock ==
    ASSUME Types, NEW g \in Goroutine,
           NEW what \in {"Lock", "Unlock", "RLock", "RUnlock"}, next(g, what)
    PROVE  on(g) \in Lock
<1>1. Head(todo[g]) \in Instruction
  BY DEF Types, next, Idle
<1>. QED  BY <1>1 DEF next, on, Instruction

\* A goroutine that replaces what it has left to do, without a change of a lock.
LEMMA StillStep ==
    ASSUME IInv, NEW g \in Goroutine, ~next(g, "Lock"), ~next(g, "RLock"),
           NEW s \in Seq(Instruction),
           \A b \in Holding : Path(todo[g], b, Free) => Path(s, b, Free),
           todo' = [todo EXCEPT ![g] = s], UNCHANGED <<deadline, readers, writer, blocked>>
    PROVE  IInv'
<1>1. Types /\ OneWriter /\ Blocked /\ OnPath
  BY DEF IInv
<1>2. todo'[g] = s /\ \A h \in Goroutine \ {g} : todo'[h] = todo[h]
  BY <1>1 DEF Types
<1>3. Types' /\ OneWriter'
  BY <1>1 DEF Types, OneWriter
<1>4. Blocked'
  <2>1. \A l \in Lock : g \notin blocked[l]
    BY <1>1 DEF Blocked
  <2>. QED  BY <1>1, <1>2, <2>1 DEF Blocked, Types, next, on, Idle
<1>5. OnPath'
  <2>1. SUFFICES ASSUME NEW h \in Goroutine
                 PROVE  \E b \in Holding : Path(todo'[h], b, Free) /\ Agrees(h, b)'
    BY DEF OnPath
  <2>2. PICK b \in Holding : Path(todo[h], b, Free) /\ Agrees(h, b)
    BY <1>1 DEF OnPath
  <2>3. CASE h # g
    <3>1. Agrees(h, b)'
      BY <1>2, <2>2, <2>3, AgreesKept
    <3>. QED  BY <1>2, <2>2, <2>3, <3>1
  <2>4. CASE h = g
    <3>1. \A l \in Lock : b[l] = "w" <=> g \in writer[l]
      BY <2>2, <2>4, NotLocking
    <3>2. Agrees(h, b)'
      BY <2>2, <2>4, <3>1 DEF Agrees
    <3>. QED  BY <1>2, <2>2, <2>4, <3>2
  <2>. QED  BY <2>3, <2>4
<1>. QED  BY <1>3, <1>4, <1>5 DEF IInv

\* A listener or another step that moves no lock, and what it may call meanwhile.
LEMMA GoStep ==
    ASSUME IInv, NEW g \in Goroutine, next(g, "listener") \/ next(g, "do"),
           NEW instructions \in Seq(Instruction),
           \A b \in Holding : Takes(Head(todo[g]), b, b) => Path(instructions, b, b),
           go(g, instructions), UNCHANGED <<deadline, readers, writer, blocked>>
    PROVE  IInv'
<1>1. Types
  BY DEF IInv
<1>2. todo[g] \in Seq(Instruction) /\ todo[g] # <<>>
      /\ Head(todo[g])[1] \in {"listener", "do"}
  BY <1>1 DEF Types, next, Idle
<1>3. ~next(g, "Lock") /\ ~next(g, "RLock")
  BY <1>2 DEF next
<1>. DEFINE s == instructions \o Tail(todo[g])
<1>4. s \in Seq(Instruction) /\ todo' = [todo EXCEPT ![g] = s]
  BY <1>1, <1>2 DEF go, Types
<1>5. ASSUME NEW b \in Holding, Path(todo[g], b, Free) PROVE Path(s, b, Free)
  <2>1. PICK c \in Holding : Takes(Head(todo[g]), b, c) /\ Path(Tail(todo[g]), c, Free)
    BY <1>2, <1>5, PathHead
  <2>2. c = b
    BY <1>2, <2>1 DEF Takes
  <2>3. Path(instructions, b, b)
    BY <2>1, <2>2
  <2>. QED  BY <2>1, <2>2, <2>3, PathJoin
<1>. HIDE DEF s
<1>. QED  BY <1>3, <1>4, <1>5, StillStep

\* A goroutine that is idle begins something.
LEMMA BeginStep ==
    ASSUME IInv, NEW g \in Goroutine, NEW instructions, Path(instructions, Free, Free),
           begin(g, instructions)
    PROVE  IInv'
<1>1. /\ todo[g] = <<>> /\ todo' = [todo EXCEPT ![g] = instructions]
      /\ UNCHANGED <<deadline, readers, writer, blocked>>
      /\ ~next(g, "Lock") /\ ~next(g, "RLock")
  BY DEF begin, Idle, next, lockVars
<1>2. instructions \in Seq(Instruction)
  BY DEF Path
<1>3. \A b \in Holding : Path(todo[g], b, Free) => Path(instructions, b, Free)
  BY <1>1, PathEnds
<1>. QED  BY <1>1, <1>2, <1>3, StillStep

-----------------------------------------------------------------------------
(* The locks. *)

\* Before and after an instruction that moves a lock.
LEMMA LockInstruction ==
    ASSUME IInv, NEW g \in Goroutine,
           NEW what \in {"Lock", "Unlock", "RLock", "RUnlock"}, next(g, what)
    PROVE  /\ on(g) \in Lock /\ Head(todo[g]) = <<what, on(g)>>
           /\ todo[g] \in Seq(Instruction) /\ <<>> \o Tail(todo[g]) = Tail(todo[g])
           /\ \E b, c \in Holding :
                /\ Path(todo[g], b, Free) /\ Agrees(g, b)
                /\ Takes(<<what, on(g)>>, b, c) /\ Path(Tail(todo[g]), c, Free)
<1>1. Types /\ OnPath
  BY DEF IInv
<1>2. todo[g] \in Seq(Instruction) /\ todo[g] # <<>> /\ Head(todo[g]) \in Instruction
      /\ Tail(todo[g]) \in Seq(Instruction)
  BY <1>1 DEF Types, next, Idle
<1>3. on(g) \in Lock /\ Head(todo[g]) = <<what, on(g)>>
  BY <1>1, <1>2, OnLock DEF next, on, Instruction
<1>4. <<>> \o Tail(todo[g]) = Tail(todo[g])
  BY <1>2
<1>5. PICK b \in Holding : Path(todo[g], b, Free) /\ Agrees(g, b)
  BY <1>1 DEF OnPath
<1>6. PICK c \in Holding : Takes(Head(todo[g]), b, c) /\ Path(Tail(todo[g]), c, Free)
  BY <1>2, <1>5, PathHead
<1>. QED  BY <1>2, <1>3, <1>4, <1>5, <1>6

\* One goroutine takes its instruction, the others stay where they are.
LEMMA TakeStep ==
    ASSUME IInv, NEW g \in Goroutine, NEW c \in Holding, Path(Tail(todo[g]), c, Free),
           todo' = [todo EXCEPT ![g] = Tail(todo[g])],
           \A l \in Lock : (c[l] = "r" <=> g \in readers'[l]) /\ (c[l] = "w" <=> g \in writer'[l]),
           \A h \in Goroutine \ {g} : \A l \in Lock :
               /\ h \in readers'[l] <=> h \in readers[l]
               /\ h \in writer'[l] <=> h \in writer[l]
    PROVE  OnPath'
<1>1. Types /\ OnPath
  BY DEF IInv
<1>2. todo'[g] = Tail(todo[g]) /\ \A h \in Goroutine \ {g} : todo'[h] = todo[h]
  BY <1>1 DEF Types
<1>3. SUFFICES ASSUME NEW h \in Goroutine
               PROVE  \E b \in Holding : Path(todo'[h], b, Free) /\ Agrees(h, b)'
  BY DEF OnPath
<1>4. CASE h = g
  <2>1. Agrees(g, c)'
    BY DEF Agrees
  <2>. QED  BY <1>2, <1>4, <2>1
<1>5. CASE h # g
  <2>1. PICK b \in Holding : Path(todo[h], b, Free) /\ Agrees(h, b)
    BY <1>1 DEF OnPath
  <2>2. Agrees(h, b)'
    BY <1>2, <1>5, <2>1, AgreesKept
  <2>. QED  BY <1>2, <1>5, <2>1, <2>2
<1>. QED  BY <1>4, <1>5

\* Who waits to read keeps waiting, if it is left alone.
LEMMA BlockedKept ==
    ASSUME IInv, NEW g \in Goroutine, \A h \in Goroutine \ {g} : todo'[h] = todo[h],
           \A l \in Lock : blocked'[l] \subseteq blocked[l] /\ g \notin blocked'[l]
    PROVE  Blocked'
<1>1. Types /\ Blocked
  BY DEF IInv
<1>2. ASSUME NEW l \in Lock, NEW h \in blocked'[l] PROVE next(h, "RLock")' /\ on(h)' = l
  <2>1. h \in Goroutine /\ h # g /\ next(h, "RLock") /\ on(h) = l
    BY <1>1, <1>2 DEF Blocked, Types
  <2>. QED  BY <2>1 DEF next, on, Idle
<1>. QED  BY <1>2 DEF Blocked

LEMMA NotBlocked ==
    ASSUME IInv, NEW g \in Goroutine, ~next(g, "RLock"), NEW l \in Lock
    PROVE  g \notin blocked[l]
BY DEF IInv, Blocked

LEMMA RLockStep == ASSUME IInv, NEW g \in Goroutine, RLock(g) PROVE IInv'
<1>1. Types /\ OneWriter /\ Blocked /\ OnPath
  BY DEF IInv
<1>. DEFINE l == on(g)
<1>2. next(g, "RLock") /\ UNCHANGED <<deadline, writer>>
  BY DEF RLock, fixed
<1>3. PICK b \in Holding, c \in Holding :
          /\ Agrees(g, b) /\ Takes(<<"RLock", l>>, b, c) /\ Path(Tail(todo[g]), c, Free)
  BY <1>2, LockInstruction
<1>4. l \in Lock /\ todo[g] \in Seq(Instruction) /\ <<>> \o Tail(todo[g]) = Tail(todo[g])
  BY <1>2, LockInstruction
<1>5. OneWriter'
  BY <1>1, <1>2 DEF OneWriter
<1>. HIDE DEF l
<1>6. CASE writer[l] = {}
  <2>1. /\ readers' = [readers EXCEPT ![l] = @ \cup {g}] /\ UNCHANGED blocked
        /\ todo' = [todo EXCEPT ![g] = Tail(todo[g])]
    BY <1>4, <1>6 DEF RLock, done, go, l
  <2>2. c = [b EXCEPT ![l] = "r"] /\ b[l] = "free"
    BY <1>3 DEF Takes
  <2>3. \A k \in Lock : b[k] = "w" <=> g \in writer[k]
    BY <1>2, <1>3, NotLocking DEF next
  <2>4. ASSUME NEW k \in Lock
        PROVE  (c[k] = "r" <=> g \in readers'[k]) /\ (c[k] = "w" <=> g \in writer'[k])
    <3>1. CASE k = l
      BY <1>1, <1>2, <1>4, <1>6, <2>1, <2>2, <3>1 DEF Types, Holding
    <3>2. CASE k # l
      BY <1>1, <1>2, <1>3, <1>4, <2>1, <2>2, <2>3, <3>2 DEF Types, Holding, Agrees
    <3>. QED  BY <3>1, <3>2
  <2>5. \A h \in Goroutine \ {g} : \A k \in Lock : h \in readers'[k] <=> h \in readers[k]
    BY <1>1, <1>4, <2>1 DEF Types
  <2>6. OnPath'
    BY <1>2, <1>3, <2>1, <2>4, <2>5, TakeStep
  <2>7. Types'
    BY <1>1, <1>2, <1>4, <2>1 DEF Types, next, Idle
  <2>8. Blocked'
    <3>1. \A k \in Lock : g \notin blocked[k]
      BY <1>1 DEF RLock, Blocked
    <3>2. \A h \in Goroutine \ {g} : todo'[h] = todo[h]
      BY <1>1, <2>1 DEF Types
    <3>. QED  BY <2>1, <3>1, <3>2, BlockedKept
  <2>. QED  BY <1>5, <2>6, <2>7, <2>8 DEF IInv
<1>7. CASE writer[l] # {}
  <2>1. blocked' = [blocked EXCEPT ![l] = @ \cup {g}] /\ UNCHANGED <<readers, todo>>
    BY <1>7 DEF RLock, l
  <2>2. Types'
    BY <1>1, <1>2, <2>1 DEF Types
  <2>3. Blocked'
    <3>1. ASSUME NEW k \in Lock, NEW h \in blocked'[k] PROVE next(h, "RLock") /\ on(h) = k
      <4>1. h \in blocked[k] \/ (h = g /\ k = l)
        BY <1>1, <1>4, <2>1 DEF Types
      <4>. QED  BY <1>1, <1>2, <4>1 DEF Blocked, l
    <3>. QED  BY <2>1, <3>1 DEF Blocked, next, on, Idle
  <2>4. OnPath'
    <3>1. SUFFICES ASSUME NEW h \in Goroutine
                   PROVE  \E x \in Holding : Path(todo'[h], x, Free) /\ Agrees(h, x)'
      BY DEF OnPath
    <3>2. PICK x \in Holding : Path(todo[h], x, Free) /\ Agrees(h, x)
      BY <1>1 DEF OnPath
    <3>. QED  BY <1>2, <2>1, <3>2, AgreesKept
  <2>. QED  BY <1>5, <2>2, <2>3, <2>4 DEF IInv
<1>. QED  BY <1>6, <1>7

LEMMA RUnlockStep == ASSUME IInv, NEW g \in Goroutine, RUnlock(g) PROVE IInv'
<1>1. Types /\ OneWriter /\ Blocked /\ OnPath
  BY DEF IInv
<1>. DEFINE l == on(g)
<1>2. next(g, "RUnlock") /\ UNCHANGED <<deadline, writer, blocked>>
  BY DEF RUnlock, fixed
<1>3. PICK b \in Holding, c \in Holding :
          /\ Agrees(g, b) /\ Takes(<<"RUnlock", l>>, b, c) /\ Path(Tail(todo[g]), c, Free)
  BY <1>2, LockInstruction
<1>4. l \in Lock /\ todo[g] \in Seq(Instruction) /\ todo[g] # <<>>
      /\ <<>> \o Tail(todo[g]) = Tail(todo[g])
  BY <1>2, LockInstruction DEF next, Idle
<1>5. /\ readers' = [readers EXCEPT ![l] = @ \ {g}]
      /\ todo' = [todo EXCEPT ![g] = Tail(todo[g])]
  BY <1>4 DEF RUnlock, done, go
<1>. HIDE DEF l
<1>6. c = [b EXCEPT ![l] = "free"] /\ b[l] = "r"
  BY <1>3 DEF Takes
<1>7. \A k \in Lock : b[k] = "w" <=> g \in writer[k]
  BY <1>2, <1>3, NotLocking DEF next
<1>8. ASSUME NEW k \in Lock
      PROVE  (c[k] = "r" <=> g \in readers'[k]) /\ (c[k] = "w" <=> g \in writer'[k])
  <2>1. CASE k = l
    BY <1>1, <1>2, <1>4, <1>5, <1>6, <1>7, <2>1 DEF Types, Holding
  <2>2. CASE k # l
    BY <1>1, <1>2, <1>3, <1>4, <1>5, <1>6, <1>7, <2>2 DEF Types, Holding, Agrees
  <2>. QED  BY <2>1, <2>2
<1>9. \A h \in Goroutine \ {g} : \A k \in Lock : h \in readers'[k] <=> h \in readers[k]
  BY <1>1, <1>4, <1>5 DEF Types
<1>10. OnPath'
  BY <1>2, <1>3, <1>5, <1>8, <1>9, TakeStep
<1>11. Types' /\ OneWriter'
  BY <1>1, <1>2, <1>4, <1>5 DEF Types, OneWriter
<1>12. Blocked'
  <2>1. \A h \in Goroutine \ {g} : todo'[h] = todo[h]
    BY <1>1, <1>5 DEF Types
  <2>2. \A k \in Lock : g \notin blocked[k]
    BY <1>2, NotBlocked DEF next
  <2>. QED  BY <1>2, <2>1, <2>2, BlockedKept
<1>. QED  BY <1>10, <1>11, <1>12 DEF IInv

\* Lock, at once or when the readers have left: afterwards the writer is alone with it.
LEMMA LockedStep ==
    ASSUME IInv, NEW g \in Goroutine, next(g, "Lock"),
           NEW b \in Holding, NEW c \in Holding,
           Agrees(g, b), Takes(<<"Lock", on(g)>>, b, c), Path(Tail(todo[g]), c, Free),
           todo' = [todo EXCEPT ![g] = Tail(todo[g])], g \in writer'[on(g)],
           writer' = writer \/ writer' = [writer EXCEPT ![on(g)] = {g}],
           OneWriter', writer[on(g)] \subseteq {g}, UNCHANGED <<deadline, readers, blocked>>
    PROVE  IInv'
<1>1. Types /\ Blocked /\ OnPath
  BY DEF IInv
<1>. DEFINE l == on(g)
<1>2. l \in Lock /\ todo[g] \in Seq(Instruction) /\ todo[g] # <<>>
  BY LockInstruction DEF next, Idle
<1>3. c = [b EXCEPT ![l] = "w"] /\ b[l] = "free"
  BY DEF Takes
<1>4. \A k \in Lock \ {l} : writer'[k] = writer[k] /\ (b[k] = "w" <=> g \in writer[k])
  BY <1>1, <1>2 DEF Types, Agrees
<1>5. g \in writer'[l]
  OBVIOUS
<1>6. \A h \in Goroutine \ {g} : \A k \in Lock : h \in writer'[k] <=> h \in writer[k]
  BY <1>1, <1>2 DEF Types
<1>. HIDE DEF l
<1>7. ASSUME NEW k \in Lock
      PROVE  (c[k] = "r" <=> g \in readers'[k]) /\ (c[k] = "w" <=> g \in writer'[k])
  <2>1. CASE k = l
    BY <1>2, <1>3, <1>5, <2>1 DEF Holding, Agrees
  <2>2. CASE k # l
    BY <1>2, <1>3, <1>4, <2>2 DEF Holding, Agrees
  <2>. QED  BY <2>1, <2>2
<1>8. OnPath'
  BY <1>6, <1>7, TakeStep
<1>9. Types'
  <2>1. Tail(todo[g]) \in Seq(Instruction)
    BY <1>2
  <2>2. todo' \in [Goroutine -> Seq(Instruction)]
    BY <1>1, <2>1 DEF Types
  <2>3. writer' \in [Lock -> SUBSET Goroutine]
    BY <1>1 DEF Types
  <2>. QED  BY <1>1, <2>2, <2>3 DEF Types
<1>10. Blocked'
  <2>1. \A h \in Goroutine \ {g} : todo'[h] = todo[h]
    BY <1>1 DEF Types
  <2>2. \A k \in Lock : g \notin blocked[k]
    BY NotBlocked DEF next
  <2>. QED  BY <2>1, <2>2, BlockedKept
<1>. QED  BY <1>8, <1>9, <1>10 DEF IInv

LEMMA AnnounceStep == ASSUME IInv, NEW g \in Goroutine, Announce(g) PROVE IInv'
<1>1. Types /\ OneWriter /\ Blocked /\ OnPath
  BY DEF IInv
<1>. DEFINE l == on(g)
<1>2. /\ next(g, "Lock") /\ UNCHANGED <<deadline, readers, blocked>>
      /\ writer[l] = {} /\ writer' = [writer EXCEPT ![l] = {g}]
  BY DEF Announce, fixed
<1>3. PICK b \in Holding, c \in Holding :
          /\ Path(todo[g], b, Free) /\ Agrees(g, b)
          /\ Takes(<<"Lock", l>>, b, c) /\ Path(Tail(todo[g]), c, Free)
  BY <1>2, LockInstruction
<1>4. l \in Lock /\ <<>> \o Tail(todo[g]) = Tail(todo[g])
  BY <1>2, LockInstruction
<1>5. OneWriter' /\ g \in writer'[l]
  BY <1>1, <1>2, <1>4 DEF Types, OneWriter
<1>6. CASE readers[l] = {}
  <2>1. todo' = [todo EXCEPT ![g] = Tail(todo[g])]
    BY <1>4, <1>6 DEF Announce, done, go
  <2>. QED  BY <1>2, <1>3, <1>5, <2>1, LockedStep
<1>7. CASE readers[l] # {}
  <2>1. UNCHANGED todo
    BY <1>7 DEF Announce
  <2>2. Types' /\ Blocked'
    BY <1>1, <1>2, <1>4, <2>1 DEF Types, Blocked, next, on, Idle
  <2>3. OnPath'
    <3>1. SUFFICES ASSUME NEW h \in Goroutine
                   PROVE  \E x \in Holding : Path(todo'[h], x, Free) /\ Agrees(h, x)'
      BY DEF OnPath
    <3>2. CASE h = g
      <4>1. b[l] = "free"
        BY <1>3 DEF Takes
      <4>2. next(g, "Lock")' /\ on(g)' = l
        BY <1>2, <2>1 DEF next, on, Idle
      <4>3. ASSUME NEW k \in Lock
            PROVE  /\ b[k] = "r" <=> g \in readers'[k]
                   /\ b[k] = "w" => g \in writer'[k]
                   /\ g \in writer'[k] /\ b[k] # "w" => next(g, "Lock")' /\ on(g)' = k
        <5>1. CASE k = l
          BY <1>2, <1>3, <1>5, <4>1, <4>2, <5>1 DEF Agrees
        <5>2. CASE k # l
          <6>1. writer'[k] = writer[k]
            BY <1>1, <1>2, <5>2 DEF Types
          <6>. QED  BY <1>2, <1>3, <4>2, <6>1 DEF Agrees
        <5>. QED  BY <5>1, <5>2
      <4>4. Agrees(g, b)'
        BY <4>3 DEF Agrees
      <4>. QED  BY <1>3, <2>1, <3>2, <4>4
    <3>3. CASE h # g
      <4>1. PICK x \in Holding : Path(todo[h], x, Free) /\ Agrees(h, x)
        BY <1>1 DEF OnPath
      <4>2. \A k \in Lock : h \in writer'[k] <=> h \in writer[k]
        BY <1>1, <1>2, <3>3 DEF Types
      <4>3. Agrees(h, x)'
        BY <1>2, <2>1, <4>1, <4>2, AgreesKept
      <4>. QED  BY <2>1, <4>1, <4>3
    <3>. QED  BY <3>2, <3>3
  <2>. QED  BY <1>5, <2>2, <2>3 DEF IInv
<1>. QED  BY <1>6, <1>7

LEMMA AcquireStep == ASSUME IInv, NEW g \in Goroutine, Acquire(g) PROVE IInv'
<1>1. OneWriter
  BY DEF IInv
<1>2. next(g, "Lock") /\ writer[on(g)] = {g} /\ UNCHANGED <<deadline, readers, writer, blocked>>
  BY DEF Acquire, fixed, lockVars
<1>3. PICK b \in Holding, c \in Holding :
          /\ Agrees(g, b) /\ Takes(<<"Lock", on(g)>>, b, c) /\ Path(Tail(todo[g]), c, Free)
  BY <1>2, LockInstruction
<1>4. todo' = [todo EXCEPT ![g] = Tail(todo[g])]
  BY <1>2, LockInstruction DEF Acquire, done, go
<1>5. OneWriter'
  BY <1>1, <1>2 DEF OneWriter
<1>. QED  BY <1>2, <1>3, <1>4, <1>5, LockedStep

LEMMA UnlockStep == ASSUME IInv, NEW g \in Goroutine, Unlock(g) PROVE IInv'
<1>1. Types /\ OneWriter /\ Blocked /\ OnPath
  BY DEF IInv
<1>. DEFINE l == on(g)
<1>2. next(g, "Unlock") /\ UNCHANGED deadline
  BY DEF Unlock, fixed
<1>3. PICK b \in Holding, c \in Holding :
          /\ Agrees(g, b) /\ Takes(<<"Unlock", l>>, b, c) /\ Path(Tail(todo[g]), c, Free)
  BY <1>2, LockInstruction
<1>4. l \in Lock /\ todo[g] \in Seq(Instruction) /\ todo[g] # <<>>
  BY <1>2, LockInstruction DEF next, Idle
<1>5. /\ writer' = [writer EXCEPT ![l] = {}]
      /\ readers' = [readers EXCEPT ![l] = @ \cup blocked[l]]
      /\ blocked' = [blocked EXCEPT ![l] = {}]
      /\ todo' = [h \in Goroutine |-> IF h = g \/ h \in blocked[l] THEN Tail(todo[h]) ELSE todo[h]]
  BY DEF Unlock
<1>6. c = [b EXCEPT ![l] = "free"] /\ b[l] = "w"
  BY <1>3 DEF Takes
<1>7. \A k \in Lock : b[k] = "w" <=> g \in writer[k]
  BY <1>2, <1>3, NotLocking DEF next
<1>8. writer[l] = {g} /\ \A k \in Lock : g \notin blocked[k]
  BY <1>1, <1>2, <1>4, <1>6, <1>7, NotBlocked DEF OneWriter, next
<1>9. \A h \in blocked[l] : h \in Goroutine /\ next(h, "RLock") /\ on(h) = l
  BY <1>1, <1>4 DEF Blocked, Types
<1>. HIDE DEF l
<1>10. Types'
  <2>1. todo' \in [Goroutine -> Seq(Instruction)]
    <3>1. \A h \in blocked[l] : todo[h] # <<>>
      BY <1>9 DEF next, Idle
    <3>2. ASSUME NEW h \in Goroutine, h = g \/ h \in blocked[l]
          PROVE  Tail(todo[h]) \in Seq(Instruction)
      BY <1>1, <1>4, <3>1, <3>2 DEF Types
    <3>. QED  BY <1>1, <1>5, <3>2 DEF Types
  <2>2. /\ writer' \in [Lock -> SUBSET Goroutine] /\ readers' \in [Lock -> SUBSET Goroutine]
        /\ blocked' \in [Lock -> SUBSET Goroutine]
    BY <1>1, <1>4, <1>5 DEF Types
  <2>. QED  BY <1>1, <1>2, <2>1, <2>2 DEF Types
<1>11. OneWriter'
  BY <1>1, <1>4, <1>5 DEF OneWriter, Types
<1>12. Blocked'
  <2>1. ASSUME NEW k \in Lock, NEW h \in blocked'[k] PROVE next(h, "RLock")' /\ on(h)' = k
    <3>1. k # l /\ h \in blocked[k] /\ h \in Goroutine
      BY <1>1, <1>4, <1>5, <2>1 DEF Types
    <3>2. next(h, "RLock") /\ on(h) = k /\ h # g /\ h \notin blocked[l]
      BY <1>1, <1>8, <1>9, <3>1 DEF Blocked
    <3>3. todo'[h] = todo[h]
      BY <1>5, <3>1, <3>2
    <3>. QED  BY <3>2, <3>3 DEF next, on, Idle
  <2>. QED  BY <2>1 DEF Blocked
<1>13. OnPath'
  <2>1. SUFFICES ASSUME NEW h \in Goroutine
                 PROVE  \E x \in Holding : Path(todo'[h], x, Free) /\ Agrees(h, x)'
    BY DEF OnPath
  <2>2. CASE h = g
    <3>1. todo'[h] = Tail(todo[g])
      BY <1>5, <2>2
    <3>2. ASSUME NEW k \in Lock
          PROVE  (c[k] = "r" <=> g \in readers'[k]) /\ (c[k] = "w" <=> g \in writer'[k])
      <4>1. CASE k = l
        <5>1. c[k] = "free" /\ g \notin writer'[k]
          BY <1>1, <1>4, <1>5, <1>6, <4>1 DEF Types, Holding
        <5>2. g \notin readers[l] /\ g \notin blocked[l]
          BY <1>3, <1>4, <1>6, <1>8 DEF Agrees
        <5>3. readers'[l] = readers[l] \cup blocked[l]
          BY <1>1, <1>4, <1>5 DEF Types
        <5>. QED  BY <4>1, <5>1, <5>2, <5>3
      <4>2. CASE k # l
        BY <1>1, <1>3, <1>4, <1>5, <1>6, <1>7, <4>2 DEF Types, Holding, Agrees
      <4>. QED  BY <4>1, <4>2
    <3>3. Agrees(g, c)'
      BY <3>2 DEF Agrees
    <3>. QED  BY <1>3, <2>2, <3>1, <3>3
  <2>3. CASE h \in blocked[l]
    <3>1. h # g /\ next(h, "RLock") /\ on(h) = l /\ todo'[h] = Tail(todo[h])
      BY <1>5, <1>8, <1>9, <2>3, <1>4
    <3>2. PICK x \in Holding, y \in Holding :
              /\ Agrees(h, x) /\ Takes(<<"RLock", l>>, x, y) /\ Path(Tail(todo[h]), y, Free)
      BY <3>1, LockInstruction
    <3>3. y = [x EXCEPT ![l] = "r"] /\ x[l] = "free"
      BY <3>2 DEF Takes
    <3>4. \A k \in Lock : x[k] = "w" <=> h \in writer[k]
      BY <3>1, <3>2, NotLocking DEF next
    <3>5. ASSUME NEW k \in Lock
          PROVE  (y[k] = "r" <=> h \in readers'[k]) /\ (y[k] = "w" <=> h \in writer'[k])
      <4>1. CASE k = l
        <5>1. y[k] = "r" /\ h \notin writer'[k]
          BY <1>1, <1>4, <1>5, <3>3, <4>1 DEF Types, Holding
        <5>2. readers'[l] = readers[l] \cup blocked[l]
          BY <1>1, <1>4, <1>5 DEF Types
        <5>. QED  BY <2>3, <4>1, <5>1, <5>2
      <4>2. CASE k # l
        BY <1>1, <1>4, <1>5, <3>2, <3>3, <3>4, <4>2 DEF Types, Holding, Agrees
      <4>. QED  BY <4>1, <4>2
    <3>6. Agrees(h, y)'
      BY <3>5 DEF Agrees
    <3>. QED  BY <3>1, <3>2, <3>6
  <2>4. CASE h # g /\ h \notin blocked[l]
    <3>1. PICK x \in Holding : Path(todo[h], x, Free) /\ Agrees(h, x)
      BY <1>1 DEF OnPath
    <3>2. todo'[h] = todo[h]
      BY <1>5, <2>4
    <3>3. \A k \in Lock : (h \in readers'[k] <=> h \in readers[k])
                         /\ (h \in writer'[k] <=> h \in writer[k])
      BY <1>1, <1>4, <1>5, <1>8, <2>4 DEF Types
    <3>4. Agrees(h, x)'
      BY <3>1, <3>2, <3>3, AgreesKept
    <3>. QED  BY <3>1, <3>2, <3>4
  <2>. QED  BY <2>2, <2>3, <2>4
<1>. QED  BY <1>10, <1>11, <1>12, <1>13 DEF IInv

-----------------------------------------------------------------------------

\* Every step of every goroutine keeps to its path.
LEMMA IStep ==
    ASSUME QuietRemoval, IInv, [Next]_vars
    PROVE  IInv'
<1>. USE DEF fixed, lockVars
<1>1. Types /\ OneWriter /\ Blocked /\ OnPath
  BY DEF IInv
<1>2. Free \in Holding /\ <<>> \in Seq(Instruction)
  BY Instructions
<1>3. \A b \in Holding : Path(<<>>, b, b)
  BY PathEmpty
<1>4. ASSUME NEW g \in Goroutine, next(g, "do"), done(g),
             UNCHANGED <<deadline, readers, writer, blocked>>
      PROVE  IInv'
  BY <1>2, <1>3, <1>4, GoStep DEF done
<1>5. ASSUME NEW g \in Goroutine, Listen(g) PROVE IInv'
  <2>1. next(g, "listener") /\ UNCHANGED <<deadline, readers, writer, blocked>>
    BY <1>5 DEF Listen
  <2>2. CASE done(g)
    BY <1>2, <1>3, <2>1, <2>2, GoStep DEF done
  <2>3. CASE ~done(g)
    <3>1. PICK method \in MayCall[deadline][on(g)] : go(g, body(method))
      BY <1>5, <2>3 DEF Listen
    <3>2. Head(todo[g]) \in Instruction /\ Head(todo[g])[1] = "listener" /\ on(g) = Head(todo[g])[2]
      BY <1>1, <2>1 DEF Types, next, Idle, on
    <3>3. on(g) \in Listener /\ on(g) # "OnPeerDisconnected"
      BY <1>1, <3>1, <3>2 DEF QuietRemoval, Types, Instruction
    <3>4. method \in Method
      BY <1>1, <3>1, <3>3, CallbacksAssumption DEF Types, Method
    <3>5. Path(body(method), Free, Free)
      BY <3>4, PathMethod
    <3>6. body(method) \in Seq(Instruction)
      BY <3>5 DEF Path
    <3>7. \A b \in Holding : Takes(Head(todo[g]), b, b) => Path(body(method), b, b)
      BY <3>2, <3>3, <3>5 DEF Takes
    <3>. QED  BY <2>1, <3>1, <3>6, <3>7, GoStep
  <2>. QED  BY <2>2, <2>3
<1>6. ASSUME NEW g \in Goroutine, Stops(g) PROVE IInv'
  <2>1. next(g, "do") /\ on(g) = "stop" /\ UNCHANGED <<deadline, readers, writer, blocked>>
    BY <1>6 DEF Stops
  <2>2. CASE done(g)
    BY <1>4, <2>1, <2>2
  <2>3. CASE go(g, sweepAndWait)
    <3>1. Head(todo[g])[1] = "do" /\ Head(todo[g])[2] = "stop"
      BY <2>1 DEF next, on
    <3>2. \A b \in Holding : Takes(Head(todo[g]), b, b) => Path(sweepAndWait, b, b)
      BY <3>1, PathSweep DEF Takes
    <3>3. sweepAndWait \in Seq(Instruction)
      <4>1. Path(sweepAndWait, Free, Free)
        BY <1>2, PathSweep, Instructions DEF Free
      <4>. QED  BY <4>1 DEF Path
    <3>. QED  BY <2>1, <2>3, <3>2, <3>3, GoStep
  <2>. QED  BY <1>6, <2>2, <2>3 DEF Stops
<1>7. ASSUME NEW g \in Goroutine, Add(g) \/ Starts(g) \/ Waits(g) \/ Disconnects(g) \/ Returns(g)
      PROVE  IInv'
  BY <1>4, <1>7 DEF Add, Starts, Waits, Disconnects, Returns
<1>8. ASSUME NEW g \in Goroutine, Step(g) PROVE IInv'
  BY <1>5, <1>6, <1>7, <1>8, RLockStep, RUnlockStep, AnnounceStep, AcquireStep, UnlockStep DEF Step
<1>9. ASSUME NEW g \in Goroutine, NEW instructions, Path(instructions, Free, Free),
             begin(g, instructions)
      PROVE  IInv'
  BY <1>9, BeginStep
<1>10. Caller \subseteq Goroutine /\ Loop \subseteq Goroutine /\ Health \in Goroutine
       /\ Handler \subseteq Goroutine
  BY DEF Goroutine
<1>11. ASSUME NEW c \in Caller, Call(c) PROVE IInv'
  <2>1. PICK method \in Method : begin(c, body(method))
    BY <1>11 DEF Call, Method, body
  <2>. QED  BY <1>9, <1>10, <2>1, PathMethod
<1>12. ASSUME NEW g \in Loop, Dial(g) PROVE IInv'
  BY <1>9, <1>10, <1>12, PathBegin DEF Dial
<1>13. ASSUME Tick PROVE IInv'
  BY <1>9, <1>10, <1>13, PathBegin DEF Tick
<1>14. ASSUME NEW h \in Handler, Receive(h) PROVE IInv'
  BY <1>9, <1>10, <1>14, PathBegin DEF Receive
<1>15. ASSUME UNCHANGED <<deadline, todo, readers, writer, blocked>> PROVE IInv'
  <2>1. Types' /\ OneWriter' /\ Blocked'
    BY <1>1, <1>15 DEF Types, OneWriter, Blocked, next, on, Idle
  <2>2. OnPath'
    <3>1. SUFFICES ASSUME NEW h \in Goroutine
                   PROVE  \E x \in Holding : Path(todo'[h], x, Free) /\ Agrees(h, x)'
      BY DEF OnPath
    <3>2. PICK x \in Holding : Path(todo[h], x, Free) /\ Agrees(h, x)
      BY <1>1 DEF OnPath
    <3>. QED  BY <1>15, <3>2, AgreesKept
  <2>. QED  BY <2>1, <2>2 DEF IInv
<1>16. ASSUME NEW g, LoopReturns(g) PROVE IInv'
  BY <1>15, <1>16 DEF LoopReturns
<1>17. CASE UNCHANGED vars
  BY <1>15, <1>17 DEF vars
<1>. QED  BY <1>8, <1>11, <1>12, <1>13, <1>14, <1>16, <1>17 DEF Next

\* A goroutine that asks for a lock holds neither this one nor a later one, for any
\* number of goroutines and whatever the listeners call back, if OnPeerDisconnected
\* calls nothing (client.go:95-123, manager.go:93-95).
THEOREM LocksInOrder ==
    ASSUME QuietRemoval
    PROVE  Spec => []LockOrder
<1>1. IInv => LockOrder
  <2>. SUFFICES ASSUME IInv, NEW g \in Goroutine, NEW l \in Lock,
                       next(g, "Lock") \/ next(g, "RLock"), on(g) = l
                PROVE  ~holds(g, l) /\ ~holds(g, "peersMu")
    BY DEF LockOrder
  <2>1. PICK b \in Holding, c \in Holding :
            Agrees(g, b) /\ (Takes(<<"Lock", l>>, b, c) \/ Takes(<<"RLock", l>>, b, c))
    BY LockInstruction
  <2>2. b[l] = "free" /\ b["peersMu"] = "free" /\ "peersMu" \in Lock
    BY <2>1, Instructions DEF Takes
  <2>. QED  BY <2>1, <2>2 DEF Agrees, holds
<1>2. IInv /\ [Next]_vars => IInv'
  BY IStep
<1>. QED  BY <1>1, <1>2, Initially, PTL DEF Spec

-----------------------------------------------------------------------------
(* The rest of the type: the loops, and what the writer of a lock and its       *)
(* readers have to do with each other.                                          *)

Flags ==
    /\ turns \in [Goroutine -> Nat] /\ alive \subseteq Loop \cup {Health}
    /\ started \in BOOLEAN /\ stopping \in BOOLEAN

asks(g, l) == next(g, "Lock") /\ on(g) = l

\* A writer that is past its Lock is alone.
Exclusive == \A l \in Lock : \A g \in writer[l] : asks(g, l) \/ readers[l] = {}

\* Readers wait for a writer.
Waiting == \A l \in Lock : blocked[l] # {} => writer[l] # {}

TInv == IInv /\ Flags /\ Exclusive /\ Waiting

LEMMA TypesFirst == Init => TInv
<1>. QED  BY Initially, CallbacksAssumption DEF Init, TInv, Flags, Exclusive, Waiting

\* Lock by lock: its writer is alone, or was one before and had nothing to do with the
\* step, or had its lock.
LEMMA ExclusiveKept ==
    ASSUME Exclusive,
           \A l \in Lock : \A h \in writer'[l] :
               \/ readers'[l] = {} \/ asks(h, l)'
               \/ /\ h \in writer[l] /\ readers'[l] \subseteq readers[l]
                  /\ ~asks(h, l) \/ todo'[h] = todo[h]
    PROVE  Exclusive'
<1>1. ASSUME NEW l \in Lock, NEW h \in writer'[l], readers'[l] # {}, ~asks(h, l)'
      PROVE  FALSE
  <2>1. /\ h \in writer[l] /\ readers'[l] \subseteq readers[l]
        /\ ~asks(h, l) \/ todo'[h] = todo[h]
    BY <1>1
  <2>2. asks(h, l)
    BY <1>1, <2>1 DEF Exclusive
  <2>. QED  BY <1>1, <2>1, <2>2 DEF asks, next, on, Idle
<1>. QED  BY <1>1 DEF Exclusive

\* The locks stay as they are, and no one asks for one but who waits for it already.
LEMMA LocksStay ==
    ASSUME TInv, UNCHANGED <<readers, writer, blocked>>, NEW g \in Goroutine,
           ~next(g, "Lock"), \A h \in Goroutine \ {g} : todo'[h] = todo[h]
    PROVE  Exclusive' /\ Waiting'
<1>1. Types /\ Exclusive /\ Waiting
  BY DEF TInv, IInv
<1>2. ASSUME NEW l \in Lock, NEW h \in writer'[l]
      PROVE  /\ h \in writer[l] /\ readers'[l] \subseteq readers[l]
             /\ ~asks(h, l) \/ todo'[h] = todo[h]
  BY <1>1 DEF Types, asks
<1>. QED  BY <1>1, <1>2, ExclusiveKept DEF Waiting

LEMMA TRLockStep ==
    ASSUME TInv, NEW g \in Goroutine, RLock(g)
    PROVE  Exclusive' /\ Waiting'
<1>. DEFINE l == on(g)
<1>1. IInv /\ Types /\ Exclusive /\ Waiting
  BY DEF TInv, IInv
<1>2. next(g, "RLock") /\ ~next(g, "Lock") /\ UNCHANGED writer
  BY DEF RLock, next
<1>3. l \in Lock /\ <<>> \o Tail(todo[g]) = Tail(todo[g])
  BY <1>1, <1>2, LockInstruction
<1>. HIDE DEF l
<1>4. CASE writer[l] = {}
  <2>1. /\ readers' = [readers EXCEPT ![l] = @ \cup {g}] /\ UNCHANGED blocked
        /\ todo' = [todo EXCEPT ![g] = Tail(todo[g])]
    BY <1>3, <1>4 DEF RLock, done, go, l
  <2>2. ASSUME NEW k \in Lock, NEW h \in writer'[k]
        PROVE  /\ h \in writer[k] /\ readers'[k] \subseteq readers[k]
               /\ ~asks(h, k) \/ todo'[h] = todo[h]
    <3>1. k # l
      BY <1>2, <1>4
    <3>. QED  BY <1>1, <1>2, <1>3, <2>1, <3>1 DEF Types, asks
  <2>. QED  BY <1>1, <1>2, <2>1, <2>2, ExclusiveKept DEF Waiting
<1>5. CASE writer[l] # {}
  <2>1. blocked' = [blocked EXCEPT ![l] = @ \cup {g}] /\ UNCHANGED <<readers, todo>>
    BY <1>5 DEF RLock, l
  <2>2. Exclusive'
    BY <1>1, <1>2, <2>1, ExclusiveKept
  <2>3. Waiting'
    BY <1>1, <1>2, <1>5, <2>1 DEF Waiting, Types
  <2>. QED  BY <2>2, <2>3
<1>. QED  BY <1>4, <1>5

LEMMA TRUnlockStep ==
    ASSUME TInv, NEW g \in Goroutine, RUnlock(g)
    PROVE  Exclusive' /\ Waiting'
<1>1. IInv /\ Types /\ Exclusive /\ Waiting
  BY DEF TInv, IInv
<1>2. /\ next(g, "RUnlock") /\ ~next(g, "Lock") /\ UNCHANGED <<writer, blocked>>
      /\ readers' = [readers EXCEPT ![on(g)] = @ \ {g}]
  BY DEF RUnlock, next
<1>3. on(g) \in Lock
  BY <1>1, <1>2, LockInstruction
<1>4. todo' = [todo EXCEPT ![g] = <<>> \o Tail(todo[g])]
  BY DEF RUnlock, done, go
<1>5. ASSUME NEW k \in Lock, NEW h \in writer'[k]
      PROVE  /\ h \in writer[k] /\ readers'[k] \subseteq readers[k]
             /\ ~asks(h, k) \/ todo'[h] = todo[h]
  <2>1. readers'[k] \subseteq readers[k]
    BY <1>1, <1>2, <1>3 DEF Types
  <2>2. ~asks(h, k) \/ todo'[h] = todo[h]
    BY <1>1, <1>2, <1>4 DEF Types, asks
  <2>. QED  BY <1>2, <2>1, <2>2
<1>. QED  BY <1>1, <1>2, <1>5, ExclusiveKept DEF Waiting

LEMMA TAnnounceStep ==
    ASSUME TInv, NEW g \in Goroutine, Announce(g)
    PROVE  Exclusive' /\ Waiting'
<1>1. IInv /\ Types /\ Exclusive /\ Waiting
  BY DEF TInv, IInv
<1>2. PICK l \in Lock : l = on(g)
  BY <1>1, LockInstruction DEF Announce
<1>3. /\ next(g, "Lock") /\ UNCHANGED <<readers, blocked>>
      /\ writer[l] = {} /\ writer' = [writer EXCEPT ![l] = {g}]
      /\ IF readers[l] = {} THEN done(g) ELSE UNCHANGED todo
  BY <1>2 DEF Announce
<1>4. \A h \in Goroutine \ {g} : todo'[h] = todo[h]
  BY <1>1, <1>3 DEF Types, done, go
<1>5. writer'[l] = {g} /\ \A k \in Lock \ {l} : writer'[k] = writer[k]
  BY <1>1, <1>2, <1>3 DEF Types
<1>6. ASSUME NEW k \in Lock, NEW h \in writer'[k]
      PROVE  \/ readers'[k] = {} \/ asks(h, k)'
             \/ /\ h \in writer[k] /\ readers'[k] \subseteq readers[k]
                /\ ~asks(h, k) \/ todo'[h] = todo[h]
  <2>1. CASE k = l
    <3>1. h = g /\ asks(g, l)
      BY <1>2, <1>3, <1>5, <1>6, <2>1 DEF asks
    <3>2. CASE readers[l] = {}
      BY <1>3, <2>1, <3>2
    <3>3. CASE readers[l] # {}
      <4>1. asks(g, l)'
        BY <1>3, <3>1, <3>3 DEF asks, next, on, Idle
      <4>. QED  BY <2>1, <3>1, <4>1
    <3>. QED  BY <3>2, <3>3
  <2>2. CASE k # l
    <3>1. h \in writer[k]
      BY <1>5, <1>6, <2>2
    <3>2. ~asks(h, k) \/ todo'[h] = todo[h]
      <4>1. h = g => ~asks(h, k)
        BY <1>2, <2>2 DEF asks
      <4>2. h \in Goroutine
        BY <1>1, <3>1 DEF Types
      <4>. QED  BY <1>4, <4>1, <4>2
    <3>. QED  BY <1>3, <3>1, <3>2
  <2>. QED  BY <2>1, <2>2
<1>7. Exclusive'
  BY <1>1, <1>6, ExclusiveKept
<1>8. Waiting'
  BY <1>1, <1>3, <1>5 DEF Waiting
<1>. QED  BY <1>7, <1>8

LEMMA TAcquireStep ==
    ASSUME TInv, NEW g \in Goroutine, Acquire(g)
    PROVE  Exclusive' /\ Waiting'
<1>1. IInv /\ Types /\ Exclusive /\ Waiting
  BY DEF TInv, IInv
<1>2. /\ readers[on(g)] = {} /\ UNCHANGED <<readers, writer, blocked>> /\ done(g)
  BY DEF Acquire, lockVars
<1>3. ASSUME NEW k \in Lock, NEW h \in writer'[k]
      PROVE  \/ readers'[k] = {}
             \/ /\ h \in writer[k] /\ readers'[k] \subseteq readers[k]
                /\ ~asks(h, k) \/ todo'[h] = todo[h]
  <2>1. CASE k = on(g)
    BY <1>2, <2>1
  <2>2. CASE k # on(g)
    BY <1>1, <1>2, <1>3, <2>2 DEF Types, asks, done, go
  <2>. QED  BY <2>1, <2>2
<1>. QED  BY <1>1, <1>2, <1>3, ExclusiveKept DEF Waiting

LEMMA TUnlockStep ==
    ASSUME TInv, NEW g \in Goroutine, Unlock(g)
    PROVE  Exclusive' /\ Waiting'
<1>. DEFINE l == on(g)
<1>1. IInv /\ Types /\ Exclusive /\ Waiting /\ Blocked
  BY DEF TInv, IInv
<1>2. /\ next(g, "Unlock") /\ ~next(g, "Lock")
      /\ writer' = [writer EXCEPT ![l] = {}]
      /\ readers' = [readers EXCEPT ![l] = @ \cup blocked[l]]
      /\ blocked' = [blocked EXCEPT ![l] = {}]
      /\ todo' = [h \in Goroutine |-> IF h = g \/ h \in blocked[l] THEN Tail(todo[h]) ELSE todo[h]]
  BY DEF Unlock, next
<1>3. l \in Lock
  BY <1>1, <1>2, LockInstruction
<1>. HIDE DEF l
<1>4. /\ writer'[l] = {} /\ blocked'[l] = {}
      /\ \A k \in Lock \ {l} : /\ writer'[k] = writer[k] /\ readers'[k] = readers[k]
                               /\ blocked'[k] = blocked[k]
  BY <1>1, <1>2, <1>3 DEF Types
<1>5. ASSUME NEW k \in Lock, NEW h \in writer'[k]
      PROVE  /\ h \in writer[k] /\ readers'[k] \subseteq readers[k]
             /\ ~asks(h, k) \/ todo'[h] = todo[h]
  <2>1. k # l
    BY <1>4, <1>5
  <2>2. h \in Goroutine
    BY <1>1, <1>4, <1>5, <2>1 DEF Types
  <2>3. h \in blocked[l] => ~next(h, "Lock")
    BY <1>1, <1>3 DEF Blocked, next
  <2>4. ~asks(h, k) \/ todo'[h] = todo[h]
    BY <1>2, <2>2, <2>3 DEF asks
  <2>. QED  BY <1>4, <1>5, <2>1, <2>4
<1>6. Exclusive'
  BY <1>1, <1>5, ExclusiveKept
<1>7. Waiting'
  BY <1>1, <1>4 DEF Waiting
<1>. QED  BY <1>6, <1>7

\* The loops that are alive, and what goroutines may still begin.
LEMMA FlagsStep ==
    ASSUME TInv, [Next]_vars
    PROVE  Flags'
<1>1. Flags
  BY DEF TInv
<1>2. CASE UNCHANGED <<turns, alive, started, stopping>>
  BY <1>1, <1>2 DEF Flags
<1>3. ASSUME NEW g \in Goroutine, NEW instructions, begin(g, instructions) PROVE Flags'
  BY <1>1, <1>3 DEF Flags, begin, runVars
<1>4. ASSUME NEW g \in Goroutine, Step(g) PROVE Flags'
  <2>. USE DEF fixed, runVars, lockVars
  <2>1. CASE RLock(g) \/ RUnlock(g) \/ Announce(g) \/ Acquire(g) \/ Unlock(g) \/ Listen(g)
             \/ Disconnects(g)
    BY <1>2, <2>1 DEF RLock, RUnlock, Announce, Acquire, Unlock, Listen, Disconnects
  <2>2. CASE Add(g) \/ Starts(g) \/ Stops(g) \/ Waits(g) \/ Returns(g)
    BY <1>1, <2>2 DEF Flags, Add, Starts, Stops, Waits, Returns
  <2>. QED  BY <1>4, <2>1, <2>2 DEF Step
<1>5. Caller \subseteq Goroutine /\ Loop \subseteq Goroutine /\ Health \in Goroutine
      /\ Handler \subseteq Goroutine
  BY DEF Goroutine
<1>6. ASSUME NEW c \in Caller, Call(c) PROVE Flags'
  BY <1>3, <1>5, <1>6 DEF Call
<1>7. ASSUME NEW g \in Loop, Dial(g) PROVE Flags'
  BY <1>3, <1>5, <1>7 DEF Dial
<1>8. ASSUME Tick PROVE Flags'
  BY <1>3, <1>5, <1>8 DEF Tick
<1>9. ASSUME NEW h \in Handler, Receive(h) PROVE Flags'
  BY <1>3, <1>5, <1>9 DEF Receive
<1>10. ASSUME NEW g, LoopReturns(g) PROVE Flags'
  BY <1>1, <1>10 DEF LoopReturns, Flags, fixed
<1>11. CASE UNCHANGED vars
  BY <1>2, <1>11 DEF vars, fixed, runVars
<1>. QED  BY <1>4, <1>6, <1>7, <1>8, <1>9, <1>10, <1>11 DEF Next

LEMMA LocksStep ==
    ASSUME TInv, [Next]_vars
    PROVE  Exclusive' /\ Waiting'
<1>. USE DEF lockVars
<1>1. Types /\ Exclusive /\ Waiting
  BY DEF TInv, IInv
<1>2. ASSUME NEW g \in Goroutine, ~next(g, "Lock"), NEW s,
             todo' = [todo EXCEPT ![g] = s], UNCHANGED <<readers, writer, blocked>>
      PROVE  Exclusive' /\ Waiting'
  BY <1>1, <1>2, LocksStay DEF Types
<1>3. ASSUME NEW g \in Goroutine, NEW instructions, begin(g, instructions)
      PROVE  Exclusive' /\ Waiting'
  BY <1>2, <1>3 DEF begin, next
<1>4. ASSUME NEW g \in Goroutine, Step(g) PROVE Exclusive' /\ Waiting'
  <2>1. CASE Listen(g) \/ Add(g) \/ Starts(g) \/ Stops(g) \/ Waits(g) \/ Disconnects(g) \/ Returns(g)
    <3>1. next(g, "listener") \/ next(g, "do")
      BY <2>1 DEF Listen, Add, Starts, Stops, Waits, Disconnects, Returns
    <3>2. UNCHANGED <<readers, writer, blocked>> /\ \E instructions : go(g, instructions)
      BY <2>1 DEF Listen, Add, Starts, Stops, Waits, Disconnects, Returns, done
    <3>. QED  BY <1>2, <3>1, <3>2 DEF go, next
  <2>. QED  BY <1>4, <2>1, TRLockStep, TRUnlockStep, TAnnounceStep, TAcquireStep, TUnlockStep
            DEF Step
<1>5. Caller \subseteq Goroutine /\ Loop \subseteq Goroutine /\ Health \in Goroutine
      /\ Handler \subseteq Goroutine
  BY DEF Goroutine
<1>6. ASSUME NEW c \in Caller, Call(c) PROVE Exclusive' /\ Waiting'
  BY <1>3, <1>5, <1>6 DEF Call
<1>7. ASSUME NEW g \in Loop, Dial(g) PROVE Exclusive' /\ Waiting'
  BY <1>3, <1>5, <1>7 DEF Dial
<1>8. ASSUME Tick PROVE Exclusive' /\ Waiting'
  BY <1>3, <1>5, <1>8 DEF Tick
<1>9. ASSUME NEW h \in Handler, Receive(h) PROVE Exclusive' /\ Waiting'
  BY <1>3, <1>5, <1>9 DEF Receive
<1>10. ASSUME UNCHANGED <<todo, readers, writer, blocked>> PROVE Exclusive' /\ Waiting'
  BY <1>1, <1>10 DEF Exclusive, Waiting, asks, next, on, Idle
<1>11. ASSUME NEW g, LoopReturns(g) PROVE Exclusive' /\ Waiting'
  BY <1>10, <1>11 DEF LoopReturns
<1>12. CASE UNCHANGED vars
  BY <1>10, <1>12 DEF vars
<1>. QED  BY <1>4, <1>6, <1>7, <1>8, <1>9, <1>11, <1>12 DEF Next

\* What a goroutine has and what it is about to release.
LEMMA HoldsWhat ==
    ASSUME IInv, NEW g \in Goroutine, NEW l \in Lock
    PROVE  /\ Idle(g) => ~holds(g, l)
           /\ next(g, "Unlock") /\ on(g) = l => g \in writer[l]
           /\ next(g, "RUnlock") /\ on(g) = l => g \in readers[l]
           /\ g \in readers[l] => g \notin writer[l]
<1>1. PICK b \in Holding : Path(todo[g], b, Free) /\ Agrees(g, b)
  BY DEF IInv, OnPath
<1>2. Idle(g) => ~holds(g, l)
  <2>1. SUFFICES ASSUME Idle(g) PROVE ~holds(g, l)
    OBVIOUS
  <2>2. b = Free
    BY <1>1, <2>1, PathEnds DEF Idle
  <2>3. b[l] = "free" /\ ~next(g, "Lock")
    BY <2>1, <2>2 DEF Free, next
  <2>. QED  BY <1>1, <2>3 DEF Agrees, holds
<1>3. ASSUME next(g, "Unlock"), on(g) = l PROVE g \in writer[l]
  <2>1. PICK x \in Holding, y \in Holding : Agrees(g, x) /\ Takes(<<"Unlock", l>>, x, y)
    BY <1>3, LockInstruction
  <2>. QED  BY <2>1 DEF Takes, Agrees
<1>4. ASSUME next(g, "RUnlock"), on(g) = l PROVE g \in readers[l]
  <2>1. PICK x \in Holding, y \in Holding : Agrees(g, x) /\ Takes(<<"RUnlock", l>>, x, y)
    BY <1>4, LockInstruction
  <2>. QED  BY <2>1 DEF Takes, Agrees
<1>5. ASSUME g \in readers[l], g \in writer[l] PROVE FALSE
  <2>1. b[l] = "r" /\ next(g, "Lock") /\ on(g) = l
    BY <1>1, <1>5 DEF Agrees
  <2>2. PICK x \in Holding, y \in Holding : Agrees(g, x) /\ Takes(<<"Lock", l>>, x, y)
    BY <2>1, LockInstruction
  <2>3. x[l] = "free"
    BY <2>2 DEF Takes
  <2>. QED  BY <1>5, <2>2, <2>3 DEF Agrees
<1>. QED  BY <1>2, <1>3, <1>4, <1>5

\* The type of the state and of the locks, for any number of goroutines and whatever
\* the listeners call back, if OnPeerDisconnected calls nothing: a writer that has its
\* lock excludes all others, a lock is released by who holds it, and a method or loop
\* that has come to its end holds none (client.go:95-123, manager.go:236-238).
THEOREM TypeCorrect ==
    ASSUME QuietRemoval
    PROVE  Spec => []TypeOK
<1>1. TInv => TypeOK
  <2>. SUFFICES ASSUME TInv PROVE TypeOK
    OBVIOUS
  <2>1. IInv /\ Types /\ OneWriter /\ Flags /\ Exclusive /\ Waiting
    BY DEF TInv, IInv
  <2>2. ASSUME NEW l \in Lock
        PROVE  /\ Cardinality(writer[l]) <= 1 /\ writer[l] \subseteq Goroutine
               /\ readers[l] \subseteq Goroutine /\ blocked[l] \subseteq Goroutine
               /\ (\E g \in writer[l] : holds(g, l)) => readers[l] = {}
               /\ blocked[l] # {} => writer[l] # {}
               /\ \A g \in Goroutine :
                    /\ Idle(g) => ~holds(g, l)
                    /\ next(g, "Unlock") /\ on(g) = l => g \in writer[l]
                    /\ next(g, "RUnlock") /\ on(g) = l => g \in readers[l]
    <3>1. /\ writer[l] \subseteq Goroutine /\ readers[l] \subseteq Goroutine
          /\ blocked[l] \subseteq Goroutine
      BY <2>1 DEF Types
    <3>2. Cardinality(writer[l]) <= 1
      <4>1. CASE writer[l] = {}
        BY <4>1, FS_EmptySet
      <4>2. CASE writer[l] # {}
        <5>1. PICK g \in writer[l] : TRUE
          BY <4>2
        <5>2. writer[l] = {g}
          BY <2>1, <5>1 DEF OneWriter
        <5>3. Cardinality({g}) = 1
          BY FS_Singleton
        <5>. QED  BY <5>2, <5>3
      <4>. QED  BY <4>1, <4>2
    <3>3. ASSUME NEW g \in writer[l], holds(g, l) PROVE readers[l] = {}
      <4>1. g \notin readers[l]
        BY <2>1, <3>1, HoldsWhat
      <4>2. ~asks(g, l)
        BY <3>3, <4>1 DEF holds, asks
      <4>. QED  BY <2>1, <4>2 DEF Exclusive
    <3>4. blocked[l] # {} => writer[l] # {}
      BY <2>1 DEF Waiting
    <3>. QED  BY <2>1, <3>1, <3>2, <3>3, <3>4, HoldsWhat
  <2>3. \A g \in Goroutine : todo[g] \in Seq(Instruction)
    BY <2>1 DEF Types
  <2>. QED  BY <2>1, <2>2, <2>3 DEF TypeOK, Types, Flags
<1>2. TInv /\ [Next]_vars => TInv'
  BY IStep, FlagsStep, LocksStep DEF TInv
<1>. QED  BY <1>1, <1>2, TypesFirst, PTL DEF Spec

=============================================================================
