--------------------------- MODULE PebbleStoreProofs ---------------------------
(***************************************************************************)
(* What PebbleDB promises for any number of goroutines, any families, keys *)
(* and batches, and any number of crashes: no call uses a closed engine,   *)
(* synced writes are durable, and, if the names of the families hold no    *)
(* NUL byte, it implements Store.                                          *)
(***************************************************************************)
EXTENDS PebbleStore, KeySpaceProofs, FiniteSetTheorems

\* The calls that may use the engine, while they hold p.mu for reading.
Working == {"read", "flush", "put", "commit", "sync"}
Closing == {"flushAndClose", "closeEngine"}

Types ==
    /\ at \in [Thread -> ReadCalls \cup PutCalls \cup CloseCalls \cup {Idle}]
    /\ syncWrites \in BOOLEAN /\ closed \in BOOLEAN /\ engineOpen \in BOOLEAN

\* What p.mu protects: the store is not closed while someone reads, and who closes it
\* is alone.
Guarded ==
    /\ \A t \in Thread : at[t].call \in Working => t \in readers
    /\ \A t \in Thread : at[t].call \in Closing => writer = {t} /\ closed /\ engineOpen
    /\ writer # {} => readers = {}
    /\ readers # {} => ~closed
    /\ ~engineOpen => closed

\* The log is behind only while a call waits for it.
LogFollows ==
    /\ syncWrites /\ Len(versions) # 1 => \E t \in Thread : at[t].call = "sync"
    /\ ~engineOpen => Len(versions) = 1

IInv == Types /\ Guarded /\ LogFollows

-----------------------------------------------------------------------------

LEMMA CallFacts ==
    /\ \A call \in ReadCalls \cup PutCalls : call.call \in Working
    /\ \A call \in ReadCalls \cup PutCalls \cup CloseCalls \cup {Idle} :
           call.call \in Working \cup Closing \cup {"none", "close"}
    /\ Idle.call = "none"
    /\ \A call \in {"close", "none"} : call \notin Working /\ call \notin Closing
    /\ Working \cap Closing = {}
<1>1. \A call \in ReadCalls : call.call \in Working
  BY DEF ReadCalls, Working
<1>2. \A call \in PutCalls : call.call \in Working
  BY DEF PutCalls, Working
<1>3. \A call \in CloseCalls : call.call \in Closing \/ call.call = "close"
  BY DEF CloseCalls, Closing
<1>4. Idle.call = "none"
  BY DEF Idle
<1>5. \A call \in {"close", "none"} : call \notin Working /\ call \notin Closing
  BY DEF Working, Closing
<1>6. Working \cap Closing = {}
  BY DEF Working, Closing
<1>. QED  BY <1>1, <1>2, <1>3, <1>4, <1>5, <1>6

LEMMA Initially == Init => IInv
<1>. SUFFICES ASSUME Init PROVE IInv
  OBVIOUS
<1>1. \A t \in Thread : at[t].call = "none"
  BY DEF Init, Idle
<1>2. Types
  BY DEF Init, Types
<1>3. Guarded
  BY <1>1 DEF Init, Guarded, Working, Closing
<1>4. LogFollows
  BY DEF Init, LogFollows
<1>. QED  BY <1>2, <1>3, <1>4 DEF IInv

\* A goroutine moves on and nothing else that matters changes.
LEMMA Moved ==
    ASSUME Types, NEW t \in Thread, NEW call, at' = [at EXCEPT ![t] = call]
    PROVE  at'[t] = call /\ \A u \in Thread \ {t} : at'[u] = at[u]
BY DEF Types

\* A call that holds the lock for reading leaves.
LEMMA LeaveStep ==
    ASSUME IInv, NEW t \in Thread, at[t].call \in Working, leave(t),
           UNCHANGED <<syncWrites, writer, closed, engineOpen>>
    PROVE  Types' /\ Guarded' /\ engineOpen'
<1>1. /\ at' = [at EXCEPT ![t] = Idle] /\ readers' = readers \ {t}
      /\ Types /\ Guarded
  BY DEF IInv, leave
<1>2. at'[t] = Idle /\ \A u \in Thread \ {t} : at'[u] = at[u]
  BY <1>1, Moved
<1>3. Types'
  BY <1>1 DEF Types
<1>4. t \in readers /\ ~closed /\ engineOpen /\ writer = {}
  BY <1>1 DEF Guarded, Types
<1>5. Guarded'
  BY <1>1, <1>2, <1>4, CallFacts DEF Guarded
<1>. QED  BY <1>3, <1>4, <1>5

\* A call that wrote leaves, or waits for the log.
LEMMA WriteStep ==
    ASSUME IInv, NEW t \in Thread, at[t].call \in {"put", "commit"}, leaveSynced(t),
           UNCHANGED <<syncWrites, writer, closed, engineOpen>>
    PROVE  IInv'
<1>1. CASE ~syncWrites
  <2>1. Types' /\ Guarded' /\ engineOpen'
    BY <1>1, LeaveStep DEF leaveSynced, Working
  <2>. QED  BY <1>1, <2>1 DEF IInv, LogFollows
<1>2. CASE syncWrites
  <2>1. /\ at' = [at EXCEPT ![t] = [call |-> "sync"]] /\ UNCHANGED readers
        /\ Types /\ Guarded
    BY <1>2 DEF IInv, leaveSynced
  <2>2. at'[t] = [call |-> "sync"] /\ \A u \in Thread \ {t} : at'[u] = at[u]
    BY <2>1, Moved
  <2>3. Types'
    BY <2>1 DEF Types, ReadCalls
  <2>4. t \in readers /\ ~closed /\ engineOpen
    BY <2>1 DEF Guarded, Types, Working
  <2>5. at'[t].call \notin Closing
    BY <2>2 DEF Closing
  <2>6. Guarded'
    BY <2>1, <2>2, <2>4, <2>5 DEF Guarded
  <2>7. LogFollows'
    BY <2>2, <2>4 DEF LogFollows
  <2>. QED  BY <2>3, <2>6, <2>7 DEF IInv
<1>. QED  BY <1>1, <1>2 DEF IInv, Types

-----------------------------------------------------------------------------

\* The lock and the log protect the engine in every step.
LEMMA IStep == IInv /\ [Next]_vars => IInv'
<1>. SUFFICES ASSUME IInv, [Next]_vars PROVE IInv'
  OBVIOUS
<1>. USE DEF dbVars, lockVars
<1>1. Types /\ Guarded /\ LogFollows
  BY DEF IInv
<1>2. ASSUME persist PROVE Len(versions') = 1
  BY <1>2 DEF persist
<1>3. ASSUME NEW t \in Thread, Call(t) PROVE IInv'
  <2>1. PICK call \in ReadCalls \cup PutCalls : Enter(t, call)
    BY <1>3 DEF Call, ReadCalls
  <2>2. /\ at[t] = Idle /\ writer = {} /\ ~closed
        /\ readers' = readers \cup {t} /\ at' = [at EXCEPT ![t] = call]
        /\ UNCHANGED <<syncWrites, writer, closed, engineOpen, versions>>
    BY <2>1 DEF Enter
  <2>3. at'[t] = call /\ \A u \in Thread \ {t} : at'[u] = at[u]
    BY <1>1, <2>2, Moved
  <2>4. Types'
    BY <1>1, <2>2 DEF Types
  <2>5. Guarded'
    BY <1>1, <2>2, <2>3, CallFacts DEF Guarded
  <2>6. LogFollows'
    <3>1. at[t].call # "sync"
      BY <2>2 DEF Idle
    <3>. QED  BY <1>1, <2>2, <2>3, <3>1 DEF LogFollows
  <2>. QED  BY <2>4, <2>5, <2>6 DEF IInv
<1>4. ASSUME NEW t \in Thread, Read(t) PROVE IInv'
  <2>1. at[t].call \in Working /\ leave(t) /\ at[t].call # "sync"
        /\ UNCHANGED <<syncWrites, writer, closed, engineOpen, versions>>
    BY <1>4 DEF Read, Working
  <2>2. Types' /\ Guarded' /\ engineOpen'
    BY <2>1, LeaveStep
  <2>3. \A u \in Thread \ {t} : at'[u] = at[u]
    BY <1>1, <2>1, Moved DEF leave
  <2>4. LogFollows'
    BY <1>1, <2>1, <2>2, <2>3 DEF LogFollows
  <2>. QED  BY <2>2, <2>4 DEF IInv
<1>5. ASSUME NEW t \in Thread, Put(t) PROVE IInv'
  BY <1>5, WriteStep DEF Put
<1>6. ASSUME NEW t \in Thread, Commit(t) PROVE IInv'
  BY <1>6, WriteStep DEF Commit
<1>7. ASSUME NEW t \in Thread, Synced(t) \/ Flush(t) PROVE IInv'
  <2>1. at[t].call \in Working /\ leave(t) /\ persist
        /\ UNCHANGED <<syncWrites, writer, closed, engineOpen>>
    BY <1>7 DEF Synced, Flush, Working
  <2>2. Types' /\ Guarded'
    BY <2>1, LeaveStep
  <2>. QED  BY <1>2, <2>1, <2>2 DEF IInv, LogFollows
<1>8. ASSUME NEW t \in Thread, BatchStep(t) PROVE IInv'
  <2>1. UNCHANGED <<syncWrites, readers, writer, closed, at, engineOpen, versions>>
    BY <1>8 DEF BatchStep, NewBatch, CloseBatch, Stage
  <2>. QED  BY <1>1, <2>1 DEF IInv, Types, Guarded, LogFollows
<1>9. ASSUME NEW t \in Thread, Close(t) PROVE IInv'
  <2>1. /\ at[t] = Idle /\ at' = [at EXCEPT ![t] = [call |-> "close"]]
        /\ UNCHANGED <<syncWrites, readers, writer, closed, engineOpen, versions>>
    BY <1>9 DEF Close
  <2>2. at'[t] = [call |-> "close"] /\ \A u \in Thread \ {t} : at'[u] = at[u]
    BY <1>1, <2>1, Moved
  <2>3. at'[t].call = "close" /\ at[t].call # "sync"
    BY <2>1, <2>2 DEF Idle
  <2>4. Types'
    BY <1>1, <2>1 DEF Types, CloseCalls
  <2>5. Guarded'
    BY <1>1, <2>1, <2>2, <2>3, CallFacts DEF Guarded
  <2>6. LogFollows'
    BY <1>1, <2>1, <2>2, <2>3 DEF LogFollows
  <2>. QED  BY <2>4, <2>5, <2>6 DEF IInv
<1>10. ASSUME NEW t \in Thread, Locked(t) PROVE IInv'
  <2>1. /\ at[t].call = "close" /\ readers = {} /\ writer = {} /\ writer' = {t}
        /\ UNCHANGED <<syncWrites, readers, engineOpen, versions>>
    BY <1>10 DEF Locked, granted
  <2>2. \A u \in Thread : at[u].call \notin Working /\ at[u].call \notin Closing
    BY <1>1, <2>1 DEF Guarded
  <2>3. CASE closed
    <3>1. UNCHANGED <<closed, at>>
      BY <1>10, <2>3 DEF Locked
    <3>. QED  BY <1>1, <2>1, <2>2, <3>1 DEF IInv, Types, Guarded, LogFollows
  <2>4. CASE ~closed
    <3>1. closed' = TRUE /\ at' = [at EXCEPT ![t] = [call |-> "flushAndClose"]]
      BY <1>10, <2>4 DEF Locked
    <3>2. at'[t] = [call |-> "flushAndClose"] /\ \A u \in Thread \ {t} : at'[u] = at[u]
      BY <1>1, <3>1, Moved
    <3>3. engineOpen
      BY <1>1, <2>4 DEF Guarded
    <3>4. Types'
      BY <1>1, <2>1, <3>1 DEF Types, CloseCalls
    <3>5. Guarded'
      <4>1. at'[t].call \notin Working
        BY <3>2 DEF Working
      <4>2. \A u \in Thread : at'[u].call \notin Working /\ (at'[u].call \in Closing => u = t)
        BY <2>2, <3>2, <4>1
      <4>. QED  BY <2>1, <3>1, <3>3, <4>2 DEF Guarded
    <3>6. LogFollows'
      BY <1>1, <2>1, <3>2, <3>3 DEF LogFollows
    <3>. QED  BY <3>4, <3>5, <3>6 DEF IInv
  <2>. QED  BY <2>3, <2>4
<1>11. ASSUME NEW t \in Thread, ClosedAlready(t) PROVE IInv'
  <2>1. /\ at[t].call = "close" /\ t \in writer /\ writer' = writer \ {t}
        /\ at' = [at EXCEPT ![t] = Idle]
        /\ UNCHANGED <<syncWrites, readers, closed, engineOpen, versions>>
    BY <1>11 DEF ClosedAlready, unlock
  <2>2. at'[t] = Idle /\ \A u \in Thread \ {t} : at'[u] = at[u]
    BY <1>1, <2>1, Moved
  <2>3. \A u \in Thread : at[u].call \notin Closing
    BY <1>1, <2>1, CallFacts DEF Guarded
  <2>4. Types'
    BY <1>1, <2>1 DEF Types
  <2>5. Guarded'
    BY <1>1, <2>1, <2>2, <2>3, CallFacts DEF Guarded
  <2>6. LogFollows'
    BY <1>1, <2>1, <2>2 DEF LogFollows
  <2>. QED  BY <2>4, <2>5, <2>6 DEF IInv
<1>12. ASSUME NEW t \in Thread, CloseFlushes(t) PROVE IInv'
  <2>1. /\ at[t].call = "flushAndClose" /\ at' = [at EXCEPT ![t] = [call |-> "closeEngine"]]
        /\ Len(versions') = 1 \/ versions' = versions
        /\ UNCHANGED <<syncWrites, readers, writer, closed, engineOpen>>
    BY <1>2, <1>12 DEF CloseFlushes
  <2>2. at'[t] = [call |-> "closeEngine"] /\ \A u \in Thread \ {t} : at'[u] = at[u]
    BY <1>1, <2>1, Moved
  <2>3. Types'
    BY <1>1, <2>1 DEF Types, CloseCalls
  <2>4. Guarded'
    <3>1. at[t].call \in Closing /\ at'[t].call \in Closing /\ at'[t].call \notin Working
      BY <2>1, <2>2 DEF Working, Closing
    <3>2. writer = {t} /\ closed /\ engineOpen
      BY <1>1, <3>1 DEF Guarded
    <3>. QED  BY <1>1, <2>1, <2>2, <3>1, <3>2 DEF Guarded
  <2>5. LogFollows'
    BY <1>1, <2>1, <2>2 DEF LogFollows
  <2>. QED  BY <2>3, <2>4, <2>5 DEF IInv
<1>13. ASSUME NEW t \in Thread, CloseEngine(t) PROVE IInv'
  <2>1. /\ at[t].call = "closeEngine" /\ at' = [at EXCEPT ![t] = Idle]
        /\ writer' = writer \ {t} /\ engineOpen' = FALSE /\ Len(versions') = 1
        /\ UNCHANGED <<syncWrites, readers, closed>>
    BY <1>2, <1>13 DEF CloseEngine, unlock
  <2>2. at'[t] = Idle /\ \A u \in Thread \ {t} : at'[u] = at[u]
    BY <1>1, <2>1, Moved
  <2>3. writer = {t} /\ closed /\ \A u \in Thread \ {t} : at[u].call \notin Closing
    <3>1. at[t].call \in Closing
      BY <2>1 DEF Closing
    <3>2. writer = {t} /\ closed
      BY <1>1, <3>1 DEF Guarded
    <3>3. \A u \in Thread : at[u].call \in Closing => writer = {u}
      BY <1>1 DEF Guarded
    <3>. QED  BY <3>2, <3>3
  <2>4. Types'
    BY <1>1, <2>1 DEF Types
  <2>5. Guarded'
    BY <1>1, <2>1, <2>2, <2>3, CallFacts DEF Guarded
  <2>6. LogFollows'
    BY <2>1 DEF LogFollows
  <2>. QED  BY <2>4, <2>5, <2>6 DEF IInv
<1>14. CASE Crash
  <2>1. /\ readers' = {} /\ writer' = {} /\ closed' = FALSE /\ engineOpen' = TRUE
        /\ at' = [t \in Thread |-> Idle] /\ UNCHANGED syncWrites
        /\ Len(versions') = 1
    BY <1>14 DEF Crash
  <2>2. Types'
    BY <1>1, <2>1 DEF Types
  <2>3. Guarded'
    BY <2>1, CallFacts DEF Guarded
  <2>4. LogFollows'
    BY <2>1 DEF LogFollows
  <2>. QED  BY <2>2, <2>3, <2>4 DEF IInv
<1>15. CASE UNCHANGED vars
  BY <1>1, <1>15 DEF vars, IInv, Types, Guarded, LogFollows
<1>. QED  BY <1>3, <1>4, <1>5, <1>6, <1>7, <1>8, <1>9, <1>10, <1>11, <1>12, <1>13, <1>14, <1>15
          DEF Next, Perform, CloseStep

LEMMA IInvariant == Spec => []IInv
BY Initially, IStep, PTL DEF Spec

-----------------------------------------------------------------------------

\* No call that passed its test of closed finds the engine closed, for any number of
\* goroutines and crashes (pebble.go:33-35, 343-371).
THEOREM EngineIsOpen == Spec => []EngineUsedOpen
<1>1. IInv => EngineUsedOpen
  <2>. SUFFICES ASSUME IInv PROVE EngineUsedOpen
    OBVIOUS
  <2>1. \A t \in Thread : at[t].call \in Working \cup Closing \cup {"none", "close"}
    BY CallFacts DEF IInv, Types
  <2>2. \A t \in Thread : at[t].call \in Working => engineOpen
    BY DEF IInv, Guarded
  <2>3. \A t \in Thread : at[t].call \in Closing => engineOpen
    BY DEF IInv, Guarded
  <2>4. ~engineOpen => closed
    BY DEF IInv, Guarded
  <2>. QED  BY <2>1, <2>2, <2>3, <2>4 DEF EngineUsedOpen
<1>. QED  BY <1>1, IInvariant, PTL

\* With WithSyncWrites a write that has returned survives every crash, and so do all
\* writes once the store is closed (options.go:57-59, db.go:58-59).
THEOREM WritesAreDurable == Spec => []ReturnedWritesAreDurable
<1>1. IInv => ReturnedWritesAreDurable
  BY DEF IInv, LogFollows, ReturnedWritesAreDurable
<1>. QED  BY <1>1, IInvariant, PTL

-----------------------------------------------------------------------------
(* The shape of the state, and the bound on the log. *)

Update == Family \X Key \X (Value \cup {Absent})

\* What is committed is a batch: nothing is staged while it is.
Shape ==
    /\ readers \subseteq Thread /\ writer \subseteq Thread /\ waiting \subseteq Thread
    /\ \A s, t \in writer : s = t
    /\ batch \in [Thread -> [open : BOOLEAN, staged : beginnings]]
    /\ \A t \in Thread : at[t].call = "commit" => batch[t].staged \in Batches
    /\ versions \in Seq(Contents) /\ versions # <<>>
    /\ crashes \in 0..MaxCrashes

\* A call that will write has a place in the log.
Room == Len(versions) + Cardinality(writing) <= MaxUnsynced + 1

LEMMA BatchesTyped ==
    /\ \A b \in Batches : b \in Seq(Update)
    /\ \A u \in Updates : <<u>> \in Seq(Update)
BY PebbleAssumption DEF Update

\* What a write leaves is contents again ...
LEMMA WriteTyped ==
    ASSUME NEW contents \in Contents, NEW updates \in Seq(Update)
    PROVE  write(contents, updates) \in Contents
<1>1. ASSUME NEW raw \in RawKey, NEW i \in latest(updates, raw)
      PROVE  updates[i][3] \in Value \cup {Absent}
  <2>1. updates[i] \in Update
    BY DEF latest
  <2>. QED  BY <2>1 DEF Update
<1>2. ASSUME NEW raw \in RawKey
      PROVE  (IF latest(updates, raw) = {} THEN contents[raw]
              ELSE updates[CHOOSE i \in latest(updates, raw) : TRUE][3]) \in Value \cup {Absent}
  <2>1. CASE latest(updates, raw) = {}
    BY <2>1 DEF Contents
  <2>2. CASE latest(updates, raw) # {}
    BY <1>1, <2>2
  <2>. QED  BY <2>1, <2>2
<1>. QED  BY <1>2 DEF write, Contents

\* ... in a log that is longer by one, or as long as what is durable.
LEMMA LogTyped ==
    ASSUME versions \in Seq(Contents), versions # <<>>
    PROVE  /\ Len(versions) \in Nat /\ Len(versions) >= 1
           /\ Last(versions) \in Contents
           /\ \A i \in DOMAIN versions : versions[i] \in Contents
           /\ persist => versions' \in Seq(Contents) /\ versions' # <<>> /\ Len(versions') = 1
           /\ \A u \in Seq(Update) : apply(u) =>
                /\ versions' \in Seq(Contents) /\ versions' # <<>>
                /\ Len(versions') = Len(versions) + 1
<1>1. Len(versions) \in Nat /\ Len(versions) >= 1
  OBVIOUS
<1>2. Last(versions) \in Contents
  BY <1>1 DEF Last
<1>3. \A i \in DOMAIN versions : versions[i] \in Contents
  OBVIOUS
<1>4. persist => versions' \in Seq(Contents) /\ versions' # <<>> /\ Len(versions') = 1
  BY <1>2 DEF persist
<1>5. ASSUME NEW u \in Seq(Update), apply(u)
      PROVE  /\ versions' \in Seq(Contents) /\ versions' # <<>>
             /\ Len(versions') = Len(versions) + 1
  <2>1. write(Last(versions), u) \in Contents
    BY <1>2, WriteTyped
  <2>. QED  BY <1>5, <2>1, AppendProperties DEF apply
<1>. QED  BY <1>1, <1>2, <1>3, <1>4, <1>5

\* Who will write after a step of one goroutine.
LEMMA WritingMoves ==
    ASSUME Types, IsFiniteSet(Thread), NEW t \in Thread, NEW call,
           at' = [at EXCEPT ![t] = call]
    PROVE  /\ Cardinality(writing) \in Nat /\ Cardinality(writing') \in Nat
           /\ call.call \notin {"put", "commit"} => Cardinality(writing') <= Cardinality(writing)
           /\ call.call \notin {"put", "commit"} /\ t \in writing
                => Cardinality(writing') = Cardinality(writing) - 1
           /\ Cardinality(writing') <= Cardinality(writing) + 1
<1>1. at'[t] = call /\ \A u \in Thread \ {t} : at'[u] = at[u]
  BY Moved
<1>2. IsFiniteSet(writing) /\ IsFiniteSet(writing')
  BY FS_Subset DEF writing
<1>3. Cardinality(writing) \in Nat /\ Cardinality(writing') \in Nat
  BY <1>2, FS_CardinalityType
<1>4. ASSUME call.call \notin {"put", "commit"}
      PROVE  writing' = writing \ {t}
  BY <1>1, <1>4 DEF writing
<1>5. writing' \subseteq writing \cup {t}
  BY <1>1 DEF writing
<1>6. Cardinality(writing \cup {t}) <= Cardinality(writing) + 1 /\ IsFiniteSet(writing \cup {t})
  <2>1. /\ IsFiniteSet(writing \cup {t})
        /\ Cardinality(writing \cup {t}) = IF t \in writing THEN Cardinality(writing)
                                           ELSE Cardinality(writing) + 1
    BY <1>2, FS_AddElement
  <2>. QED  BY <1>3, <2>1
<1>7. Cardinality(writing') <= Cardinality(writing \cup {t}) /\ Cardinality(writing \cup {t}) \in Nat
  BY <1>5, <1>6, FS_Subset, FS_CardinalityType
<1>8. Cardinality(writing \ {t}) = IF t \in writing THEN Cardinality(writing) - 1
                                                    ELSE Cardinality(writing)
  BY <1>2, FS_RemoveElement
<1>9. ASSUME call.call \notin {"put", "commit"}
      PROVE  Cardinality(writing') = IF t \in writing THEN Cardinality(writing) - 1
                                                      ELSE Cardinality(writing)
  BY <1>4, <1>8, <1>9
<1>10. Cardinality(writing') <= Cardinality(writing) + 1
  BY <1>3, <1>6, <1>7
<1>. QED  BY <1>3, <1>9, <1>10

LEMMA ShapeInitially == Init => Shape
<1>. SUFFICES ASSUME Init PROVE Shape
  OBVIOUS
<1>1. [raw \in RawKey |-> Absent] \in Contents
  BY DEF Contents
<1>2. versions \in Seq(Contents) /\ versions # <<>>
  BY <1>1 DEF Init
<1>3. NoBatch \in [open : BOOLEAN, staged : beginnings]
  BY DEF NoBatch, beginnings
<1>4. \A t \in Thread : at[t].call # "commit"
  BY DEF Init, Idle
<1>. QED  BY <1>2, <1>3, <1>4, PebbleAssumption DEF Init, Shape

\* A goroutine goes to a call other than Commit and its batch stays as it is, or it
\* is idle and only its batch changes.
LEMMA ShapeStep == Types /\ Shape /\ [Next]_vars => Shape'
<1>. SUFFICES ASSUME Types, Shape, [Next]_vars PROVE Shape'
  OBVIOUS
<1>. USE DEF dbVars, lockVars
<1>. DEFINE BatchType == [Thread -> [open : BOOLEAN, staged : beginnings]]
<1>1. <<>> \in beginnings /\ \A t \in Thread : batch[t].staged \in beginnings
  BY DEF beginnings, Shape
<1>2. persist => versions' \in Seq(Contents) /\ versions' # <<>>
  BY LogTyped DEF Shape
<1>3. ASSUME NEW t \in Thread, Call(t) PROVE Shape'
  <2>1. PICK call : Enter(t, call) /\ (call.call = "commit" => batch[t].staged \in Batches)
    <3>1. \A call \in {[call |-> "read"], [call |-> "flush"]} \cup PutCalls : call.call # "commit"
      BY DEF PutCalls
    <3>. QED  BY <1>3, <3>1 DEF Call
  <2>2. \A u \in Thread : at'[u].call = "commit" => (u = t /\ call.call = "commit") \/ at'[u] = at[u]
    BY <2>1, Moved DEF Enter
  <2>. QED  BY <2>1, <2>2 DEF Shape, Enter
<1>4. ASSUME NEW t \in Thread, NEW call, at' = [at EXCEPT ![t] = call], call.call # "commit",
             UNCHANGED <<batch, crashes>>, versions' = versions \/ persist,
             readers' \subseteq readers, writer' \subseteq Thread, \A u, v \in writer' : u = v,
             waiting' \subseteq Thread
      PROVE  Shape'
  <2>1. \A u \in Thread : at'[u].call = "commit" => at[u].call = "commit"
    BY <1>4, Moved
  <2>. QED  BY <1>2, <1>4, <2>1 DEF Shape
<1>5. /\ Idle.call # "commit"
      /\ \A call \in CloseCalls \cup ReadCalls : call.call = "commit" => call = [call |-> "commit"]
  BY DEF Idle, CloseCalls, ReadCalls
<1>6. ASSUME NEW t \in Thread, Read(t) \/ Synced(t) \/ Flush(t) PROVE Shape'
  <2>1. /\ at' = [at EXCEPT ![t] = Idle] /\ UNCHANGED <<batch, crashes, writer, waiting>>
        /\ versions' = versions \/ persist
        /\ readers' \subseteq readers
    BY <1>6 DEF Read, Synced, Flush, leave
  <2>. QED  BY <1>4, <1>5, <2>1 DEF Shape
<1>7. ASSUME NEW t \in Thread, Put(t) \/ Commit(t) PROVE Shape'
  <2>1. PICK u \in Seq(Update) : apply(u)
    <3>1. CASE Put(t)
      <4>1. at[t] \in PutCalls
        BY <1>7, <3>1 DEF Types, Put, ReadCalls, CloseCalls, Idle
      <4>2. at[t].update \in Updates
        BY <4>1 DEF PutCalls
      <4>. QED  BY <3>1, <4>2, BatchesTyped DEF Put
    <3>2. CASE Commit(t)
      BY <3>2, BatchesTyped DEF Commit, Shape
    <3>. QED  BY <1>7, <3>1, <3>2
  <2>2. versions' \in Seq(Contents) /\ versions' # <<>>
    BY <2>1, LogTyped DEF Shape
  <2>3. PICK call \in {Idle, [call |-> "sync"]} :
          /\ at' = [at EXCEPT ![t] = call]
          /\ readers' \subseteq readers /\ UNCHANGED <<crashes, writer, waiting>>
    BY <1>7 DEF Put, Commit, leaveSynced, leave
  <2>4. /\ batch' \in BatchType
        /\ \A s \in Thread : s # t => batch'[s] = batch[s]
    <3>1. NoBatch \in [open : BOOLEAN, staged : beginnings]
      BY <1>1 DEF NoBatch
    <3>2. batch' = batch \/ batch' = [batch EXCEPT ![t] = NoBatch]
      BY <1>7 DEF Put, Commit, dropBatch
    <3>. QED  BY <3>1, <3>2 DEF Shape
  <2>5. at'[t].call # "commit" /\ \A s \in Thread : s # t => at'[s] = at[s]
    <3>1. call.call # "commit"
      BY <1>5, <2>3
    <3>. QED  BY <2>3, <3>1, Moved
  <2>6. \A s \in Thread : at'[s].call = "commit" => batch'[s].staged \in Batches
    BY <2>4, <2>5 DEF Shape
  <2>. QED  BY <2>2, <2>3, <2>4, <2>6 DEF Shape
<1>8. ASSUME NEW t \in Thread, BatchStep(t) PROVE Shape'
  <2>1. /\ at[t] = Idle
        /\ UNCHANGED <<readers, writer, waiting, at, versions, crashes>>
    BY <1>8 DEF BatchStep, NewBatch, CloseBatch, Stage
  <2>2. PICK b \in [open : BOOLEAN, staged : beginnings] : batch' = [batch EXCEPT ![t] = b]
    <3>1. NoBatch \in [open : BOOLEAN, staged : beginnings]
      BY <1>1 DEF NoBatch
    <3>2. \A s \in beginnings : [open |-> TRUE, staged |-> s] \in [open : BOOLEAN, staged : beginnings]
      OBVIOUS
    <3>. QED
      BY <1>1, <1>8, <3>1, <3>2 DEF BatchStep, NewBatch, CloseBatch, Stage, openBatch, dropBatch
  <2>3. batch' \in BatchType /\ \A s \in Thread : s # t => batch'[s] = batch[s]
    BY <2>2 DEF Shape
  <2>4. \A s \in Thread : at'[s].call = "commit" => batch'[s].staged \in Batches
    BY <1>5, <2>1, <2>3 DEF Shape
  <2>. QED  BY <2>1, <2>3, <2>4 DEF Shape
<1>9. ASSUME NEW t \in Thread, Close(t) PROVE Shape'
  <2>1. /\ at' = [at EXCEPT ![t] = [call |-> "close"]]
        /\ waiting' \subseteq Thread
        /\ UNCHANGED <<batch, crashes, readers, writer, versions>>
    BY <1>9 DEF Close, Shape
  <2>. QED  BY <1>4, <2>1 DEF Shape
<1>10. ASSUME NEW t \in Thread, CloseStep(t) PROVE Shape'
  <2>1. /\ UNCHANGED <<batch, crashes, readers>> /\ waiting' \subseteq Thread
        /\ writer' = {t} \/ writer' = writer \ {t} \/ writer' = writer
        /\ versions' = versions \/ persist
    BY <1>10 DEF CloseStep, Locked, ClosedAlready, CloseFlushes, CloseEngine, unlock, Shape
  <2>2. \/ at' = at
        \/ \E call \in {Idle, [call |-> "flushAndClose"], [call |-> "closeEngine"]} :
                at' = [at EXCEPT ![t] = call]
    BY <1>10 DEF CloseStep, Locked, ClosedAlready, CloseFlushes, CloseEngine
  <2>3. writer' \subseteq Thread /\ \A u, v \in writer' : u = v
    BY <2>1 DEF Shape
  <2>4. CASE at' = at
    BY <1>2, <2>1, <2>3, <2>4 DEF Shape
  <2>5. ASSUME NEW call \in {Idle, [call |-> "flushAndClose"], [call |-> "closeEngine"]},
               at' = [at EXCEPT ![t] = call]
        PROVE  Shape'
    <3>1. call.call # "commit"
      BY <1>5, <2>5
    <3>. QED  BY <1>4, <2>1, <2>3, <2>5, <3>1
  <2>. QED  BY <2>2, <2>4, <2>5
<1>11. CASE Crash
  <2>1. /\ readers' = {} /\ writer' = {} /\ waiting' = {}
        /\ at' = [t \in Thread |-> Idle] /\ batch' = [t \in Thread |-> NoBatch]
    BY <1>11 DEF Crash
  <2>2. PICK i \in DOMAIN versions : versions' = <<versions[i]>>
    BY <1>11 DEF Crash
  <2>3. versions' \in Seq(Contents) /\ versions' # <<>>
    BY <2>2, LogTyped DEF Shape
  <2>4. crashes' \in 0..MaxCrashes
    BY <1>11, PebbleAssumption DEF Crash, Shape
  <2>5. batch' \in BatchType
    BY <1>1, <2>1 DEF NoBatch
  <2>6. \A t \in Thread : at'[t].call # "commit"
    BY <1>5, <2>1
  <2>. QED  BY <2>1, <2>3, <2>4, <2>5, <2>6 DEF Shape
<1>12. CASE UNCHANGED vars
  BY <1>12 DEF vars, Shape
<1>. QED  BY <1>3, <1>6, <1>7, <1>8, <1>9, <1>10, <1>11, <1>12 DEF Next, Perform

LEMMA RoomInitially == Init => Room
<1>. SUFFICES ASSUME Init PROVE Room
  OBVIOUS
<1>1. writing = {}
  BY DEF Init, Idle, writing
<1>2. Cardinality({}) = 0
  BY FS_EmptySet
<1>3. Len(versions) = 1
  BY DEF Init
<1>4. MaxUnsynced \in Nat
  BY PebbleAssumption
<1>. QED  BY <1>1, <1>2, <1>3, <1>4 DEF Room

LEMMA RoomStep == IsFiniteSet(Thread) /\ Types /\ Shape /\ Room /\ [Next]_vars => Room'
<1>. SUFFICES ASSUME IsFiniteSet(Thread), Types, Shape, Room, [Next]_vars PROVE Room'
  OBVIOUS
<1>. USE DEF dbVars, lockVars
<1>1. /\ Len(versions) \in Nat /\ Len(versions) >= 1 /\ MaxUnsynced \in Nat
      /\ persist => Len(versions') = 1
      /\ \A u \in Seq(Update) : apply(u) => Len(versions') = Len(versions) + 1
  BY LogTyped, PebbleAssumption DEF Shape
<1>2. Len(versions) + Cardinality(writing) <= MaxUnsynced + 1
  BY DEF Room
\* A call that does not write begins, or one that has written ends.
<1>3. ASSUME NEW t \in Thread, NEW call, at' = [at EXCEPT ![t] = call],
             call.call \notin {"put", "commit"}, versions' = versions \/ persist
      PROVE  Room'
  <2>1. /\ Cardinality(writing) \in Nat /\ Cardinality(writing') \in Nat
        /\ Cardinality(writing') <= Cardinality(writing)
    BY <1>3, WritingMoves
  <2>2. Len(versions') <= Len(versions) /\ Len(versions') \in Nat
    BY <1>1, <1>3
  <2>. QED  BY <1>1, <1>2, <2>1, <2>2 DEF Room
<1>4. ASSUME NEW t \in Thread, Call(t) PROVE Room'
  <2>1. CASE \E call \in {[call |-> "read"], [call |-> "flush"]} : Enter(t, call)
    BY <1>3, <2>1 DEF Enter
  <2>2. ASSUME NEW call, MayWrite, Enter(t, call) PROVE Room'
    <3>1. /\ Cardinality(writing) \in Nat /\ Cardinality(writing') \in Nat
          /\ Cardinality(writing') <= Cardinality(writing) + 1
      BY <2>2, WritingMoves DEF Enter
    <3>2. versions' = versions /\ Len(versions) + Cardinality(writing) <= MaxUnsynced
      BY <2>2 DEF Enter, MayWrite
    <3>. QED  BY <1>1, <3>1, <3>2 DEF Room
  <2>. QED  BY <1>4, <2>1, <2>2 DEF Call
<1>5. Idle.call = "none"
  BY DEF Idle
<1>6. ASSUME NEW t \in Thread, Put(t) \/ Commit(t) PROVE Room'
  <2>1. PICK u \in Seq(Update) : apply(u)
    <3>1. CASE Put(t)
      <4>1. at[t] \in PutCalls
        BY <3>1 DEF Types, Put, ReadCalls, CloseCalls, Idle
      <4>2. at[t].update \in Updates
        BY <4>1 DEF PutCalls
      <4>. QED  BY <3>1, <4>2, BatchesTyped DEF Put
    <3>2. CASE Commit(t)
      BY <3>2, BatchesTyped DEF Commit, Shape
    <3>. QED  BY <1>6, <3>1, <3>2
  <2>2. t \in writing
    BY <1>6 DEF Put, Commit, writing
  <2>3. PICK call \in {Idle, [call |-> "sync"]} : at' = [at EXCEPT ![t] = call]
    BY <1>6 DEF Put, Commit, leaveSynced, leave
  <2>4. call.call \notin {"put", "commit"}
    BY <1>5, <2>3
  <2>5. /\ Cardinality(writing) \in Nat
        /\ Cardinality(writing') = Cardinality(writing) - 1
    BY <2>2, <2>3, <2>4, WritingMoves
  <2>. QED  BY <1>1, <1>2, <2>1, <2>5 DEF Room
<1>7. ASSUME NEW t \in Thread, Read(t) \/ Synced(t) \/ Flush(t) PROVE Room'
  <2>1. at' = [at EXCEPT ![t] = Idle] /\ (versions' = versions \/ persist)
    BY <1>7 DEF Read, Synced, Flush, leave
  <2>. QED  BY <1>3, <1>5, <2>1
<1>8. ASSUME at' = at, versions' = versions PROVE Room'
  BY <1>2, <1>8 DEF Room, writing
<1>9. ASSUME NEW t \in Thread, BatchStep(t) PROVE Room'
  BY <1>8, <1>9 DEF BatchStep, NewBatch, CloseBatch, Stage
<1>10. ASSUME NEW t \in Thread, Close(t) \/ CloseStep(t) PROVE Room'
  <2>1. \/ at' = at /\ versions' = versions
        \/ \E call \in {Idle, [call |-> "close"], [call |-> "flushAndClose"],
                        [call |-> "closeEngine"]} :
             at' = [at EXCEPT ![t] = call] /\ (versions' = versions \/ persist)
    BY <1>10 DEF Close, CloseStep, Locked, ClosedAlready, CloseFlushes, CloseEngine
  <2>2. \A call \in {Idle, [call |-> "close"], [call |-> "flushAndClose"],
                     [call |-> "closeEngine"]} : call.call \notin {"put", "commit"}
    BY <1>5
  <2>. QED  BY <1>3, <1>8, <2>1, <2>2
<1>11. CASE Crash
  <2>1. Len(versions') = 1
    BY <1>11 DEF Crash
  <2>2. writing' = {}
    BY <1>5, <1>11 DEF Crash, writing
  <2>3. Cardinality({}) = 0
    BY FS_EmptySet
  <2>. QED  BY <1>1, <2>1, <2>2, <2>3 DEF Room
<1>12. CASE UNCHANGED vars
  BY <1>8, <1>12 DEF vars
<1>. QED  BY <1>4, <1>6, <1>7, <1>9, <1>10, <1>11, <1>12 DEF Next, Perform

\* The state is well typed, a Close excludes all other calls, and the log is never
\* longer than the bound (pebble.go:31-35).
THEOREM TypeCorrect ==
    ASSUME IsFiniteSet(Thread)
    PROVE  Spec => []TypeOK
<1>1. IInv /\ Shape /\ Room => TypeOK
  <2>. SUFFICES ASSUME IInv, Shape, Room PROVE TypeOK
    OBVIOUS
  <2>1. Cardinality(writer) <= 1
    <3>1. CASE writer = {}
      BY <3>1, FS_EmptySet
    <3>2. CASE writer # {}
      <4>1. PICK t \in writer : writer = {t}
        BY <3>2 DEF Shape
      <4>2. Cardinality({t}) = 1
        BY FS_Singleton
      <4>. QED  BY <4>1, <4>2
    <3>. QED  BY <3>1, <3>2
  <2>2. Len(versions) \in 1..MaxUnsynced + 1
    <3>1. Cardinality(writing) \in Nat
      <4>1. IsFiniteSet(writing)
        BY FS_Subset DEF writing
      <4>. QED  BY <4>1, FS_CardinalityType
    <3>2. Len(versions) \in Nat /\ Len(versions) >= 1
      BY LogTyped DEF Shape
    <3>. QED  BY <3>1, <3>2, PebbleAssumption DEF Room
  <2>. QED  BY <2>1, <2>2 DEF IInv, Types, Guarded, Shape, TypeOK
<1>2. Init => IInv /\ Shape /\ Room
  BY Initially, ShapeInitially, RoomInitially
<1>3. IInv /\ Shape /\ Room /\ [Next]_vars => (IInv /\ Shape /\ Room)'
  BY IStep, ShapeStep, RoomStep DEF IInv
<1>. QED  BY <1>1, <1>2, <1>3, PTL DEF Spec

-----------------------------------------------------------------------------
(* PebbleDB implements Store.  Storage keys tell families and keys apart if  *)
(* the names of the families hold no NUL byte.                               *)

NamesAreNulFree == \A cf \in Family : NulFree(cf)

LEMMA StorageKeysDiffer ==
    ASSUME NamesAreNulFree, NEW cf \in Family, NEW k \in Key, NEW u \in Update
    PROVE  storageKey(u) = prefixedKey(cf, k) <=> u[1] = cf /\ u[2] = k
<1>1. u[1] \in Family /\ u[2] \in Key
  BY DEF Update
<1>2. cf \in Bytes /\ k \in Bytes /\ u[1] \in Bytes /\ u[2] \in Bytes
  BY <1>1, PebbleAssumption
<1>3. NulFree(cf) /\ NulFree(u[1])
  BY <1>1 DEF NamesAreNulFree
<1>4. ASSUME NEW other, other = u[1], NEW okey, okey = u[2],
             prefixedKey(other, okey) = prefixedKey(cf, k)
      PROVE  other = cf /\ okey = k
  <2>1. other \in Bytes /\ okey \in Bytes /\ NulFree(other)
    BY <1>2, <1>3, <1>4
  <2>. QED  BY <1>2, <1>3, <1>4, <2>1, FamiliesAreDisjoint
<1>. QED  BY <1>4 DEF storageKey

\* The last update of a storage key is the last one of the key in its family ...
LEMMA SameLatest ==
    ASSUME NamesAreNulFree, NEW cf \in Family, NEW k \in Key, NEW updates \in Seq(Update)
    PROVE  latest(updates, prefixedKey(cf, k)) = Promised!latest(updates, cf, k)
<1>1. \A i \in DOMAIN updates :
        storageKey(updates[i]) = prefixedKey(cf, k) <=> updates[i][1] = cf /\ updates[i][2] = k
  <2>1. \A i \in DOMAIN updates : updates[i] \in Update
    OBVIOUS
  <2>. QED  BY <2>1, StorageKeysDiffer
<1>. QED  BY <1>1 DEF latest, Promised!latest

\* ... so that a write to the engine writes in the families what Store says.
LEMMA WriteMaps ==
    ASSUME NamesAreNulFree, NEW contents \in Contents, NEW updates \in Seq(Update)
    PROVE  familiesOf(write(contents, updates)) = Promised!after(familiesOf(contents), updates)
<1>. DEFINE value(cf, k) ==
              IF Promised!latest(updates, cf, k) = {} THEN contents[prefixedKey(cf, k)]
              ELSE updates[CHOOSE i \in Promised!latest(updates, cf, k) : TRUE][3]
<1>1. \A cf \in Family, k \in Key : write(contents, updates)[prefixedKey(cf, k)] = value(cf, k)
  <2>. SUFFICES ASSUME NEW cf \in Family, NEW k \in Key
                PROVE  write(contents, updates)[prefixedKey(cf, k)] = value(cf, k)
    OBVIOUS
  <2>1. prefixedKey(cf, k) \in RawKey
    BY DEF RawKey
  <2>2. latest(updates, prefixedKey(cf, k)) = Promised!latest(updates, cf, k)
    BY SameLatest
  <2>. QED  BY <2>1, <2>2 DEF write
<1>2. /\ DOMAIN familiesOf(contents) = Family
      /\ \A cf \in Family : /\ DOMAIN familiesOf(contents)[cf] = Key
                            /\ \A k \in Key : familiesOf(contents)[cf][k] =
                                                contents[prefixedKey(cf, k)]
  BY DEF familiesOf
<1>3. Promised!after(familiesOf(contents), updates) =
        [cf \in Family |-> [k \in Key |-> value(cf, k)]]
  BY <1>2 DEF Promised!after
<1>. HIDE DEF value
<1>4. familiesOf(write(contents, updates)) = [cf \in Family |-> [k \in Key |-> value(cf, k)]]
  BY <1>1 DEF familiesOf
<1>. QED  BY <1>3, <1>4

\* The versions, as Store sees them.
promisedOf(log) == [i \in DOMAIN log |-> familiesOf(log[i])]

LEMMA PromisedLog ==
    ASSUME NEW log \in Seq(Contents), log # <<>>
    PROVE  /\ DOMAIN promisedOf(log) = DOMAIN log
           /\ Promised!Last(promisedOf(log)) = familiesOf(Last(log))
           /\ \A c : promisedOf(<<c>>) = <<familiesOf(c)>>
           /\ \A c \in Contents : promisedOf(Append(log, c)) = Append(promisedOf(log), familiesOf(c))
<1>. DEFINE F == {familiesOf(c) : c \in Contents}
<1>1. Len(log) \in Nat /\ DOMAIN log = 1..Len(log) /\ Len(log) \in DOMAIN log
  OBVIOUS
<1>2. promisedOf(log) \in Seq(F) /\ Len(promisedOf(log)) = Len(log)
  BY <1>1 DEF promisedOf
<1>3. Promised!Last(promisedOf(log)) = familiesOf(Last(log))
  BY <1>1, <1>2 DEF Promised!Last, Last, promisedOf
<1>4. ASSUME NEW c PROVE promisedOf(<<c>>) = <<familiesOf(c)>>
  BY DEF promisedOf
<1>5. ASSUME NEW c \in Contents
      PROVE  promisedOf(Append(log, c)) = Append(promisedOf(log), familiesOf(c))
  <2>1. /\ Append(log, c) \in Seq(Contents) /\ Len(Append(log, c)) = Len(log) + 1
        /\ \A i \in 1..Len(log) : Append(log, c)[i] = log[i]
        /\ Append(log, c)[Len(log) + 1] = c
    BY AppendProperties
  <2>2. familiesOf(c) \in F
    OBVIOUS
  <2>. HIDE DEF F
  <2>3. /\ Append(promisedOf(log), familiesOf(c)) \in Seq(F)
        /\ Len(Append(promisedOf(log), familiesOf(c))) = Len(log) + 1
        /\ \A i \in 1..Len(log) : Append(promisedOf(log), familiesOf(c))[i] = promisedOf(log)[i]
        /\ Append(promisedOf(log), familiesOf(c))[Len(log) + 1] = familiesOf(c)
    BY <1>2, <2>2, AppendProperties
  <2>4. promisedOf(Append(log, c)) \in Seq(F) /\ Len(promisedOf(Append(log, c))) = Len(log) + 1
    <3>1. \A i \in 1..Len(log) + 1 : Append(log, c)[i] \in Contents
      BY <2>1
    <3>2. promisedOf(Append(log, c)) \in [1..Len(log) + 1 -> F]
      BY <1>1, <2>1, <3>1 DEF promisedOf, F
    <3>. QED  BY <1>1, <3>2
  <2>5. ASSUME NEW i \in 1..Len(log) + 1
        PROVE  promisedOf(Append(log, c))[i] = Append(promisedOf(log), familiesOf(c))[i]
    <3>1. promisedOf(Append(log, c))[i] = familiesOf(Append(log, c)[i])
      BY <1>1, <2>1 DEF promisedOf
    <3>2. CASE i = Len(log) + 1
      BY <2>1, <2>3, <3>1, <3>2
    <3>3. CASE i # Len(log) + 1
      <4>1. i \in 1..Len(log)
        BY <1>1, <3>3
      <4>2. promisedOf(log)[i] = familiesOf(log[i])
        BY <1>1, <4>1 DEF promisedOf
      <4>. QED  BY <2>1, <2>3, <3>1, <4>1, <4>2
    <3>. QED  BY <3>2, <3>3
  <2>. QED  BY <2>3, <2>4, <2>5, SeqEqual
<1>6. DOMAIN promisedOf(log) = DOMAIN log
  BY DEF promisedOf
<1>. QED  BY <1>3, <1>4, <1>5, <1>6

\* A step of the log is a step of the versions.
LEMMA LogMaps ==
    ASSUME NamesAreNulFree, Shape
    PROVE  /\ ~closed /\ closed' = closed =>
                \A u \in Batches \cup {<<v>> : v \in Updates} :
                    apply(u) => Promised!StoreNext
           /\ persist /\ closed' = closed => Promised!StoreNext
<1>. DEFINE log == promisedOf(versions)
<1>1. versions \in Seq(Contents) /\ versions # <<>> /\ Last(versions) \in Contents
  BY LogTyped DEF Shape
<1>2. /\ log = [i \in DOMAIN versions |-> familiesOf(versions[i])]
      /\ log' = [i \in DOMAIN versions' |-> familiesOf(versions'[i])]
  BY DEF promisedOf
<1>3. ASSUME ~closed, closed' = closed, NEW u \in Batches \cup {<<v>> : v \in Updates}, apply(u)
      PROVE  Promised!StoreNext
  <2>1. u \in Seq(Update)
    BY BatchesTyped
  <2>2. /\ write(Last(versions), u) \in Contents
        /\ versions' = Append(versions, write(Last(versions), u))
    BY <1>1, <1>3, <2>1, WriteTyped DEF apply
  <2>3. log' = Append(log, familiesOf(write(Last(versions), u)))
    BY <1>1, <2>2, PromisedLog
  <2>4. log' = Append(log, Promised!after(Promised!Last(log), u))
    BY <1>1, <2>1, <2>3, WriteMaps, PromisedLog
  <2>. HIDE DEF log
  <2>5. Promised!Apply(u)
    BY <1>2, <1>3, <2>4 DEF Promised!Apply
  <2>. QED  BY <2>5 DEF Promised!StoreNext
<1>4. ASSUME persist, closed' = closed PROVE Promised!StoreNext
  <2>1. log' = <<Promised!Last(log)>>
    BY <1>1, <1>4, PromisedLog DEF persist
  <2>. HIDE DEF log
  <2>. QED  BY <1>2, <1>4, <2>1 DEF Promised!StoreNext, Promised!Persist
<1>. QED  BY <1>3, <1>4

LEMMA StepMaps ==
    ASSUME NamesAreNulFree, IInv, Shape, [Next]_vars
    PROVE  [Promised!StoreNext]_(Promised!storeState)
<1>. USE DEF dbVars, lockVars
<1>1. ASSUME UNCHANGED <<versions, closed>> PROVE UNCHANGED Promised!storeState
  BY <1>1 DEF Promised!storeState
<1>2. /\ Types /\ Guarded /\ versions \in Seq(Contents) /\ versions # <<>>
  BY DEF IInv, Shape
<1>3. ASSUME NEW t \in Thread, Put(t) \/ Commit(t) PROVE Promised!StoreNext
  <2>1. ~closed /\ closed' = closed
    BY <1>2, <1>3 DEF Put, Commit, Guarded, Working
  <2>2. PICK u \in Batches \cup {<<v>> : v \in Updates} : apply(u)
    <3>1. CASE Put(t)
      <4>1. at[t] \in PutCalls
        BY <1>2, <3>1 DEF Types, Put, ReadCalls, CloseCalls, Idle
      <4>2. at[t].update \in Updates
        BY <4>1 DEF PutCalls
      <4>. QED  BY <3>1, <4>2 DEF Put
    <3>2. CASE Commit(t)
      BY <3>2 DEF Commit, Shape
    <3>. QED  BY <1>3, <3>1, <3>2
  <2>. QED  BY <2>1, <2>2, LogMaps
<1>4. ASSUME NEW t \in Thread, Synced(t) \/ Flush(t) \/ CloseEngine(t) PROVE Promised!StoreNext
  BY <1>4, LogMaps DEF Synced, Flush, CloseEngine
<1>5. ASSUME NEW t \in Thread, CloseFlushes(t)
      PROVE  Promised!StoreNext \/ UNCHANGED Promised!storeState
  BY <1>1, <1>5, LogMaps DEF CloseFlushes
<1>6. ASSUME NEW t \in Thread, Locked(t)
      PROVE  Promised!StoreNext \/ UNCHANGED Promised!storeState
  <2>1. versions' = versions
    BY <1>6 DEF Locked
  <2>2. CASE closed
    BY <1>1, <1>6, <2>1, <2>2 DEF Locked
  <2>3. CASE ~closed
    <3>1. closed' = TRUE
      BY <1>6, <2>3 DEF Locked
    <3>. QED  BY <2>1, <2>3, <3>1 DEF Promised!StoreNext, Promised!Close
  <2>. QED  BY <2>2, <2>3
<1>7. ASSUME NEW t \in Thread, Call(t) \/ Read(t) \/ BatchStep(t) \/ Close(t) \/ ClosedAlready(t)
      PROVE  UNCHANGED Promised!storeState
  <2>1. UNCHANGED <<versions, closed>>
    BY <1>7 DEF Call, Enter, Read, BatchStep, NewBatch, CloseBatch, Stage, Close, ClosedAlready
  <2>. QED  BY <1>1, <2>1
<1>8. ASSUME Crash PROVE Promised!StoreNext
  <2>1. PICK i \in DOMAIN versions : versions' = <<versions[i]>>
    BY <1>8 DEF Crash
  <2>2. /\ promisedOf(versions') = <<familiesOf(versions[i])>>
        /\ i \in DOMAIN promisedOf(versions) /\ promisedOf(versions)[i] = familiesOf(versions[i])
    <3>1. promisedOf(versions') = <<familiesOf(versions[i])>>
      BY <1>2, <2>1, PromisedLog
    <3>. QED  BY <3>1 DEF promisedOf
  <2>3. promisedOf(versions') = <<promisedOf(versions)[i]>> /\ i \in DOMAIN promisedOf(versions)
    BY <2>2
  <2>4. Promised!Crash
    BY <1>8, <2>3 DEF Promised!Crash, promisedOf, Crash
  <2>. QED  BY <2>4 DEF Promised!StoreNext
<1>9. UNCHANGED vars => UNCHANGED Promised!storeState
  BY <1>1 DEF vars
<1>. QED
  BY <1>3, <1>4, <1>5, <1>6, <1>7, <1>8, <1>9 DEF Next, Perform, CloseStep

\* Families do not touch each other, a batch is applied as a whole or not at all whenever
\* the process dies, what was flushed or synced stays, and nothing is written after Close
\* (db.go:11-68, pebble.go:19-21), if no name of a family holds a NUL byte.
THEOREM Implements ==
    ASSUME NamesAreNulFree
    PROVE  Spec => ImplementsStore
<1>1. Init => Promised!StoreInit
  <2>. SUFFICES ASSUME Init PROVE Promised!StoreInit
    OBVIOUS
  <2>1. versions = <<[raw \in RawKey |-> Absent]>> /\ closed = FALSE
    BY DEF Init
  <2>2. familiesOf([raw \in RawKey |-> Absent]) = Promised!Nothing
    <3>1. \A cf \in Family, k \in Key : prefixedKey(cf, k) \in RawKey
      BY DEF RawKey
    <3>. QED  BY <3>1 DEF familiesOf, Promised!Nothing
  <2>3. versions \in Seq(Contents) /\ versions # <<>>
    BY ShapeInitially DEF Shape
  <2>4. promisedOf(versions) = <<Promised!Nothing>>
    BY <2>1, <2>2, <2>3, PromisedLog
  <2>. QED  BY <2>1, <2>4 DEF Promised!StoreInit, promisedOf
<1>2. IInv /\ Shape /\ [Next]_vars => [Promised!StoreNext]_(Promised!storeState)
  BY StepMaps
<1>3. Init => IInv /\ Shape
  BY Initially, ShapeInitially
<1>4. IInv /\ Shape /\ [Next]_vars => (IInv /\ Shape)'
  BY IStep, ShapeStep DEF IInv
<1>. QED  BY <1>1, <1>2, <1>3, <1>4, PTL DEF Spec, ImplementsStore, Promised!StoreSpec
================================================================================
