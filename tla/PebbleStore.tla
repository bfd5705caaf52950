------------------------------ MODULE PebbleStore ------------------------------
(***************************************************************************)
(* PebbleDB (db/pebble.go): goroutines call the store and fill batches of  *)
(* their own while one of them may close the store, and the process may    *)
(* crash.                                                                  *)
(*                                                                         *)
(* p.mu is a readers-writer lock: a call holds it for reading from its     *)
(* test of closed to the end of its engine operation, Close holds it for   *)
(* writing; batches are filled without it.  The engine is modelled from    *)
(* how pebble.go uses it: an ordered map of byte strings and a log that is *)
(* durable up to a point.                                                  *)
(***************************************************************************)
EXTENDS KeySpace, FiniteSets, SequencesExt

CONSTANTS
    Thread,      \* goroutines
    Family,      \* Config.ColumnFamilies and "default", as byte strings
    Key, Value, Absent,
    Updates,     \* the writes callers make: <<family, key, value or Absent>>
    Batches,     \* the batches they commit: sequences of such writes
    MaxUnsynced, \* bound: writes that are not yet durable
    MaxCrashes   \* bound: crashes

ASSUME PebbleAssumption ==
    /\ Family \subseteq Bytes /\ Key \subseteq Bytes /\ Absent \notin Value
    /\ Updates \subseteq Family \X Key \X (Value \cup {Absent})
    /\ Batches \subseteq Seq(Family \X Key \X (Value \cup {Absent}))
    /\ MaxUnsynced \in Nat /\ MaxCrashes \in Nat

VARIABLES
    syncWrites,  \* p.writeOpts is pebble.Sync
    readers, writer, waiting,  \* p.mu: who holds it for reading, for writing, and
                 \*   who waits to hold it for writing
    closed,      \* p.closed
    at,          \* thread -> the call it is in
    batch,       \* thread -> the operations staged in its batch, if it has one
    engineOpen,  \* the engine is open
    versions,    \* contents of the engine: durable, then after each later write
    crashes      \* number of crashes (for the bound)

lockVars == <<readers, writer, waiting>>
dbVars   == <<syncWrites, crashes>>
vars     == <<dbVars, lockVars, closed, at, batch, engineOpen, versions>>

RawKey  == {prefixedKey(cf, k) : cf \in Family, k \in Key}
Idle    == [call |-> "none"]
NoBatch == [open |-> FALSE, staged |-> <<>>]

\* The calls that hold p.mu for reading.  "read" is Get, Has or NewIterator.
ReadCalls  == {[call |-> "read"], [call |-> "flush"], [call |-> "commit"], [call |-> "sync"]}
PutCalls   == {[call |-> "put", update |-> u] : u \in Updates}
CloseCalls == {[call |-> "close"], [call |-> "flushAndClose"], [call |-> "closeEngine"]}

\* Open, with or without WithSyncWrites, of an empty directory.
Init ==
    /\ syncWrites \in BOOLEAN
    /\ readers = {} /\ writer = {} /\ waiting = {}
    /\ closed = FALSE
    /\ at = [t \in Thread |-> Idle]
    /\ batch = [t \in Thread |-> NoBatch]
    /\ engineOpen = TRUE
    /\ versions = <<[raw \in RawKey |-> Absent]>>
    /\ crashes = 0

-----------------------------------------------------------------------------
(* The engine. *)

storageKey(u) == prefixedKey(u[1], u[2])

\* The last of the updates of a storage key: one position, or none.
latest(updates, raw) ==
    {i \in DOMAIN updates :
        /\ storageKey(updates[i]) = raw
        /\ \A j \in DOMAIN updates : j > i => storageKey(updates[j]) # raw}

\* The updates of a batch, of which the last one of a storage key counts.
write(contents, updates) ==
    [raw \in RawKey |->
        IF latest(updates, raw) = {} THEN contents[raw]
        ELSE updates[CHOOSE i \in latest(updates, raw) : TRUE][3]]

\* Mutant of apply: the operations of a batch one by one.
applyEach(updates) ==
    versions' = versions \o [i \in DOMAIN updates |->
                    write(Last(versions), SubSeq(updates, 1, i))]

\* Set, Delete and Batch.Commit: one entry of the log.
apply(updates) == versions' = Append(versions, write(Last(versions), updates))

persist == versions' = <<Last(versions)>>

-----------------------------------------------------------------------------
(* The methods of the store: RLock and the test of closed, then the engine. *)

\* Mutant of leaveSynced: NoSync, whatever the options.
leaveUnsynced(t) == readers' = readers \ {t} /\ at' = [at EXCEPT ![t] = Idle]

leave(t) ==
    /\ readers' = readers \ {t}
    /\ at' = [at EXCEPT ![t] = Idle]

\* p.writeOpts: with Sync the call waits for the log.
leaveSynced(t) ==
    IF syncWrites
    THEN at' = [at EXCEPT ![t] = [call |-> "sync"]] /\ UNCHANGED readers
    ELSE leave(t)

\* A call that finds the store closed returns ErrClosed and is over; errors for a
\* nil key or an unknown family change nothing either.
Enter(t, call) ==
    /\ at[t] = Idle
    /\ writer = {} /\ waiting = {}
    /\ ~closed
    /\ readers' = readers \cup {t}
    /\ at' = [at EXCEPT ![t] = call]
    /\ UNCHANGED <<dbVars, writer, waiting, closed, batch, engineOpen, versions>>

\* MaxUnsynced stops the callers, not the calls.
writing == {t \in Thread : at[t].call \in {"put", "commit"}}
MayWrite == Len(versions) + Cardinality(writing) <= MaxUnsynced

Call(t) ==
    \/ \E call \in {[call |-> "read"], [call |-> "flush"]} : Enter(t, call)
    \/ MayWrite /\ \E call \in PutCalls : Enter(t, call)
    \/ MayWrite /\ batch[t].open /\ batch[t].staged \in Batches /\ Enter(t, [call |-> "commit"])

\* Get, Has and NewIterator.
Read(t) ==
    /\ at[t].call = "read"
    /\ leave(t)
    /\ UNCHANGED <<dbVars, writer, waiting, closed, batch, engineOpen, versions>>

\* Put and Delete.
Put(t) ==
    /\ at[t].call = "put"
    /\ apply(<<at[t].update>>)
    /\ leaveSynced(t)
    /\ UNCHANGED <<dbVars, writer, waiting, closed, batch, engineOpen>>

\* The log is on disk up to this write.
Synced(t) ==
    /\ at[t].call = "sync"
    /\ persist
    /\ leave(t)
    /\ UNCHANGED <<dbVars, writer, waiting, closed, batch, engineOpen>>

Flush(t) ==
    /\ at[t].call = "flush"
    /\ persist
    /\ leave(t)
    /\ UNCHANGED <<dbVars, writer, waiting, closed, batch, engineOpen>>

-----------------------------------------------------------------------------
(* Batches, which a goroutine keeps to itself. *)

openBatch(t, staged) == batch' = [batch EXCEPT ![t] = [open |-> TRUE, staged |-> staged]]
dropBatch(t) == batch' = [batch EXCEPT ![t] = NoBatch]

beginnings == {<<>>} \cup UNION {Prefixes(b) : b \in Batches}

\* NewBatch looks at neither closed nor the lock.
NewBatch(t) ==
    /\ at[t] = Idle
    /\ ~batch[t].open
    /\ openBatch(t, <<>>)
    /\ UNCHANGED <<dbVars, lockVars, closed, at, engineOpen, versions>>

\* Put and Delete of a batch, after the Close of the store as well.
Stage(t, u) ==
    /\ at[t] = Idle
    /\ batch[t].open /\ Append(batch[t].staged, u) \in beginnings
    /\ openBatch(t, Append(batch[t].staged, u))
    /\ UNCHANGED <<dbVars, lockVars, closed, at, engineOpen, versions>>

\* Commit, after which the caller closes the batch: it is not to be used again.
Commit(t) ==
    /\ at[t].call = "commit"
    /\ apply(batch[t].staged)
    /\ dropBatch(t)
    /\ leaveSynced(t)
    /\ UNCHANGED <<dbVars, writer, waiting, closed, engineOpen>>

\* Close of a batch that was not committed.
CloseBatch(t) ==
    /\ at[t] = Idle
    /\ batch[t].open
    /\ dropBatch(t)
    /\ UNCHANGED <<dbVars, lockVars, closed, at, engineOpen, versions>>

-----------------------------------------------------------------------------
(* Close. *)

\* Mutant of granted: Close does not wait for the calls in flight.
ungated == writer = {}

\* Lock waits for the readers that hold the lock; new ones wait for it.
granted == readers = {} /\ writer = {}

\* Mutant: the early return of a second Close leaves the lock held.
unlockOnce(t) == writer' = IF engineOpen THEN writer \ {t} ELSE writer

unlock(t) == writer' = writer \ {t}

Close(t) ==
    /\ at[t] = Idle
    /\ waiting' = waiting \cup {t}
    /\ at' = [at EXCEPT ![t] = [call |-> "close"]]
    /\ UNCHANGED <<dbVars, readers, writer, closed, batch, engineOpen, versions>>

\* The first Close sets closed.
Locked(t) ==
    /\ at[t].call = "close" /\ t \in waiting
    /\ granted
    /\ waiting' = waiting \ {t}
    /\ writer' = {t}
    /\ IF closed
       THEN UNCHANGED <<closed, at>>
       ELSE closed' = TRUE /\ at' = [at EXCEPT ![t] = [call |-> "flushAndClose"]]
    /\ UNCHANGED <<dbVars, readers, batch, engineOpen, versions>>

\* A later one returns ErrClosed.
ClosedAlready(t) ==
    /\ at[t].call = "close" /\ t \in writer
    /\ unlock(t)
    /\ at' = [at EXCEPT ![t] = Idle]
    /\ UNCHANGED <<dbVars, readers, waiting, closed, batch, engineOpen, versions>>

\* Flush, whose failure is logged and ignored.
CloseFlushes(t) ==
    /\ at[t].call = "flushAndClose"
    /\ persist \/ UNCHANGED versions
    /\ at' = [at EXCEPT ![t] = [call |-> "closeEngine"]]
    /\ UNCHANGED <<dbVars, lockVars, closed, batch, engineOpen>>

\* The Close of the engine writes the rest of its log; whether or not it returns
\* an error, the store stays closed.
CloseEngine(t) ==
    /\ at[t].call = "closeEngine"
    /\ engineOpen' = FALSE
    /\ persist
    /\ unlock(t)
    /\ at' = [at EXCEPT ![t] = Idle]
    /\ UNCHANGED <<dbVars, readers, waiting, closed, batch>>

\* The process dies, between any two steps or after a Close, and the store is
\* opened again.
Crash ==
    /\ crashes < MaxCrashes
    /\ crashes' = crashes + 1
    /\ readers' = {} /\ writer' = {} /\ waiting' = {}
    /\ closed' = FALSE
    /\ at' = [t \in Thread |-> Idle]
    /\ batch' = [t \in Thread |-> NoBatch]
    /\ engineOpen' = TRUE
    /\ \E i \in DOMAIN versions : versions' = <<versions[i]>>
    /\ UNCHANGED syncWrites

-----------------------------------------------------------------------------

Perform(t) == Read(t) \/ Put(t) \/ Synced(t) \/ Flush(t) \/ Commit(t)

BatchStep(t) == NewBatch(t) \/ CloseBatch(t) \/ \E b \in Batches : \E i \in DOMAIN b : Stage(t, b[i])

CloseStep(t) == Locked(t) \/ ClosedAlready(t) \/ CloseFlushes(t) \/ CloseEngine(t)

Next ==
    \/ \E t \in Thread : Call(t) \/ Perform(t) \/ BatchStep(t) \/ Close(t) \/ CloseStep(t)
    \/ Crash

Spec == Init /\ [][Next]_vars

\* A goroutine in a call goes on.  One that waits to hold p.mu for writing gets its
\* turn although others call Close again and again: sync.Mutex, which Lock takes
\* first, hands itself over in order when someone has waited for long.
Fairness ==
    \A t \in Thread : WF_vars(Perform(t)) /\ WF_vars(CloseStep(t)) /\ SF_vars(Locked(t))

FairSpec == Spec /\ Fairness

-----------------------------------------------------------------------------
(* Properties. *)

Contents == [RawKey -> Value \cup {Absent}]

\* The type of the state, and of the lock: a writer excludes all others.
TypeOK ==
    /\ syncWrites \in BOOLEAN /\ closed \in BOOLEAN /\ engineOpen \in BOOLEAN
    /\ readers \subseteq Thread /\ writer \subseteq Thread /\ waiting \subseteq Thread
    /\ Cardinality(writer) <= 1 /\ (writer # {} => readers = {})
    /\ at \in [Thread -> ReadCalls \cup PutCalls \cup CloseCalls \cup {Idle}]
    /\ batch \in [Thread -> [open : BOOLEAN, staged : beginnings]]
    /\ versions \in Seq(Contents) /\ Len(versions) \in 1..MaxUnsynced + 1
    /\ crashes \in 0..MaxCrashes

\* Close drains the calls in flight (pebble.go:33-35): no call that passed its test
\* of closed finds the engine closed, and only Close closes it.
EngineUsedOpen ==
    /\ \A t \in Thread : at[t].call \notin {"none", "close"} => engineOpen
    /\ ~engineOpen => closed

\* With WithSyncWrites a write whose call has returned survives every crash, as do
\* all writes once the store is closed (options.go:57-59, db.go:58-59).
ReturnedWritesAreDurable ==
    (\/ syncWrites /\ \A t \in Thread : at[t].call # "sync"
     \/ ~engineOpen)
        => Len(versions) = 1

\* The contents of the families.
familiesOf(contents) == [cf \in Family |-> [k \in Key |-> contents[prefixedKey(cf, k)]]]

Promised == INSTANCE Store WITH
    versions <- [i \in DOMAIN versions |-> familiesOf(versions[i])],
    Batches <- Batches \cup {<<u>> : u \in Updates},
    Durable <- TRUE

\* PebbleDB is a Store: families do not touch each other, a batch is applied as a
\* whole or not at all, whenever the process dies, and nothing is written once the
\* store is closed.
ImplementsStore == Promised!StoreSpec

\* Close returns, whatever the other goroutines do, unless the process dies.
CloseReturns == \A t \in Thread : (at[t].call \in {"close", "flushAndClose"}) ~> (at[t] = Idle)

=============================================================================
