------------------------------- MODULE MockStore -------------------------------
(***************************************************************************)
(* MockStore (db/mock.go), the store in memory that tests use instead of   *)
(* PebbleDB: a map of families to maps of keys to values under a           *)
(* readers-writer lock.                                                    *)
(*                                                                         *)
(* What a call does with the maps in several steps is several steps here:  *)
(* a commit applies its operations one by one, Reset replaces the families *)
(* one by one, a snapshot is copied key by key.  All of them hold m.mu.    *)
(* Batches do not: they look their family up in m.data without it.         *)
(* Flush changes nothing.                                                  *)
(***************************************************************************)
EXTENDS Writes, FiniteSets, SequencesExt

CONSTANTS
    Thread,      \* goroutines
    Family,      \* the column families and "default"
    Key, Value, Absent,
    Updates,     \* the writes callers make: <<family, key, value or Absent>>
    Batches      \* the batches they commit: sequences of such writes

ASSUME MockAssumption ==
    /\ Absent \notin Value
    /\ Updates \subseteq Family \X Key \X (Value \cup {Absent})
    /\ Batches \subseteq Seq(Family \X Key \X (Value \cup {Absent}))

VARIABLES
    readers, writer,  \* m.mu: who holds it for reading, for writing
    data,     \* m.data: family -> key -> value, Absent when the key is not there;
              \*   no family at all when it is nil
    closed,   \* m.closed
    at,       \* thread -> the call it is in, with what is left of it to do
    batch,    \* thread -> the operations staged in its batch, if it has one
    faulted   \* the runtime has stopped the process

vars == <<readers, writer, data, closed, at, batch, faulted>>

Idle    == [call |-> "none"]
NoBatch == [open |-> FALSE, staged |-> <<>>]
NoKeys  == [k \in Key |-> Absent]

\* NewMockStore.
Init ==
    /\ readers = {} /\ writer = {}
    /\ data = [cf \in Family |-> NoKeys]
    /\ closed = FALSE
    /\ at = [t \in Thread |-> Idle]
    /\ batch = [t \in Thread |-> NoBatch]
    /\ faulted = FALSE

-----------------------------------------------------------------------------
(* The lock, and the test of closed that follows it in every call but Reset. *)

\* Mutants of mayRead and mayWrite: no lock, and one that does not wait for readers.
always == TRUE
noWriter == writer = {}

mayRead == writer = {}
mayWrite == readers = {} /\ writer = {}

go(t, call) == at' = [at EXCEPT ![t] = call]

-----------------------------------------------------------------------------
(* Reading: Get and Has one key, NewIterator and Len a whole family. *)

Read(t, cf, keys) ==
    /\ at[t] = Idle
    /\ mayRead /\ ~closed
    /\ readers' = readers \cup {t}
    /\ go(t, [call |-> "read", cf |-> cf, left |-> keys, copied |-> {}])
    /\ UNCHANGED <<writer, data, closed, batch, faulted>>

\* In the order in which the map is ranged over, that is in any.
Copy(t) ==
    /\ at[t].call = "read"
    /\ \E k \in at[t].left :
        go(t, [at[t] EXCEPT !.left = @ \ {k}, !.copied = @ \cup {<<k, data[at[t].cf][k]>>}])
    /\ UNCHANGED <<readers, writer, data, closed, batch, faulted>>

ReadReturns(t) ==
    /\ at[t].call = "read" /\ at[t].left = {}
    /\ readers' = readers \ {t}
    /\ go(t, Idle)
    /\ UNCHANGED <<writer, data, closed, batch, faulted>>

-----------------------------------------------------------------------------
(* Writing. *)

\* Put and Delete.
Write(t, u) ==
    /\ at[t] = Idle
    /\ mayWrite /\ ~closed
    /\ data' = put(data, u)
    /\ UNCHANGED <<readers, writer, closed, at, batch, faulted>>

\* Mutant of Commit: RLock instead of Lock.
commitShared(t) ==
    /\ at[t] = Idle
    /\ batch[t].open /\ batch[t].staged \in Batches
    /\ mayRead /\ ~closed
    /\ readers' = readers \cup {t}
    /\ go(t, [call |-> "commit", left |-> batch[t].staged])
    /\ UNCHANGED <<writer, data, closed, batch, faulted>>

\* Commit of a batch, which stays as it is: it may be committed again.
Commit(t) ==
    /\ at[t] = Idle
    /\ batch[t].open /\ batch[t].staged \in Batches
    /\ mayWrite /\ ~closed
    /\ writer' = {t}
    /\ go(t, [call |-> "commit", left |-> batch[t].staged])
    /\ UNCHANGED <<readers, data, closed, batch, faulted>>

CommitNext(t) ==
    /\ at[t].call = "commit" /\ at[t].left # <<>>
    /\ data' = put(data, Head(at[t].left))
    /\ go(t, [at[t] EXCEPT !.left = Tail(@)])
    /\ UNCHANGED <<readers, writer, closed, batch, faulted>>

\* Reset does not look at closed: after Close it finds no family.
Reset(t) ==
    /\ at[t] = Idle
    /\ mayWrite
    /\ writer' = {t}
    /\ go(t, [call |-> "reset", left |-> DOMAIN data])
    /\ UNCHANGED <<readers, data, closed, batch, faulted>>

ResetNext(t) ==
    /\ at[t].call = "reset"
    /\ \E cf \in at[t].left :
        /\ data' = [data EXCEPT ![cf] = NoKeys]
        /\ go(t, [at[t] EXCEPT !.left = @ \ {cf}])
    /\ UNCHANGED <<readers, writer, closed, batch, faulted>>

WriteReturns(t) ==
    /\ \/ at[t].call = "commit" /\ at[t].left = <<>>
       \/ at[t].call = "reset" /\ at[t].left = {}
    /\ writer' = writer \ {t}
    /\ go(t, Idle)
    /\ UNCHANGED <<readers, data, closed, batch, faulted>>

\* The first Close; a later one returns ErrClosed.
Close(t) ==
    /\ at[t] = Idle
    /\ mayWrite /\ ~closed
    /\ closed' = TRUE
    /\ data' = <<>>
    /\ UNCHANGED <<readers, writer, at, batch, faulted>>

-----------------------------------------------------------------------------
(* Batches, which a goroutine keeps to itself. *)

\* NewBatch, and Close of a batch.
OpenBatch(t) ==
    /\ at[t] = Idle
    /\ ~batch[t].open
    /\ batch' = [batch EXCEPT ![t].open = TRUE]
    /\ UNCHANGED <<readers, writer, data, closed, at, faulted>>

CloseBatch(t) ==
    /\ at[t] = Idle
    /\ batch[t].open
    /\ batch' = [batch EXCEPT ![t] = NoBatch]
    /\ UNCHANGED <<readers, writer, data, closed, at, faulted>>

beginnings == {<<>>} \cup UNION {Prefixes(b) : b \in Batches}

\* Put and Delete of a batch look the family up ...
Stage(t, u) ==
    /\ at[t] = Idle
    /\ batch[t].open /\ Append(batch[t].staged, u) \in beginnings
    /\ go(t, [call |-> "stage", update |-> u, known |-> u[1] \in DOMAIN data])
    /\ UNCHANGED <<readers, writer, data, closed, batch, faulted>>

\* ... and fail if it is not there, as it is not once the store is closed.
Staged(t) ==
    /\ at[t].call = "stage"
    /\ batch' = IF at[t].known
                THEN [batch EXCEPT ![t].staged = Append(@, at[t].update)]
                ELSE batch
    /\ go(t, Idle)
    /\ UNCHANGED <<readers, writer, data, closed, faulted>>

\* The look-up of a batch while Reset assigns to the same map: the runtime may
\* notice ("concurrent map read and map write") and end the process.
Fault ==
    /\ \E s, t \in Thread :
        at[s].call = "stage" /\ at[t].call = "reset" /\ at[t].left # {}
    /\ faulted' = TRUE
    /\ UNCHANGED <<readers, writer, data, closed, at, batch>>

-----------------------------------------------------------------------------

Step(t) ==
    \/ \E cf \in Family, k \in Key : Read(t, cf, {k})
    \/ \E cf \in Family : Read(t, cf, Key)
    \/ Copy(t) \/ ReadReturns(t)
    \/ \E u \in Updates : Write(t, u)
    \/ \E b \in Batches : \E i \in DOMAIN b : Stage(t, b[i])
    \/ Commit(t) \/ CommitNext(t) \/ Reset(t) \/ ResetNext(t) \/ WriteReturns(t)
    \/ Close(t)
    \/ OpenBatch(t) \/ CloseBatch(t) \/ Staged(t)

Next == ~faulted /\ (Fault \/ \E t \in Thread : Step(t))

Spec == Init /\ [][Next]_vars

-----------------------------------------------------------------------------
(* Properties. *)

Contents == [Key -> Value \cup {Absent}]
Calls == {Idle}
    \cup [call : {"read"}, cf : Family, left : SUBSET Key,
           copied : SUBSET (Key \X (Value \cup {Absent}))]
    \cup [call : {"commit"}, left : UNION {Suffixes(b) : b \in Batches}]
    \cup [call : {"reset"}, left : SUBSET Family]
    \cup [call : {"stage"}, update : UNION {Range(b) : b \in Batches}, known : BOOLEAN]

\* The type of the state, of the lock (a writer excludes all others) and of m.data,
\* which has its families until the store is closed (mock.go:240).
TypeOK ==
    /\ readers \subseteq Thread /\ writer \subseteq Thread
    /\ Cardinality(writer) <= 1 /\ (writer # {} => readers = {})
    /\ closed \in BOOLEAN /\ faulted \in BOOLEAN
    /\ data \in [IF closed THEN {} ELSE Family -> Contents]
    /\ \A t \in Thread : at[t] \in Calls
    /\ batch \in [Thread -> [open : BOOLEAN, staged : beginnings]]

\* The contents once a call has done the rest of its work.
rest(contents, call) ==
    CASE call.call = "commit" -> after(contents, call.left)
      [] call.call = "reset"  -> [cf \in DOMAIN contents |->
                                    IF cf \in call.left THEN NoKeys ELSE contents[cf]]
      [] OTHER -> contents

\* The contents once the call that is writing, if there is one, has done all of it.
writing == {t \in Thread : at[t].call \in {"commit", "reset"}}

Whole ==
    IF closed THEN [cf \in Family |-> NoKeys]
    ELSE IF writing = {} THEN data ELSE rest(data, at[CHOOSE t \in writing : TRUE])

\* Reset, as far as Store is concerned: a batch that deletes every key.
wipe == SetToSeq({<<cf, k, Absent>> : cf \in Family, k \in Key})

Promised == INSTANCE Store WITH
    versions <- <<Whole>>,
    Batches <- Batches \cup {<<u>> : u \in Updates} \cup {wipe},
    Durable <- FALSE

\* MockStore is a Store that lives in memory: a commit or a Reset takes effect at
\* once although its operations do not, and nothing is written after Close.
ImplementsStore == Promised!StoreSpec

\* What Get, Has, Len and NewIterator have copied so far is what the store holds
\* when they return: no half of a commit, and no key from before a write and
\* another from after it (mock.go:150).
SnapshotsAreWhole ==
    \A t \in Thread : at[t].call = "read" =>
        \A seen \in at[t].copied : seen[2] = Whole[at[t].cf][seen[1]]

\* A batch may be filled without the lock, since "CF map keys are immutable after
\* construction" (mock.go:240), and the store is "thread-safe" (mock.go:14).
StagingIsSafe == ~faulted

=============================================================================
