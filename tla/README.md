# A verification of brewery-bitcoin

TLA+ models of the peer manager, its locks and callbacks, the indexer, the header
indexer example and the two databases of brewery-bitcoin, the TLC configurations
that check them on small instances, and TLAPS proofs of their safety properties for
every size. Paths below are
relative to the repository's `src`.

    tlc -workers 2 -config Core.cfg MCPeerManager    # a run: cfg and MC module
    tlapm PeerManagerProofs.tla                      # the proofs of a module

## The system

| part | state | operations | talks to |
|---|---|---|---|
| `BtcClient` (`pkg/btcclient/client.go`) | `mu` | `Start`, `Stop`, `AddPeer`, `RemovePeer`, `PeerCount` | the peer manager |
| `PeerManager` (`manager.go`) | the registry `peers` under `peersMu`, `started`, `done`, `wg` | `addPeer`, `removePeer`, `evictPeer`, one `connectionLoop` goroutine per peer, `healthCheckLoop`, `addDiscoveredPeers` | btcd's `peer.Peer`, the listeners |
| `ManagedPeer` (`peer.go`) | status, failure count, current btcd peer | setters under its own mutex | its `connectionLoop` |
| message handlers (`handlers.go`) | none | `handleAddr` calls `OnAddr` and `addDiscoveredPeers`; the others forward to listeners | btcd's input goroutine, the listeners |
| `Indexer` (`indexer/indexer.go`) | `running` under `mu` | `Run`, `Start`, `Stop`, `connectPeers`, `resolvePeers` | its own `BtcClient` |
| message handlers of the indexer (`indexer/*.go`) | `headers`, nothing reads it | empty but for `OnHeaders` | not registered yet |
| header indexer (`examples/headerindexer`) | headers, tip, `synced` under `mu` | `onPeerConnected`, `onHeaders`, `onInv` as listeners | `BtcClient` |
| `PebbleDB` (`db/pebble.go`), a `db.Store` | an ordered key space shared by column families, `closed` under `mu` | reads, writes, batches, iterators, `Flush`, `Close` | the Pebble engine |
| `MockStore` (`db/mock.go`), a `db.Store` | a map of families to maps under `mu`, `closed` | the same, `Reset`, `Len` | |
| logger, configuration, `main` functions | no state of interest | | |

What is hard in this code, and what would make each part correct:

* **Peer manager.** Each peer has a goroutine of its own that dials, waits,
  delays, retries and evicts itself, while callers add and remove peers, a
  health check sweeps the registry, remotes send address lists, and `Stop` closes
  `done`, cancels everybody and waits for the `WaitGroup` until its context
  expires. Correct means: the registry keeps to its capacity; what is registered
  is served and what is not registered has been told to stop; the `WaitGroup`
  counts exactly the goroutines there are; connections, status and listeners
  agree; a removed peer stays down; a graceful stop is final; a lost peer is
  dialed again, one that keeps failing leaves, and `Stop` returns.
* **Locks and listeners.** `Stop` waits for every loop with `BtcClient.mu` in its
  hand, a removal calls a listener with both locks, input handlers call listeners
  and then add peers, and any listener may call the client back. Correct means:
  the two locks are taken in one order and never twice, and every call returns.
* **Indexer.** `Run` and `Stop` race from several goroutines, a `Stop` of the
  client may time out, and a failed start is cleaned up. Correct means: the
  indexer and its client agree on whether they run, one goroutine stops the client
  at a time, nil means disconnected, a cancelled `Run` returns.
* **Header indexer.** Two kinds of goroutines per peer share one chain; the tip
  is read under a lock and used after it. Correct means: headers without gaps,
  `synced` no earlier than the chain, and one lasting peer is enough.
* **Database.** Calls race with `Close`, the process may die between any two
  steps, families share one key space. Correct means: families are disjoint,
  batches are atomic in memory and on disk, what was acknowledged with sync
  survives, nothing touches a closed engine, `Close` returns, an iterator moves as
  a cursor over the keys of its family, and the store that tests use does what the
  store on disk does.

## Modules

| module | models | 
|---|---|
| `PeerManager` | client.go, manager.go, peer.go, the address part of handlers.go: state, one action per lock region or blocking point, properties |
| `PeerManagerClaims` | what comments and docs say of it and the code does not do |
| `BtcClient` | the abstract client: registered addresses, addresses announced as connected, the phases of Start and Stop |
| `PeerManagerRefines` | the refinement mapping from `PeerManager` to `BtcClient` |
| `PeerManagerProofs` | the theorems about both |
| `Indexer` | indexer/indexer.go, composed with the abstract `BtcClient` |
| `IndexerProofs` | the theorems about `Indexer` |
| `HeaderIndexer` | examples/headerindexer/main.go, with remotes that answer, announce and disconnect |
| `HeaderIndexerProofs` | the theorems about `HeaderIndexer` |
| `Callbacks` | the locks of client.go, manager.go and handlers.go, the listeners called under them, and what those call back |
| `CallbacksProofs` | the lock order of `Callbacks`, and who holds the locks, for any number of goroutines |
| `KeySpace` | the storage keys and iterator bounds of db/pebble.go |
| `Writes` | what a Put, a Delete and a batch of them make of the contents of a store |
| `Store` | the abstract store of db/db.go |
| `PebbleStore` | `PebbleDB`: its lock, its calls and batches, `Close`, crashes; with the mapping to `Store` |
| `MockStore` | `MockStore`: its maps and lock, batches, `Reset`, `Close`; with the mapping to `Store` |
| `Cursor` | the abstract iterator of db/db.go |
| `Iterators` | `pebbleIterator` and `mockIterator` side by side, with the mappings to `Cursor` |
| `KeySpaceProofs`, `PebbleStoreProofs`, `MockStoreProofs`, `IteratorsProofs` | the theorems about `KeySpace`, the two stores and `Iterators` |
| `MC*` | instances for TLC: lists, symmetry, small sets |

### PeerManager

A `ManagedPeer` object is a pair of an address and which of the objects made for
that address it is; objects are never reused, so a removed peer whose goroutine
still runs and its successor at the same address are different, as in the code.
`loop[mp]` is where its `connectionLoop` stands: `"top"` (the test of the context
and of `done`), `"dial"`, `"dialed"`, `"attached"`, `"waiting"`
(`WaitForDisconnect`), `"evict"`, `"evicting"` (in `removePeer`), `"delay"` (the retry
delay) and `"exited"`.
`ctx[mp]` says whether the context is done and where it comes from: the caller's
(AddPeer) or the background (discovery). `waiter` is the goroutine that `Stop`
leaves in `wg.Wait()` and which outlives a `Stop` that times out.

`removePeer` holds `peersMu`, but the peer's own loop does not take that lock, so a
removal is three steps: `startRemoval` (the cancel), `RemovalDisconnects` (the test of
`mp.Peer()` and `Disconnect`) and `deleteEntry` (the delete and the listener).
`peersMu` says who holds the lock meanwhile, a `RemovePeer`, an eviction or a health
check, which goes on with its next entry; `removal[mp]` says how far `removePeer` is
with that entry. Between the steps the loop dials, attaches, announces or loses its
connection. The lock regions that remain one step are those whose calls nobody can
come between with effect: `addPeer` and `addDiscoveredPeers` touch what only holders of
the lock touch, and the delete is not seen without it. `mp.Peer()` and the
`Disconnect` after it are one step, for only the loop changes `mp.peer`: if it comes
between them it attaches a peer that was not seen, as it may after the step, or clears
one that is closed, and `Disconnect` of a closed peer does nothing. The sweep of
`Stop` over all entries is one step too: a loop that comes in the middle of it takes a
step that it could also have taken before the sweep, as `done` is closed by then and
a remote may hang up at any time, or that it can still take after it.

The properties (see the comments in the module) are invariants on the registry,
the goroutines, the connections and the listeners, an action property on peers that
have been removed, and four leads-to properties. What one would like a removal to
promise, that it leaves no connection open (client.go:108), does not hold
(`RemovalDisconnectsAll`, below); what holds is that a removed peer is not dialed again
(`RemovedIsNotDialed`).

### Indexer

`at[c]` is where caller `c` stands in `Run` or `Stop`; `stopper` is the holder of
`idx.mu`, which `Stop` keeps while it waits for the client. The module EXTENDS
`BtcClient`: its actions are the abstract client's actions plus what the indexer
does around them, and the peers of the client come and go in between. What holds
here holds for the real client as far as `PeerManager` implements `BtcClient`.
`unseen` is the loop of `resolvePeers` over one list, a recursive function.

### HeaderIndexer

A header is its height: all remotes follow one chain without reorganisations, at
least as high as `InitialBest`. A getheaders message is its locator, the tip read
under the lock; sending it is a step of its own.

### PebbleStore

The engine is an ordered map from byte strings to values and a log: `versions` is
a sequence of contents, the first of which is durable and the last current. A
write appends a version, `Flush`, sync and `Close` make the last one durable, and
a crash keeps any one of them. A call holds `p.mu` for reading from its test of
`closed` to the end of its engine call; `Close` queues for the lock, takes it when
the readers are gone and closes the engine under it. Batches are filled without
the lock and committed with it. A batch applies to the contents at once, and of its
operations on one key the last counts (`write`, `latest`). `ImplementsStore` maps each version to the
contents of each family and checks that every step is one of the abstract store.

### Callbacks

A goroutine is what it has left to do: `todo[g]` is a sequence of lock operations,
calls of listeners and the few steps that others wait for. Every method and every
round of a loop is one such sequence (`AddPeer`, `rounds`, `messages`, ...), and a
listener that calls a method puts its sequence in front. The locks are those of
`sync.RWMutex`: a writer that waits holds new readers up (`blocked`), an `Unlock`
lets them in before the next writer. `MayCall` says which methods each listener may
call, with and without a deadline for `Stop`. What peers are and which are
registered is left to `PeerManager`: a removal may or may not find its peer, an
addition may or may not start a loop.

### MockStore

The steps of a call are steps here: a commit applies one operation at a time, a
snapshot copies key by key, `Reset` replaces family by family, each with `m.mu`.
`ImplementsStore` maps to the abstract `Store` with `Durable` false: a commit counts
from the step in which it takes the lock (`Whole` is the contents with what the
holder of the lock has left to do), a `Reset` is a batch that deletes every key.
`SnapshotsAreWhole` says that what a reader has copied agrees with `Whole`.

### Iterators

Both stores hold the same contents, each has one iterator, and the caller makes the
same calls on both. The engine's iterator is a `Cursor` over the storage keys
between the bounds; `PebbleIsCursor` maps it to a `Cursor` over the keys of the
family by stripping the prefix, `MockIsCursor` maps the index `pos` into the sorted
copy. That both are cursors means that a test with the mock says something about
the program. What `sort.Slice` makes of the keys is said by what it is, a list of
them in order (`sorted`), not by how it is found. A store holds finitely many keys.

## Runs

| run | cfg | shows |
|---|---|---|
| core | `Core.cfg` | two addresses that compete for one slot, one registered twice: all invariants of the peer manager, and that removed peers stay down |
| liveness | `Liveness.cfg` | two peers with a slot each: the peer manager implements `BtcClient`, lost peers are dialed again, failing ones leave, loops and `Stop` end |
| headers | `Headers.cfg` | no gaps, no early `synced`, one lasting peer is enough |
| indexing | `Indexing.cfg` | two callers of `Run`, `Start` and `Stop` with and without peers |
| storage | `Storage.cfg` | two goroutines that write, commit, flush and close, with a crash at any step |
| mock | `Mock.cfg` | two goroutines that read, write, commit, reset and close a `MockStore` |
| iterators | `Iterators.cfg` | every contents of two families whose names overlap, every sequence of moves |
| callbacks | `Callbacks.cfg` | listeners that call back what they may; every call returns |
| claim_* | `Claim*.cfg` | what a comment or a document says and the code does not do: each is expected to be violated |

**Bounds.** The peer manager's hazards are races for one slot and races of an
object with its successor at the same address: two addresses, one slot and two
objects for one address are the least that has them all (`ManagedPeer` bounds the
objects; additions that would need another one are not taken).
`MaxFailureCount` is 2, so that a peer fails, recovers and fails again. `inflight`
is a set: one copy of each address list is on its way at a time. The liveness run has
a slot for each of its two peers, so that a health check may find two entries to
remove, and a threshold of 1, which both reach soon. `Discovery.cfg`,
three addresses that discover each other and compete for two slots, is kept for
replay: what it checks is proved for all sizes. In headers a batch is two
headers, the chain a full and a short batch that grows by one (a multiple of the
batch in `ClaimSyncCompletes.cfg`), peers connect twice and two messages are on
their way. In indexing each of two callers makes two calls, enough for Run against
Run, Run against Stop and Stop against Stop, each after a Stop that timed out. In
storage one family's name begins with the other's and the keys lead from one to
the other; a batch has up to two operations, so that half a batch is visible if
it ever is (`Batches` lists those that callers commit); two writes may be lost in
the one crash (`MaxUnsynced`, which stops callers, not calls). In mock the batches
move a value between keys and families, so that half of one shows as a value in two
places or in none. In iterators the keys are empty, begin with one another, sit at
the ends of the range of a byte or repeat what separates a name from a key, and
contents are all their subsets; `MaxPast` is 0: the caller moves on from an end no
further (see below). In callbacks a caller makes two calls, each other goroutine
begins one round, check or message (`MaxTurns`): a deadlock needs each holder of a
lock once, and one of them to have got that far before.

**Fairness.** Weak fairness of the steps of a goroutine that no one else blocks:
the Go scheduler runs it, and a dial ends by its timeout, a delay by its timer. No fairness
for callers, for remotes (`Negotiated`, the end of a connection, an addr message),
for the deadline of the context given to `Stop`, nor for health checks: what is
proved of them must hold without. In `PeerManager` each connection loop, the
health loop's return, the steps of a removal that has begun, those of `Stop` and the
handling of an address list are fair. `HeaderIndexer` makes the handlers and a remote that stays connected fair:
a remote that never answers indexes nothing. `Indexer` and `PebbleStore` use strong
fairness for the step that takes a mutex: `sync.Mutex` hands itself over in order
to one who has waited for long, so a waiter is not passed over for ever. `Callbacks` makes every goroutine
fair, and with it listeners that return, contexts that expire when they have a
deadline, and connections that end: a `Stop` without a deadline waits for what its
sweep missed (`StopDisconnectsAll`). Weak fairness is enough there since what
others begin is bounded, and no one is overtaken for ever. The reader
of a liveness property should note its hypotheses: `StopReturns` of the peer
manager is about a `Stop` whose sweep left no connection open, for the claim
`StopDisconnectsAll` shows that it may leave one.

**Deadlock.** The configurations with `CHECK_DEADLOCK FALSE` are of systems that
may stop: the process died in a panic, or every goroutine is gone and the bounds
leave no call. Storage and iterators check for deadlock.

### Disagreements with comments and documents

The runs named `claim_*` are listed with quotes in `PROJECT.json` ("findings"):

* `EvictsOnlyItself`: an eviction deletes by address and may hit the successor of
  the peer that failed (manager.go:238).
* `StopDisconnectsAll`: `Stop`'s sweep misses a connection that is dialed but not
  yet attached.
* `StopIsRepeatable`: a second `Stop`, after one that timed out or after another
  `Start`, closes `done` again and panics.
* `StagingIsSafe`: a batch of a `MockStore` is filled without the lock and reads the
  map that `Reset` assigns to (mock.go:241).

Others were seen on the way and can be replayed with their configuration:

* with `MCPeerManager`: `StopWaitsForAll`, `ConnectionsWithinMaxPeers`,
  `ConnectedIsNegotiated`, `GivenUpIsMarked`, `WaitGroupNotReused`;
  `RemovalDisconnectsAll`: a removal that comes between `AssociateConnection` and
  `setPeer`, or tests `mp.Peer()` just before `setPeer`, leaves the connection open and
  the loop waiting on it (manager.go:88, 189; client.go:108 'RemovePeer disconnects and
  removes'); and `CancelledLoopExits`: a loop whose context the caller cancels stays in
  `WaitForDisconnect` until the remote hangs up (manager.go:148);
* with `MCIndexer`: `CleanupIsSafe`, and `NotRunningIsStopped`: after a `Stop` that
  timed out the indexer says it is not running and its client still is;
* with `MCHeaderIndexer`: `HeadersAreTheChain`, and `SyncCompletes`: a chain that ends
  with a full batch never counts as synced;
* with `MCIterators`: `ClaimMockIsCursor.cfg`, one move beyond an end, after which the
  mock counts steps that `PebbleDB` forgets (mock.go:321), and
  `IteratorsUseOpenEngine`: iterators do not take `p.mu` and reach the engine after
  `Close` (pebble.go:371);
* with `MCCallbacks`, both refuting `CallsReturn`: `ClaimCountsOnDisconnect.cfg`, an
  `OnPeerDisconnected` that calls `PeerCount` waits for the lock that its own
  removal holds (manager.go:94), and `ClaimAddsOnConnect.cfg`, an `OnPeerConnected`
  that calls `AddPeer` and a `Stop` without a deadline wait for each other
  (client.go:62). No comment tells users what their listeners may not do.

The documentation also differs in small ways that no property
is about: `PeerCount` does not take `BtcClient.mu` and health checks take the
write lock of the registry (docs/pkg/btcclient.md:164-165).

## Proofs

All theorems hold for every value of the constants under the assumptions named in
the modules: finite sets of addresses and objects, positive thresholds, address
lists that are sets of addresses (`ConfigAssumption`, what `Config.validate`
demands and the shape of the inputs).

**PeerManagerProofs.** `TypeOK` is not inductive: that a failure count does not
pass its threshold, and that `wg` does not become negative, depend on where the
loops are. `Counters`, the conjunction of `TypeOK`, `HealthChecksSpareTheLiving`,
`GoroutinesCounted` and `StopProtocol`, is. `CountersStep` proves it action by
action; the cardinality facts are lemmas (`LiveLosesOne`, `LiveKept`, `LiveGains`,
`ReturnCounts`), and both ways to add peers are reduced to one relation
(`Registers`, by `AddsFresh`), so that each invariant treats them once. From
`Counters` follow `TypeCorrect`, `AllCounted` and `HealthChecksRemoveNoneAlive`.
`ConnectionOwned` and `ListenersNotMisled` are inductive over `TypeOK` (`OwnedStep`,
`ListenersStep`), `RegisteredIsServed` and `NoRunawayLoop` over `TypeOK` and `Removing`
(`ServedStep`, `NoRunawayStep`); `SweepReachesAll` needs `StopProtocol` and `NoRunawayLoop`,
because a loop that left the registry before the sweep must have been cancelled;
`GracefulStopIsFinal` needs `GoroutinesCounted`: `wg` at zero means that no loop
is live. `MaxPeersRespected` is inductive with the arithmetic of `Fits`.
`Removing` is what a removal has done so far (`RemovalInOrder`): it says that entries being removed are registered, that a registered object has a loop, that
an entry is cancelled before it is disconnected and deleted, and that a loop in
`"evicting"` has been cancelled itself if it is still registered.
`RemovedStaysDown` is the action property `RemovedIsNotDialed`, for all sets of peers: it rests on
`NoRunawayLoop`, since a dial needs a context that is not done, and an object which
is not registered and dials must be live.

`Implementation` is `Spec => ImplementsBtcClient`: the
initial states map to initial states, and each action maps to one of the abstract
client or to a stutter, one lemma per abstract action. It needs three facts of the
detailed state (`Guarantees`): the capacity, that a listener told of a connection
still has it, and that a graceful stop is final. The registry being a map turns
the size of the set of objects into the number of addresses (`SameCardinality`).

**HeaderIndexerProofs.** `NoGaps` rests on what is on its way between the program
and its peers, for a list of headers says nothing of the next message. `IInv` says
it: every locator, read, requested or about to be, was the tip of some moment
(`Located`); every answer on its way continues one of those without a gap, and one
that is not full reaches the height the chain had at the start (`Answered`); with
each height the index holds all lower ones (`Downward`); and a handler that will
set `synced` has them all (`Finished`). `BatchStep` is the step that matters: a batch
that continues a known header leaves no gap wherever other handlers have put the
end of the list meanwhile. `TypesStep` needs `Located` too: no answer goes beyond
the chain. From `IInv` follow `Types`, `ChainWithoutGaps` and `SyncedIsCaughtUp`, for
any number of peers and any size of a batch. They assume remotes that answer as the
protocol says, all on one chain.

**IndexerProofs.** `AgreesWithClient` is inductive; `StopsAreSerial` and
`NilMeansDisconnected` are inductive over the types of the callers' places and
results (`Types`). `EachResolvedOnce` is about lists of any length: `TakingExists`
shows that the recursive function in `unseen` is one, and `Left` says what its first n
steps have made of the list (each peer once, earlier ones first); `AddLeaves` is one
step of that, `UnseenLeaves` all of them. `TypeCorrect` needs that no caller has more
peers to add, or counts more failures, than the list had (`PeersCounted`), or
`connectPeers` could not tell that all of them failed.

**KeySpaceProofs.** For all names without a NUL byte and all keys, a storage key
determines family and key (`FamiliesAreDisjoint`), the bounds of a family's
iterator hold exactly the keys of that family (`RangesAreFamilies`), and storage
keys of a family are ordered as its keys are (`OrderIsKept`). `db.Open` does
not check that names are free of NUL bytes: that is the theorems' assumption and
the caller's duty.

**IteratorsProofs.** `PebbleIteratorIsCursor` is the refinement `PebbleIsCursor` for
all contents, keys and moves: with the order kept, the least storage key above a
bound is that of the least key, so each move of the engine's iterator is one of the
cursor over the family. `MockIteratorIsCursor` is the refinement `MockIsCursor`: the
bytewise order of keys is total (`Asymmetric`, `Transitive`, `Total`), so every finite
set of keys has a sorted list (`SortedExists`, by the ranks of its members), whose
first and last entries are the least and the greatest key (`FirstIs`, `LastIs`) and in
which `sort.Search` ends at the least key that is not before the target
(`SearchEnds`). It assumes that `MaxPast` is 0, a caller that makes no move beyond an
end: with 1 TLC refutes it (`ClaimMockIsCursor.cfg`). `TypeCorrect` has no such
assumption; it says how far `pos` can run.

**PebbleStoreProofs.** `IInv` has what the lock gives (`Guarded`: a call at work holds
`p.mu` for reading, no one reads a closed store, who closes it is alone and finds the
engine open) and what the log owes (`LogFollows`: with sync writes it is behind only
while a call waits for it). From it follow `EngineIsOpen` and `WritesAreDurable`. With
the types of what is in the log and in the batches (`Shape`) and the room that a
writing call has been promised in the log (`Room`, which counts calls and so assumes
finitely many goroutines) follows `TypeCorrect`. `Implements` maps the log version by
version: a write to storage keys is the write to the families (`WriteMaps`) because
names without NUL bytes make storage keys differ (`StorageKeysDiffer`), so appending,
flushing and losing versions map to the same of the abstract log (`LogMaps`), and every
other step rests (`StepMaps`). It assumes such names: with a NUL byte in a name the
families need not be disjoint.

**MockStoreProofs.** A commit is a loop, and the abstract store sees one step. `AfterTail`
says that what a batch makes of the contents is what its tail makes of them after its
first operation, and `AfterWipe` that a batch which deletes every key leaves none. In
`IInv`, `Locked` says that a goroutine is in the middle of a call exactly while it holds
`m.mu`, and `AtWork` what it found out before and still holds: the store is open, and
what it has copied is what is there. So the contents with what the holder of the lock
has left to do (`Whole`) change when the lock is taken and never in the loop:
`Implements`. It assumes finitely many families and keys, of which a `Reset` makes a
batch. `ReadersSeeWhole` is `SnapshotsAreWhole`: a reader never sees half of a commit.

**CallbacksProofs.** `LockOrder` for any number of goroutines, loops and messages,
and for listeners that call any method back. In the invariant, `OnPath` says that
what a goroutine has left to do leads, instruction by instruction, from the locks it
holds now to none. `Path` states this with a function that gives the locks held
before each instruction, so that the list is never taken apart further: paths join
(`PathJoin`) and lose their head (`PathHead`), each method is a path from no lock to
none (`PathMethod`), and so is all that goroutines begin (`PathBegin`). The rest of
the invariant relates the list to the lock: one writer, and those blocked by a writer
stand before an `RLock`. `TypeCorrect` adds that a writer which is past its `Lock` has
no readers beside it (`Exclusive`) and that readers wait for a writer only (`Waiting`);
with the paths (`HoldsWhat`) it follows that a method that ends holds no lock and
that each unlock is by the holder. Both theorems assume `QuietRemoval`, that OnPeerDisconnected
calls nothing back: with the listener of `ClaimCountsOnDisconnect.cfg` TLC refutes `LockOrder`
as well, so they cannot do without.

Each invariant, action property and refinement that a passing run checks is a theorem.
Only model-checked are the leads-to properties (`KeepsReconnecting`, `GivenUpLeaves`,
`StoppedLoopsExit`, `StopReturns`, `CatchesUp`, `CallsReturn`, `CloseReturns`), since
fairness, that is, `ENABLED`, is out of the prover's reach, and the claims, which are
refuted. The prover has no induction rule either, as it cannot instantiate the
library's, which takes a predicate. Where a proof needs one it takes the least natural
number without the property and refutes it (`LeastNatural`, from the library's `WFMin`).

## Abstractions

* A listener call that removePeer makes under `peersMu` is one step with the
  delete in `PeerManager` (no one sees the delete before the lock is free), and
  listeners do not call the client back there: that is `Callbacks`, in which there are
  no peers but what a removal may find.
* In `Callbacks` a connection ends at some time and one `Stop` is called;
  `PeerManager` has what a second one does.
* Calls that fail without a change of state (a duplicate address, a full registry,
  an unknown column family, a nil key, a closed store) are not steps.
* btcd's `peer.Peer` is a connection that is negotiated or closed by the remote
  at any time, or by `Disconnect`; its input handler finishes before the next
  connection's starts.
* `Close` of the engine always closes it, whatever error it returns. A batch is not
  used again after its Commit. A sync makes all of the log durable, also the
  writes that others have not been told of.
* Two accesses of a `MockStore`'s map that are not ordered by its lock are one step
  (`Fault`): whether Go reports, corrupts or survives them is not told apart.
* Validation of options, logging and metrics are left out.

## Not modelled

The message handlers of the indexer: no listener is registered for them, and all
but `OnHeaders` are empty. Database options are handed to the engine and change
nothing that the models see but `WithSyncWrites`, which they have. The logger wraps
zap; its default is one variable under a lock. Configuration is read once. Options
and configuration are validated by tests of single values, which the assumptions on
the constants stand for. The `main` functions construct and call.

## Plan

Done, in this order: `PeerManager` with its runs; its proofs; `BtcClient` and the
refinement, checked and proved; `HeaderIndexer`; `Indexer` on `BtcClient`;
`KeySpace` with proofs, `Store` and `PebbleStore` with the refinement; `Callbacks`;
`MockStore` as a second implementation of `Store`; `Cursor` and the iterators of both
stores; the proofs of `Indexer`, `HeaderIndexer` and `PebbleStore`; the lock order of
`Callbacks`; the types of all modules, both stores as implementations of `Store` and
both iterators as implementations of `Cursor`, proved.

To do:

1. `OnHeaders` of the indexer and its peers, once they are registered.
2. What the theorems say together: that what `Indexer` promises on the abstract
   client holds on `PeerManager`, as one composed module.
