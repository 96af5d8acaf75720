# uDepot-ng in TLA+

A verification development of uDepot-ng: a log-structured key-value store with
an in-memory index of hash tables, lock-free reads, userspace RCU and a
relocating garbage collector, and the memcache server on top of it. The modules are written from the C++ and C
sources; `PROJECT.json` maps each definition to the lines it models. Paths
below are relative to the repository (`src/udepot/...`, `extern/salsa/...`).

## The system and its parts

| Part | Source | Module | State |
|---|---|---|---|
| RCU: sections, grace periods, callbacks | `src/udepot/rcu.*` | `GracePeriod`, `Rcu`; proofs `RcuInv`, `RcuCounts`, `RcuSteps`, `RcuProofs` | modelled |
| Hash table: hopscotch buckets, stripe locks | `hash_table.*`, `hash_entry.h` | `HashTableOps`, `HashTable`; proofs `HashTableProofs` | modelled |
| Directory: snapshots of tables, grow | `directory.*` | `Directory`; proofs `DirectoryProofs` | modelled |
| Space waker: waiters and grow requests | `store.cc` 1349-1464 | `Directory` | partly |
| Store operations: put, del, get, exists | `store.cc` 1715-2235 | `Store` | partly |
| Garbage collection callbacks | `store.cc` 1479-1657 | `Store` | modelled |
| Segment metadata, log recovery | `store.cc` 157-415, 1659-1713 | `Store` | partly |
| salsa: allocator, capacity manager, collector | `extern/salsa` | inside `Store` | partly |
| Index persistence, open, close | `store.cc` 417-1327 | `DurableMap`, `IndexPersist` | partly |
| Coroutines | `coro.h` | `Task`; proofs `TaskProofs` | modelled |
| Asynchronous I/O: AIO, io_uring | `io/aio.*`, `io/uring.*` | `Server` | partly |
| Network sockets | `io/net.*` | `Server`; proofs `ServerProofs` | partly |
| Memcache server: connections | `src/net/memcache.*` | `Server` | partly |
| Memcache server: commands | `src/net/memcache.*` | `MemcacheValues`, `Cache`, `Memcache` | partly |
| SPDK backend | `io/spdk.*` | | left out |
| Table memory, buffers, POSIX I/O | `table_region.*`, `buffer.h`, `io/posix.h`, `io/fd_io.h` | | left out, but for failing I/O |
| JNI and Python bindings | `src/jni`, `src/python` | | left out |

How they interact: an operation is a coroutine inside one RCU read section. It
looks its key up in the directory's current snapshot, without locks, and
verifies the key by reading the record. A write first puts its record in the
log, in a grain salsa hands out of the staged segment, then commits by changing
one index entry under the stripe locks of its table. A write that finds its
table full, or no space, leaves its section and waits for the space waker
thread, which also runs `grow()`. salsa's collector thread relocates the live
records of a segment and frees it after a grace period. After a crash the index
is rebuilt from the log: a record's place in recovery order is its segment's
timestamp, then its grain. A clean close writes the tables to the segments they
own, and the next open restores them. The memcache server has a handler thread
and an epoll poller thread per connection; its commands are coroutines that move
between the two and call the store's operations.

## Modules

**`GracePeriod`** is what `synchronize()` promises (rcu.h 66-73): a call returns
only when every section that was open at its start has ended.

**`Rcu`** is the implementation. A section (`sect`) opens on one thread and may
close on another. `ReadLockLoad` reads the index, `ReadLockBump` counts;
between them anything may happen. Counter stores go through a FIFO store buffer
per thread (`buf`, `FlushOne`), which only `heavy_barrier()` empties, because
readers have a compiler barrier only (`ReaderFence` gives the fallback).
`synchronize()` is a process that reads one counter per step. `call()`,
`barrier()`, the reclaimer thread and the destructor are modelled with their
mutex and condition variable. Slots are claimed on first use, handed on at
thread exit with their counts, and shared when they run out. The updater
publishes successive values of one pointer and frees the old one after
`synchronize()` or by `call()`, as `grow()` and the collector do. An instance
of `GracePeriod` inside `Rcu` gives the refinement: its open sections are those
that have returned from `read_lock()`.

**`HashTableOps`** has the pure functions on a table: `lookup`,
`find_free_slot`, displacement, `insert_locked`, `update_locked`,
`remove_locked`, `clear`. An entry is a record of its four fields; `off` is its
distance from the home bucket.

**`HashTable`** runs them concurrently. A writer locks the stripes `lock_for()`
names one by one, decides by its key's entry, then searches, moves entries up
(store, then clear: two steps) and stores. A reader loads one slot per step and
goes on behind an entry that is another key's.

**`Directory`** composes the table functions with RCU (as grace periods), the
waker and the writers. A snapshot is a generation with its tables, a frozen
flag and whether it was deleted. `grow()` is one process: segments for the new
tables (`GrowTable`, `GrowAgain`, `GrowFails`, spare tables), freeze,
`synchronize()`, copy slot by slot, publish, notify, retire, and `Rcu::call()`.
A write that finds its snapshot frozen or its table full first leaves its section and
remembers the generation it saw (`Frozen`, `InsertFull`), and queues in a later step
(`SpaceWait`), so a grow may come between: the waker then takes a request for a
snapshot that is no longer current. `ResumeWaiters` and the waker's loop end the wait;
`CvCheck`/`CvSleep` are the collector's blocking wait. Waits for a grain of the log
(`allocate_or_wait()`) are not here, since puts are index operations only. The tables' names are the tag
bits that select them.

**`Store`** composes operations, collector, allocator and device. `disk` and
`mdTs` are what the device holds; `dir` the entries of one bucket, which all
keys share, so probes always meet foreign entries; `seg` salsa's view of a
segment (`out` grains with I/O outstanding, `valid` grains, the sections its
freeing waits for). Every read and write of the device is a step of its own, so
all interleavings around `co_await` are there. `StageBegin`/`StageEnd` are the
two halves of staging a segment for a stream. `CrashRecover` stops everything
at any step, lets any subset of the writes in flight reach the device, and
rebuilds the index as `crash_recovery()` does.

**`DurableMap`** is what a store promises over its sessions: a map that only
acknowledged operations change.

**`IndexPersist`** is the device over a store's life. `md` and `disk` are the
metadata and grains of the segments; `pc` says whether the store is down,
opening, running or flushing. `Close` plans the writes of `flush_index()` (all
tables, then all footers) and `FlushWrite` makes them one by one. `Open` is the
scan of `restore_index()`; it chooses the newest set of tables and
accepts it if it is complete and its entries point into data segments, counting the
valid grains of each segment from the loaded tables (`Counted`, `RestoreRanges`).
`ClearFooter` clears the footers on the device one by one, and
`Restore` or `Recover` starts the session from the index or from the log. The log scan
takes the segments in any order and one record after the other (`LogScan`,
`recover_record`), as it counts grains when a later record replaces an earlier one. `Crash`
comes between any two steps, a write under way having landed, not, or in part.
Grows take index segments and `GrowPublish` gives the old ones back. Operations, the
collector's relocation of one record and the log scan are a step each: their
interleavings are `Store`'s. A write whose grain is older than the key's entry is not
committed (`Rewrite`): its record stays in the log, and its segment is closed.

**`Task`** is `CoroTask`: an operation is a chain of frames, `fr` and `cont` hold
each frame's state and `continuation_`, `th` the stack of each thread. `Return`
(with the exchange at final suspension), `AwaitReady` and `AwaitSuspend` are the
steps whose races matter; `Resume` is a wake-up on any thread.

**`Server`** extends `Task` with the connections. `conn` is where
`handle_connection()` is, `sv` and `kid` where the two frames are, `waiter` the two
slots of `EpollState`, `space` the queue of operations that wait for space, `io` the
store I/O in flight and the thread that submitted it, `po` the poller's loop and the
events it holds, `conn_fds` the list `stop()` walks. A command is a plan of three
numbers: waits for space, store I/Os and sends. A frame runs on the handler, on the
poller that resumed it at an event, or on the store's waker thread that resumed it from
its wait (`WakerTakes`, `WakerResumes`), and that thread reaps the I/O submitted on it
(`WakerPolls`). Every step of a frame is also a step of `Task`.

**`MemcacheValues`**, **`Cache`**, **`Memcache`** are about one key. `Memcache` has
each command as the store operations it makes, with their conditions
(`put_rc`, `del_rc`, `if_version`), relocations that change a record's version, a
clock and failing operations. `Cache` is the promise: each command takes effect at
one moment, on the item the key holds then. A value is a number, or the sequence
of blocks it was made of.

`MCServer` joins `Server` and `Memcache` for TLC. They share no state, so each
behaviour is about one of them (`half`).

### Abstractions

- *RCU in `Directory` and `Store`*: a section is a flag of the client; a grace
  period is the set of clients whose sections were open at its start. `Rcu`
  refining `GracePeriod` is the justification.
- *Tables*: in `Directory` a small table is covered by one stripe, so a table
  write under the lock is one step, except displacement, which keeps its steps.
  `HashTable` has several stripes and single-word stores.
- *Puts in `Directory`* are upserts of the index only (no log); the modes, the
  log and the re-checks are in `Store`, where the index is one bucket.
- *Records* take one grain. A key's identity on the device is the key; its
  bucket and tag are constants (`HomeOf`, `TagOf`).
- *The probe array* (`KeyProbe`, at most `kHopRange` entries) is a set
  without a limit.
- *Versions*: `if_version` and `-ESTALE` are in `Memcache`, over a store whose
  operations are atomic, and not in `Store`.
- *Frames below a command* in `Server` are folded into the command's frame. `Task`
  has any depth.
- *Multi-key gets* are one get for each key.
- *The collector's victim* is any full, drained segment; the real choice depends
  on bins of valid counts. Any choice is covered.
- *Resumed operations* in `Directory` run on their own, where the code runs them on the waker's
  thread up to their next suspension. The model has more behaviours. `Server` has the waker's thread.
- *The waker's retry pause* after `-EAGAIN` is the step that resumes the waiters.

## Runs

All runs are `tlc -workers 2 -config <cfg> <module>`; each takes a few minutes at
most. States are distinct states.

| Run | Config | States | Checks |
|---|---|---|---|
| `rcu` | `MCRcu` | 1,040,000 | `TypeOK`, `NoUseAfterFree`, `BarrierCovers`, `DestroyRunsAll`, refinement `ImplementsGracePeriod`, no deadlock |
| `rcu_live` | `MCRcuLive` | small | `SyncReturns`, `CallbacksRun`, `BarrierReturns` |
| `hash` | `MCHashTable` | 891,000 | `TypeOK`, `LookupLinearizable`, `EntriesExact`, `StripesProtect`, `SomeWriterGoesOn` |
| `directory` | `MCDirectory` | 138,000 | `TypeOK`, `CopyFits`, `GrowsOnce`, `EntriesExact`, `SnapshotAlive`, `GetLinearizable` |
| `directory_live` | `MCDirectoryLive` | 156,000 | `SegmentsExact`, `WritesEnd` |
| `directory_get` | `MCDirectoryGet` | violation | `GetLinearizable` |
| `store` | `MCStore` | 150,000 | `TypeOK`, `RecoveryKeepsCommits`, `ValidIsExact`, `FreeIsUnreferenced`, `CommitsMoveForward` |
| `store_reads` | `MCStoreReads` | 744,000 | `OneEntryPerKey`, `RecoveryKeepsCommits`, `GetLinearizable`, `FreeIsUnreferenced` |
| `store_acks` | `MCStoreAcks` | violation | `RecoveryReproducesAcks` |
| `index` | `MCIndexPersist` | 336,000 | `TypeOK`, `IndexAgreesWithLog`, `SegmentsExact`, `TablesOwnSegments`, refinement `ImplementsDurableMap` |
| `index_reuse` | `MCIndexReuse` | violation | `NoRecordComesBack` |
| `server` | `MCServer` | 126,000 | `FrameSafety`, `OneWaker`, `OpenIsTracked`, refinement `ImplementsCache`, `StopReturns` |

What they show:

- **RCU.** Nothing a section may still read is freed, although reader
  increments are neither ordered nor atomic with the reading of the index, a
  section may end on another thread than it began on, and counts are inherited
  with a slot. `barrier()` returns only after the callbacks queued before it,
  and destruction loses none. `synchronize()` implements `GracePeriod`.
- **Hash table.** A lock-free lookup that overlaps inserts, displacement and
  removals returns an answer that was right at some moment of it; a key has
  exactly one entry, within reach of its bucket; no slot is written without the
  stripes that cover it; and writers never all wait for each other.
- **Directory.** Across a grow no write is lost, doubled or made in a
  superseded snapshot; a snapshot is deleted only when nobody can use it; the
  copy always fits; a request made for a snapshot that was superseded before the
  waker took it starts no second grow; each segment is used by a table, spare, or given back on
  every way out of `grow()`; and every write, once begun, ends.
- **Store.** At every state, a log scan would find what the index holds for each
  key: no commit depends on its order against a relocation, a rewrite or a
  tombstone that is dropped. Valid-grain counts are exact, so segments are
  neither freed early nor leaked, also when device operations fail. A get
  returns what the key held at some moment of it, though its grain may be
  relocated and reused under it.
- **Index.** Whatever the device holds when the machine stops, an index that
  `restore_index()` would accept says the same as the log, also after a failed
  or torn write. A session starts with the same accounting of segments from
  either, and over sessions the contents change by operations only, provided
  that no number is given to two data segments (finding 3).
- **Server.** A coroutine is resumed once by the one place that knows it, also
  with stale events and completions that race `co_await`: a frame that waits is
  in exactly one of a slot of `EpollState`, the I/O in flight and the queue for space.
  The threads use no frame after its end; the descriptor of an open connection is always where
  `stop()` finds it, although a number is reused before its last owner has erased
  it; and `stop()` returns, also when a command's last I/O was submitted by the
  waker's thread and only that thread can reap it.
- **Commands.** Read-modify-write commands lose no update to another client, to
  a delete or to a relocation, the removal of an expired item never removes a
  newer one, and a command during which the store fails changes nothing.

Each property of each passing run has a mutant in `PROJECT.json`: a plausible
change of one mapped definition that makes TLC find the property violated.

### Bounds, and why they are enough

- *Rcu*: two threads, two sections and one updater, with one own slot
  (`kMaxThreads = 1`), so that the second thread takes the shared one, and two
  published values (`MaxVersion`). The hazard needs one section that read the
  index and has not counted while two flips go by: `MaxEntries = 2` allows it.
- *HashTable*: hop range 2, twelve buckets and stripes of eight slots, which is the
  least `kWriteReach` allows here. The seven keys' locks are the first stripe only,
  the second only, and both, so that two writers work side by side, a third waits for
  either, and a wrong set of stripes lets two write one slot. Slots on both sides of the
  boundary are full, and an insert displaces three entries across it. Three writes let
  a key be removed, displaced and inserted again while one lookup is under way.
  Lookups are of a key that is displaced and of one that is inserted (`Lookups`); the
  proofs have any.
- *Directory*: three slots per table and four keys: the first insert finds the
  table full, and in the grown directory it displaces an entry. Two generations
  can follow the first (`kMaxTableBits = 2`), so a request that names a superseded
  snapshot could start a second grow. `directory_live` starts with one segment free, so that a
  grow of two tables must wait for the collector, or fails. No run fills a table
  of the largest directory, where `InsertFull` gives up at once; the proofs cover it.
- *Store*: three segments are the least with which user writes, relocation and
  reuse go on at once. `MaxTs` bounds the segments staged; four is one more than
  the number of segments, so one is reused. One-grain segments (`store_reads`)
  make every write stage a segment. Two clients and the collector are the three
  actors of the commit re-check. `store_reads` has two keys in one bucket with one
  tag. `Budgets` pairs operations with faults: `store` has three operations
  without faults, or two with up to two faults, of which any may be a crash, at
  any step, with operations after it.
- *IndexPersist*: two keys that a grow puts in different tables; four segments of two
  grains, the least with which a grow over records completes, and with which the
  collector moves a key ahead of the segment that a write of it goes to. Two operations,
  and two events (`MaxEvents`), each a close, a crash or a failing device operation:
  a crash while closing or opening, a failed write in either, an open that falls back
  to the log after one. Three data segments are staged (`MaxTs`), so a write that must be
  made again (`Rewrite`) is left at its first attempt. `index_reuse` has one key, three
  segments and three operations.
- *Server*: two connections on one descriptor number, so that it is reused; a
  request in two messages, so that a `recv` is made while the frame waits for
  more; commands that only send, that only do I/O, and that wait for space, then do
  I/O and send twice, so that the first I/O is submitted on the waker's thread.
  One request per connection: its handler is then back where it was before it.
- *Memcache*: two clients with two commands between them are enough for each pair
  of commands to interleave; the clock ticks once past an item's expiry; the
  store fails once. `MaxVer` lets a relocation come between read and write.

`CHECK_DEADLOCK FALSE` is set where a bounded workload comes to its end.
`Rcu` has an action `Terminated` instead, and its deadlocks are checked.
Symmetry is used over interchangeable keys, clients, threads and segments in
runs without liveness properties only.

### Fairness

- `Rcu` (`FairSpec`): threads run, sections end (an operation is not suspended
  for ever inside its section), store buffers drain. Nothing is assumed of new
  sections or of thread exits, which may happen or not.
- `Directory`: each writer's, getter's and the collector's operation goes on once begun
  (its start is not assumed; `WritesEnd` says that each is idle again and again), so does the waker's loop, and the collector goes on freeing segments
  while there are some to free (`SegmentFreed`). Without that last assumption a
  writer waits for space for ever, as the code does.
- `Server` (`ServerFair`): handler, poller, accept, stop and waker threads are
  scheduled, the device completes what is submitted, and waits for space end: the waker
  resumes its waiters, and a plan has finitely many waits. That is what the collector
  gives a store that is not full for ever; in one that is, the code's `stop()` waits too. Nothing is assumed of the clients,
  which may stay silent or never read, or of who calls `stop()`.

`HashTable` has no temporal property: `SomeWriterGoesOn` says that locks never
block all writers, and says nothing of a writer that others keep overtaking,
which `std::mutex` does not exclude.

## What is proved

Five groups of proofs. Their assumptions on constants are named `ASSUME`s, which TLC
evaluates in the runs. The constants that only bound a run (`MaxEntries`,
`MaxVersion`, `MaxWrites`, `MaxReads`) are any naturals.

`RcuProofs` proves, for every number of slots, threads, sections, updaters and
published values, with store buffers of any length, under `RcuAssumption` (finitely
many threads and sections, distinct names):

- `GracePeriods`: `Spec => ImplementsGracePeriod`, the refinement;
- `TypeCorrect`, `NoSectionUsesFreed`, `BarriersCover`, `DestroyFreesAll`: the
  invariants `TypeOK`, `NoUseAfterFree`, `BarrierCovers`, `DestroyRunsAll`.

The inductive invariant is `IInv` of `RcuInv`. Its heart is `CountsOK` and `ScanOK`. The
lock bumps made on an index, visible or still in a store buffer, exceed its unlock
bumps by the sections open on it, on whichever slots they were made. A scan sums the
unlocks of all slots, has a barrier, and sums the locks: what it has read so far
bounds what it will find, so it cannot find the sums equal while a section that it
waits for is open on the index. `synchronize()` scans the index out of use, flips,
and scans the other, hence both indices, and a section that loads the old index late
is none it waits for. `RefsOK` then says that who refers to a replaced value is among
the sections waited for before it is freed, `CallbacksOK` counts the callbacks in
front of a `barrier()`, and `DestroyOK` says where each replaced value is.
`RcuCounts` has the sums and what a bump, a draining store and the barrier do to
them, `RcuSteps` the steps of callers, reclaimer and callbacks, and `RcuProofs` the
scans and the theorems.

`HashTableProofs` proves, for every table size, hop range, displacement limit, stripe
size at least `kWriteReach`, set of keys with their hashes, readers and writers:

- `LocksProtect`: `Spec => []StripesProtect`;
- `OneEntryPerKey`: `Spec => []EntriesExact`;
- `LookupsLinearizable`: `Spec => []LookupLinearizable`; and `TypeCorrect`.

The assumptions are `HashTableAssumption`, `UsersAssumption` and
`RestoredAssumption`: the table at the start has one entry for each present key, in
reach of its bucket, which is what inserts or a restored index leave. First,
`lock_for()` names two stripes, and they cover every slot a write of the bucket looks
at because a stripe is no shorter than the write's reach (`LocksCover`); so writers that
have their locks use disjoint slots (`Disjoint`), and what one found there stays so.
The invariant says that entries are in place (`InPlace`), that a present key has an entry
(`HasCopy`) and that two copies are the two ends of a displacement (`OneCopy`). For a
reader, `Ahead`: its key was absent at some moment of the lookup, or has an entry at or
above the reader's position. Entries move up, and are stored before they are cleared,
so this is kept by every step of the writers; a lookup that reaches its end thus may
answer that the key is absent.

`DirectoryProofs` proves, for every number of buckets, hop range, displacement
limit, set of keys and their hashes, set of clients, restored content and
number of grows:

- `TypeCorrect`: `Spec => []TypeOK`;
- `CopyAlwaysFits`: `Spec => []CopyFits`. `grow()` ends its copy loop with an
  assertion that `insert_locked()` succeeded; the theorem says it does.
- `GrowsOnlyOnce`: `Spec => []GrowsOnce`. The generation a grow was begun for is the
  current one until it has published its tables.

The assumptions are `HashTableAssumption` (positive sizes) and
`DirectoryAssumption` (hashes in range, well-formed restored tables, disjoint
roles).

`CopyFits` is not inductive: that an insert succeeded says nothing of the next
one. The inductive invariant is `IInv == GrowInv /\ WaitOK`. Its heart is `CopyOK`:
a slot of a new table is empty while the copy of the one old table it is filled
from has not passed that slot (`Untouched`). An entry copied from slot `i`
therefore finds slot `i` of its new table free, so `find_free_slot()` stops at
`i` or below, which is within the entry's reach because the entry was in reach
in the old table; nothing is displaced. That needs `TableOK` of each table an
entry may be copied from (each entry within the hop range of its bucket, in the
table its tag selects), hence that every write keeps it (`UpdateOK`, `RemoveOK`,
`MoveOK`, `StoreSlot`), also one into a snapshot no longer current; and
that clients hold published snapshots only (`ClientOK`), never the one being
filled. `WaitOK` relates the waker's queue to the operations that wait, because
the waker writes their state.

`TaskProofs` proves, for every set of operations and threads and every depth of
nesting, under `TaskAssumption`: `TaskInvariant` (`TaskSpec => []TaskInv`) and from
it `FramesSafe` (`TaskSpec => []FrameSafety`). That one thread runs a frame and no
parent is lost is not inductive: whether a child's exchange finds its parent
depends on where the parent's thread is. `StacksOK` therefore says, for each thread,
which frames of its stack run and what it is about to await, and `FramesOK` what
each value of `continuation_` means for the frame and its parent. The proof has one
lemma per change of a stack and one step per action.

`ServerProofs` proves, for every number of connections, descriptors, message
parts and plans of a command, under `ServerAssumption`:

- `ServerFramesSafe`: `ServerSpec => []FrameSafety`, from `TaskProofs` and a lemma that
  each step of the server is one of `Task`'s or leaves its variables alone.
- `ServerOneWaker`: `ServerSpec => []OneWaker`. The invariant is `WakerInv`, the
  property and the types of the slots, with `TaskInv` for who runs which frame.
- `ServerOpenIsTracked`: `ServerSpec => []OpenIsTracked`. The invariant is
  `TrackedInv`: a number is in `conn_fds_` at least as often as there are
  connections that hold it and have not erased it (`Holders`). Counting is what
  makes it inductive: a late erase takes one of two.

Only model-checked:

- all liveness, and `SomeWriterGoesOn` of `HashTable`, which is about what is enabled:
  fairness and `ENABLED` are outside what the prover handles;
- `Store`, `IndexPersist` and `Memcache` with their refinements;
- of `Directory`, `EntriesExact`, `SegmentsExact`, `SnapshotAlive` and `GetLinearizable`.

## Findings

1. **A get across a grow can miss a present key** (`directory_get`).
   `get_record()` and `exists()` carry an offset found in one table into the
   next `lookup()`, which may use the table a grow has published meanwhile, where
   the key can be at a lower offset. It takes another key with the same bucket
   and tag in front of it. The documentation says that entries move up only. For
   keys that share their tag with no other, `GetLinearizable` holds (`directory`).
2. **A rejected delete can undo an acknowledged put at recovery** (`store_acks`).
   A delete that answers `-ENOENT` leaves its tombstone in the log. A put
   acknowledged meanwhile may be older than that tombstone, and a log scan after a
   crash then deletes the key. The documentation says recovery reproduces the
   order of acknowledgement, and names the rejected put as the only exception.
   `RecoveryKeepsCommits`, which leaves such tombstones out, holds.
3. **A segment number can be given twice, and an old record come back**
   (`index_reuse`). Index segments are written with the current number of the data
   segments but take none, and opening restores the counter from data segments
   only. If the newest data segment has been freed and become an index segment, a
   crash forgets its number; the segment is then staged again under the number
   its stale records carry, and the next log scan takes such a record for a new
   one. In the run an old tombstone undoes an acknowledged put. The comment says
   that no record of the segment can come back, and versions are said never to
   repeat. With `NumbersKept`, which leaves the second use of a number out,
   `ImplementsDurableMap` holds (`index`).

## Not modelled

- SPDK: queue pairs, controllers and DMA memory belong to a library outside the
  repository. What it shares with the other backends, that the submitting thread
  alone reaps an I/O, is in `Server`.
- Table memory, buffers and opening of files: system calls and ownership of
  memory, no protocol. Failures of I/O appear as failing steps.
- JNI and Python bindings: argument conversion around synchronous calls.
- salsa's packed lock-free counters, its bins and watermarks: `Store` has the
  segment states they implement. Without them, that a relocation segment is
  always left cannot be stated, so `Store` has no liveness.
- Stopping the space waker at close: no operation may race `close()`.
- The limit of the probe array (`KeyProbe::add()` starts over when full): it takes
  `kHopRange` foreign entries that move during one probe.
- Records of several grains, the 64-bit layouts of entries and of versions,
  `index_bits_for()`, the geometry of segments, device metadata and checksums.
- In the server: malformed requests, `stats` and `version`, flags, values shorter
  than their metadata, which only change an answer. In `EpollState`: accept through
  epoll, `sendmsg`, `recvmsg`, `deregister_fd()`, which the server does not use,
  `shutdown_all()` with waiters, which it cannot reach, and `epoll_wait()` failing,
  after which the poller is gone and its waiters stay.
- `accept_loop()` ends at any error but `EINTR`, as the model has it; that a server
  goes on accepting is therefore not among the properties.
- Several `Rcu` instances per thread, and `membarrier()` failing.
- The refusal to open a store whose log exceeds its capacity (`-ENOSPC` of
  `crash_recovery()`).
- How long a wait for space lasts in `Server`: that is the collector's business.
