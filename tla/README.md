# A verification project for axis-codegen-bridge-rs

The repository is the bridge between the Axis compiler's Core IR and Rust: a
code generator (`src/core_ir_05`, `src/emit`, `src/main.rs`) and the runtime
library the generated programs call (`src/runtime`). M1 programs (the graph
store's server, its timer, its block allocator, its flush workers, the
recovery-log janitor) run on that library: they share queues, memory blocks,
files and a database from several threads, and promise durability across crashes.
The generator is sequential, and has laws of its own: what is accepted has one
reading, what is built links and is current, and a fault is never a success. The
project models both.

Paths below are relative to the repository root; `runtime/x.rs`, or just `x.rs`,
stands for `src/runtime/x.rs` of the crate. `PROJECT.json` maps every definition
that models code to its lines, lists what is hard to test (`hazards`) with the
properties about it, and what contradicts a comment of the code (`findings`).

## Inventory

### The runtime: messages, waiting, threads

| Component | State it keeps | Operations | What is hard | Makes it correct |
|---|---|---|---|---|
| Intrusive MPSC queue (`mpsc_intrusive.rs`) | head, tail, nodes, a waiter slot | push, pop, pop_blocking, pop_blocking_until, drop | stalled producers, park/unpark races, deadlines | FIFO, no lost wake-up, no use after free |
| Bounded channels (`channels.rs`) | a queue with two condition variables | send (blocking, try), take, drain with a window | notify after unlock, spurious wake-ups, batch windows | nobody sleeps beside work or space |
| Unbounded channels (`channels.rs`) | one queue a name, subscriptions, one condition variable | send, subscribe, wait | a notification between the look and the sleep | a message sent on a subscribed channel is handled |
| Unified wait (`unified_wait.rs`) | inboxes, subscriber table, self-pipe, descriptors | emit, subscribe, uwait, uwait_deadline, signals, timers | push after unlock while routes change | an event is in one place, in order |
| Oneshots and ack registry (`oneshot.rs`, `ack_registry.rs`) | cells, block → tokens | new, wait, wait with timeout, register, signal | signal against wait against retirement | "true" means durable, every wait ends |
| Tasks (`tasks.rs`) | a table of join handles | spawn, join all | two joiners of one task, panics | a join answers for exactly the tasks named |
| Sockets (`net.rs`) | a shared registry, thread-local streams | listen, accept, read, write, close | worker pool over one listener, handles that repeat | an answer goes where it belongs, the pool goes on |
| Terminals (`pty.rs`) | children behind handles | open, write, poll, status, close | a status asked by two threads while a third closes | a child has one exit status |
| Frame stream (`gfx.rs`, `gfx_stream.rs`, `bin/axgfx_render.rs`) | sink, events; slot and window on the other side | open, submit, poll, close; receive, draw, forward events | the end of a connection against the close call | newest frames in order, an unasked end reported |

### The runtime: durable state

| Component | State it keeps | Operations | What is hard | Makes it correct |
|---|---|---|---|---|
| Hot-block write path (`hotblk.rs`, `hotblk_pool.rs`, `block_flush.rs`) | active block, published block, pool, watermark, flush channel | hotblk_set, pool take/return, seal, timer checkpoint, flush | seal against checkpoint, block reuse, crash between commit and anchor | the log holds every byte once and in order |
| Recovery log (`reclog.rs`, `prealloc.rs`) | segments, name logs, batch | submit, drain, fused write, rotate | crashes at every step, torn tails, directory entries | an acknowledged row is found by a rebuild |
| WAL index, field and key indexes, hot-block recovery (`walindex.rs`, `fieldidx.rs`, `pkindex.rs`, `hotblk_recover.rs`, `blockfile.rs`) | maps with a frontier, snapshots | insert, get, snapshot, load, rebuild, replay | snapshot against log, half-written blocks | the index is what a scan of the frames gives |
| Raw blocks and shapes (`rawblk.rs`, `pgbshape.rs`) | arena, sealed blocks, shape log | append, seal, derive, recover | a frame that names a shape not yet on disk | every acknowledged row is derived again |
| Hot indexes (`contentidx.rs`, `bindidx.rs`, `nameptr.rs`) | sharded maps with eviction | put, evict, get | eviction before the log has the row | what resolves can be pulled |
| Object segments (`objseg.rs`, `pg_store.rs`) | segment files, cursor, rows | append, roll, commit rows, recover cursor, read | append and commit under different locks | a row points at its object |
| SLA block writer (`slablock.rs`) | active, pending and sealed blocks | open, append, tick, seal | crash and reopen, seal by rename | ticked appends survive, sealed blocks stay |
| Append logs (`logbuf.rs`, `mmapseg.rs`, `slabshadow.rs`) | buffer, mapping, tap queue | append, flush, sync, rotate, tap | crash in the middle, a full tap | synced records survive, once and in order |
| Durable files (`bytes_io.rs`, `io.rs`) | a file and its name | write_durable, append_durable | two threads, power loss between write and rename | what has returned is on disk, whole |
| Projections (`adjacency.rs`, `enumeration.rs`, `contradicts.rs`) | tables of a thread | build, push, replay, ask | objects that move, torn frames | a table is a function of the store; "no" only after a rebuild |
| Index segments (`indexer.rs`) | segments of index lines | take, append, recover, look up | two workers with one block, a killed worker | a lookup finds every notified block once |
| Chunker (`chunk.rs`) | a window over a file | fill, cut | short reads | a manifest depends on the content only |
| World (`world.rs`) | a trace | record, replay | escaping, order | a replay answers what was recorded |

### The runtime: shared memory and values

| Component | State it keeps | Operations | What is hard | Makes it correct |
|---|---|---|---|---|
| Bridged cells (`non_blocking_memory.rs`) | head pointer, retired list, floor slots, hold stacks | write, append, write_lazy, reclaim, read_ref, drops | lock-free reclamation | no block freed under a reference |
| Sequenced and adaptive cells, queue and buffers (same file) | sequence words, payload, ring | write, read, read_pinned; push, pop; publish | torn reads, mode changes, wrapping counters | a read is whole and fresh; the ring is FIFO |
| Caches (`hotmem.rs`, `qhm.rs`, `gcidx.rs`) | cells, pending maps, segments | put, seal, flush, get | eviction and epochs, unpinned reads | the cap holds, missed writes are counted, a lookup reads live memory |
| Identity tables (`interner_shard.rs` with its feeds, `fbank.rs`, tags in `value.rs`) | shards with owners, a lock-free table, snapshots | intern, get, put | concurrent firsts | one identity per content, and back |
| Held state (`scratch.rs`, `u32v.rs`, `cursor.rs`, `hmap.rs`, `list.rs`) | thread-local stores, counted maps and buffers | put, get, clone, drop, freeze, push | leftovers of a job, reused slots, sharing | nothing of one value shows in another |

### The generator

| Component | State it keeps | Operations | What is hard | Makes it correct |
|---|---|---|---|---|
| Files (`core_ir_05/mod.rs`, `runtime/axbi.rs`) | — | serialise, the strict reader, the second reader, payload codecs | overlong digits, ranges, kinds by version | one encoding per bundle, both readers agree |
| Emitter, faults, loops (`emit/rust_05.rs`, `fault.rs`, `fail.rs`, `iter.rs`) | environment, fault of the thread | verify blocks, last use, emit, guard | moves in blocks, sticky failures, callbacks | the emitted code does what the IR says and stops at a fault |
| Linkage (`main.rs`, `emit/rust_05.rs`) | closure, modules | follow calls and fn-refs, resolve, declare, wrap | two identities of one function, cycles | a build not refused links, every symbol once |
| Registry scanners (`emit/rust_05.rs`) | five machines over lines | scan | nested blocks that end alike | the scanners agree |
| IR as data (`ir_constructors.rs`, `ir_accessors.rs`, `ir_eval.rs`) | terms | make, take apart, substitute, rename, evaluate | shadowing | the laws of substitution |
| Build cache (`rustc_jobs.rs`) | manifests, blobs | run jobs | two builds, files that change | an output is current |
| Generated main (`main.rs`) | threads, verdicts, fault | run, restart, join | faults whose value was dropped | the exit code is the verdict |

Interactions that carry the properties: a request thread writes into a hot
block, seals it into the bounded channel, registers a oneshot under the block's
identity and waits; the flush worker takes the block, commits it, advances the
anchor, returns the block to the pool and signals the oneshots. The recovery log
is the second durability path, with the same channel and oneshots around it, and
the indexes and projections are rebuilt from what these two wrote. The lock-free
queue is under the unbounded channels, the unified wait and one feed of the
interner; those models use `FifoQueue`'s contract, and `MpscQueueProofs` proves
that the queue has it.

## Modules

| Module | Models | State and actions against the code |
|---|---|---|
| `FifoQueue` | abstract | a sequence of pending values and the last answer: what a queue promises |
| `MpscQueue` | `mpsc_intrusive.rs` | one action per atomic access: `PushAlloc` … `PushUnpark` for `push` and `wake`, `FirstNext` … `ReclaimWaiter` for the three pops, `DropQueue` for `Drop`; `chain` is an auxiliary variable |
| `MpscQueueProofs`, `HotBlockProofs`, `BoundedChannelProofs`, `ReclogProofs` | — | theorems about the module each is named after (*Proofs*) |
| `MemoryProofs` | — | theorems about `BridgedCell`, `SingleWriter`, `UnifiedWait`, `Interners` and `HotCaches` |
| `StorageProofs` | — | theorems about `ObjSeg` and `SlabLock` |
| `ServicesProofs` | — | theorems about `AckPath`, `Tasks` and the connections of `Peers` |
| `CompileProofs` | — | theorems about `Supervisor` and `BuildCache` |
| `HotBlock` | `hotblk.rs`, `hotblk_pool.rs`, `block_flush.rs`, the statements of `pg_store.rs` | writer, allocator, timer, flush worker; `SetPtr` and `SetCursor` are the two calls of `hotblk_set`; the M1 programs around them are external |
| `BoundedChannel`, `Channels` | `channels.rs` | one action per critical section; condition variables as the sets of threads asleep on them, with spurious wake-ups and, in `Channels`, the 2 ms timeout |
| `UnifiedWait` | `unified_wait.rs` | `uwait_emit` resolves under the lock and pushes after it; signals go through handler, pipe and adapter |
| `AckPath` | `oneshot.rs`, `ack_registry.rs` | request threads, the flush worker, both waits, split where the registry lock is given up |
| `Tasks` | `tasks.rs` | the table entry, the thread and the joiner are steps of their own; a join takes all its handles (`JoinTake`) or panics at a missing one (`JoinMissing`) |
| `Peers` | `net.rs`, `pty.rs`, `world.rs` | three parts: connections and children behind handles, where a call clones its entry and may outlive a close; a run of arbitrary calls that is recorded, then replayed |
| `FrameStream` | `gfx.rs`, `gfx_stream.rs`, `bin/axgfx_render.rs` | both ends of the connection: submit, reader thread, close; receive thread, draw loop, event thread |
| `HeldState` | `scratch.rs`, `u32v.rs`, `cursor.rs`, `hmap.rs`, `value.rs`, `list.rs` | jobs on thread-local stores; counted handles of maps; copy-on-write buffers |
| `Reclog` | `reclog.rs`, `prealloc.rs`, the walk of `walindex.rs` | each open, write and fsync of `write_batch_fused` is an action; a file knows what of it a crash may take |
| `WalIndex` | `walindex.rs`, `fieldidx.rs`, `pkindex.rs`, `hotblk_recover.rs`, `blockfile.rs`; `contentidx.rs`, `bindidx.rs`, `nameptr.rs` | two parts: one handle at a time of one of four kinds, against segments, blocks and snapshots; puts and evictions between the acknowledgement and the log |
| `RawBlk` | `rawblk.rs`, `pgbshape.rs` | Parse, Bind, append, seal, the deriving worker, recovery, under both arms |
| `ObjSeg` | `objseg.rs`, object rows of `pg_store.rs` | append under SEG_WRITER, commit under the connection lock, recovery of the cursor from the rows |
| `SlabLock` | `slablock.rs` | one action per fsync and rename of the sweep; names and inodes are apart, so that a crash can undo either |
| `StoreFiles` | `logbuf.rs`, `mmapseg.rs`, `slabshadow.rs`; `bytes_io.rs`, `io.rs` | two parts: the append paths of a single writer; durable writes and appends by several threads |
| `Projections` | `adjacency.rs`, `enumeration.rs`; `contradicts.rs`; `indexer.rs` | three parts: builds and pushes over tiers that move; the contradiction tables and their warm shard; index workers, segments, kills, recovery and lookup |
| `Chunker` | `chunk.rs` | reads of any length, then one cut |
| `BridgedCell` | `non_blocking_memory.rs`: `BridgedCell`, `Writer`, `ReaderRegistry`, `HoldStack`, `ReadRef`, `ReaderHandle` | one action per shared access; `floor_min` loads slot after slot (`ScanSlot`); `Extend` is `append` |
| `SingleWriter` | the same file: `SeqCell`, `AdaptiveCell`; `SpscQueue`, `DoubleBuffer`, `Ring` | payloads are written and copied a word at a time; counters wrap |
| `HotCaches` | `qhm.rs`, `hotmem.rs` | shards with pending maps under a mutex and published segments; the arena's owner and its readers |
| `GcIdx` | `gcidx.rs` | extends `BridgedCell` with lookups that do not pin and writers under the mutex |
| `Interners` | `interner_shard.rs` and its feeds, `fbank.rs`, tags in `value.rs` | three parts: owners and readers, compare-and-swap on slots, snapshots under a write lock |
| `BundleFile` | `core_ir_05/mod.rs`, `axbi.rs` | a file is chosen a byte at a time, as the reader reads it |
| `Emitter` | `core_ir_05/mod.rs`, `emit/rust_05.rs`, `fault.rs`, `fail.rs` | a bundle is built, verified, compiled and run; `env` holds the variables not yet moved |
| `Loops` | `iter.rs` | the loops that call back, answer by answer |
| `Linkage` | `main.rs`, `emit/rust_05.rs` | the depth-first closure, then a module per bundle |
| `RegistryScan` | `emit/rust_05.rs` | five scanners fed one line at a time |
| `IrTerms` | `ir_constructors.rs`, `ir_accessors.rs`, `ir_eval.rs` | a stack of terms, built, taken apart and evaluated |
| `BuildCache` | `rustc_jobs.rs` | builds step by step, edits and wipes between |
| `Supervisor` | `main.rs` (the program it generates) | entries as threads, restarts, the join loop |
| `MC*` | — | instances for TLC; the runs `mpsc` and `hotblock` and the violation runs need none, their module is checked as it is under `MCMpscQueue.cfg`, `MCHotBlock.cfg` and a cfg of the run's name |

Definitions commented *Slip* are plausible bugs of the code; the mutation tests
put each in place of the definition that follows it, and the property named in
`PROJECT.json` must then fail.

Components that share no state share a run: an MC module extends or instantiates
several of them, `which` picks one in the initial state, only that one takes steps and the
others stay in their initial state. Where one property stands for several
components it is a conjunction, one conjunct a component, and each conjunct has a
mutant of its own.

`RECURSIVE` operators occur only in `BundleFile` and `IrTerms`, which no theorem is
about.

## Runs

| Run | Question | Properties | Result |
|---|---|---|---|
| `mpsc` | Is the lock-free queue a FIFO queue, memory-safe, without lost wake-ups, through deadlines, spurious unparks and drop? | `NoUseAfterFree`, `NoLostWakeup`, `DropFreesAll`, `IInv`, `ImplementsFifo`, `EveryPushDelivered` | holds, 431 472 states |
| `hotblock` | Is every byte committed once and in order, whichever of seal and checkpoint comes first, while blocks are reused and the process crashes? Does every byte become durable? | `WritePathInv`, `EveryByteDurable` | holds, 609 596 states |
| `messaging` | Does nobody sleep beside an item or beside space? Do all sends, items and batches get through? Is every message on a subscribed channel handled? | `WaitersAreWoken`, `ChannelKeepsMoving`, `EveryMessageHandled` | holds, 105 339 states |
| `services` | What the runtime offers one program: does "true" mean durable and does every wait end; are joins exact; does the socket pool serve; are children and renderers followed faithfully; do replays answer what was recorded; is what a program holds its own? | `AcksAreHonest`, `JoinIsExact`, `PoolServes`, `PeersAreFollowed`, `ReplayFollowsRecord`, `StateIsNotShared`, `EveryWaitEnds` | holds, 808 384 states |
| `recovery` | Which acknowledged rows survive a torn tail, a lost name-log entry, two crashes? Are raw rows derived again? Can what a hot index resolves be pulled? Is a rebuilt index what a scan gives? | `LogsKeepAcks`, `RawRowsReadable`, `ResolvedIsPullable`, `ProjectionsAreExact` | holds, 606 664 states |
| `storage` | Do rows point at their objects? Do sealed and ticked records stay? Do append logs and durable files keep what they promised? Does what is derived from the store agree with it? | `PointersAreGood`, `SlabKeepsPromises`, `LogsKeepPromises`, `DerivedAgrees` | holds, 1 152 376 states |
| `memory` | Is any block freed under a reference? Are cell reads whole and fresh, buffers within their contract, the ring a FIFO queue, caches within their cap and their totals right, string handles exact, does the frozen bank answer like a pass in ordinal order, does a tag mean one name everywhere, do events arrive once and in order? | `BlocksAreSafe`, `CellsReadFresh`, `BuffersKeepContract`, `SpscIsFifo`, `CachesAccount`, `IdentitiesAreExact`, `EventsOnceInOrder` | holds, 1 116 732 states |
| `compile` | The generator, from file to exit code | `FilesAreCanonical`, `EmittedCodeFollowsIr`, `LinksClosed`, `TermLaws`, `ScannersAgree`, `OutputsAreCurrent`, `ExitCodeIsTheVerdict` | holds, 1 442 997 states |
| `reclog_torn` | "the ack implies the row's content AND its PK binding are both durable" | `EveryAckRecoverable` | violated: rows acknowledged behind a torn frame are never found |
| `gcidx_read` | "no pointer to old_ptr exists outside us" | `CloneReadsLiveBlock` | violated: `get_cached` reads unpinned while `put_cached` frees at once |
| `supervisor` | "the run failed, so it must not exit 0" | `FaultedRunFails` | violated: a fault whose value was dropped is not seen at the join of several entries |
| `linkage` | self-exclusion keeps a self-recursive function linkable | `LinksClosed` | violated: a call to oneself by the minted identity is declared as well as defined |

`IInv`, `WritePathInv`, `AcksAreHonest`, `BlocksAreSafe` and the other
conjunctions contain the type invariant of their module where it has one.

### Bounds and why they are enough

* `mpsc`: two producers, three nodes, three pushes. Two producers are needed for
  one to stall between swap and link while the other gets ahead; with three nodes
  a freed node is allocated again while an old pointer to it might still exist.
* `hotblock`: two blocks of two bytes, a pool of depth one, three bytes, three
  generations, one object job, one crash. A block is used again in a later
  generation while a checkpoint of the earlier one is in the channel; the channel
  of length one makes everybody wait for everybody.
* `messaging`: two blocking senders of two items, a trying sender, two takers and
  a drainer on capacity two: every mixture of sleepers on both conditions occurs,
  and a sender comes back while its earlier notification is still to be given. Two
  posters, two channels and one context for the unbounded family.
* `services`: two request threads with three tokens and one repeated wait each;
  three tasks and two joiners that list up to two of them three times; two workers and two clients on one listener; two
  users of a terminal that writes twice; three recorded calls, which may fail, with texts
  that hold every character the trace escapes and a carriage return at the end, and one
  change by others; two jobs over inputs with repeated keys and
  one refused element; two local maps behind three handles, with a slot used
  again; three lists of up to two elements over four buffers; two opens and two
  submits of frames, so that a frame waits while one is drawn and a connection ends.
* `recovery`: four rows for two names, batches of two, segments of four cells (two
  frames), so batches rotate and a second life appends behind what the first left;
  two crashes. Index: three frames in segments of two, or up to three hot blocks,
  one snapshot, one crash. Raw blocks: two rows, two blocks, two shapes of one
  table, one crash. Hot indexes: four hashes in a shard that holds three.
* `storage`: object segments of three cells and blocks of up to two objects, so
  that a block does and does not fit; three addresses make a duplicate put
  possible. Slab records of zero to three bytes in blocks of two, so that blocks
  stay empty, fill exactly, rotate, and are outgrown by one record; four records
  leave two blocks pending beside an active one; one crash, after which the orphaned
  `.part` has the number of the next block. Logs: four appends, two failures, pages
  of two cells, a tap of two. Projections: three pushes, one compaction race each
  way. Two index workers over two blocks, one killed. Files of up to five bytes over
  two letters, with every setting of the three sizes around their defaults. Two
  contradiction frames on two streams, one restart. Two threads with three durable
  calls and one power loss.
* `memory`: two readers with two references each over a hold stack of depth one
  (overflow), watermark one and back-off cap one (every gate is passed and
  refused), epochs up to three. Cells: three writes of two words against one read
  of each reader, a cool-down of one. A ring of two whose counters wrap at four,
  with six pushes. Caches: three hashes in two shards, capacity two. Interner: five
  strings, four of them in a shard that holds three (`shard_for`, `home`, `length`
  and `shard_of` are functions, which `MCMemory` defines). Bank: two texts with one
  home slot, room for two. Tags: three threads, five interns of three names. Unified
  wait: two contexts that take over a route, two emits, one signal, one read.
* `compile`: bundles of five nodes, two of them calls and two blocks at most, nest
  a block in a block; two libraries, three uses and three entries make cycles and
  shared callees; terms of five nodes over two names shadow a binder, evaluation
  stops at depth twelve; documents of eleven lines hold two functions with a
  contract each; two builds, three edits and a wipe; two entries with a restart
  budget of two; files of nine bytes, varints of five bits in digits of two;
  loops over three items.
* Violation runs use the smallest instance that shows the violation.

Every run says `CHECK_DEADLOCK FALSE`: the inputs are bounded, and a program with
nothing left to send, a queue that has been dropped or a build that is done really
stops. Where stopping would be a fault the liveness properties say so.

### Assumptions named by a constant

Each of these is a constant that a run sets to the value in brackets; with the
other value the module has the behaviour described under *Observations*, and the
property of that module fails.

| Constant | Module | What it stands for |
|---|---|---|
| `SyncedSnapshots` [TRUE] | `WalIndex` | a snapshot covers synced frames only |
| `MixFlushAndSync` [FALSE] | `StoreFiles` | one log handle sees both `logbuf_flush` and `logbuf_sync` |
| `MsyncAfterRestart` [FALSE] | `StoreFiles` | after a restart `mmapseg_msync` is the only flush of a mapping |
| `SharedFirstAppend` [FALSE] | `StoreFiles` | two threads make the first append to a file |
| `LateCommits`, `ShortWrites` [FALSE] | `ObjSeg` | Postgres executes a dead client's statement late; `write_at` writes less |
| `WalkMeetsCompaction` [FALSE] | `Projections` | a loose copy goes while an adjacency build is under way |
| `Reuse` [FALSE] | `Peers` | the kernel gives a reaped child's pid to another process |
| `Overlap` [FALSE] | `FrameStream` | a renderer is started while another still runs |
| `OpenBindings`, `IrAsData` [FALSE] | `IrTerms` | bindings with free variables; terms that call accessors |
| `AfterContract` [FALSE] | `RegistryScan` | identity and `in` lines behind the contract block |
| `EditDuringBuild` [FALSE] | `BuildCache` | a file changes while a build reads it |
| `Aliases` [FALSE; TRUE in `linkage`] | `Linkage` | a function is named by both of its identities |

### Fairness

Liveness is checked under weak fairness only. `MpscQueue`: threads inside an
operation keep running; nothing makes a producer push, a deadline pass or a park
return. `BoundedChannel`: each thread keeps running and a lock is granted
eventually, and a drainer's window times out, as `wait_timeout` does. `Channels`:
threads inside a call keep running and the 2 ms timeout of `wait` elapses; nobody
has to send or subscribe. `AckPath`: the worker and the request threads keep
running, time passes, and a request that waits without a limit has its block
sealed, which is what the callers do before they wait. It asks for nothing in the
initial state, so the bundled run `services` uses it as it is. `HotBlock`: the
allocator, the timer and the flush worker are loops that run for the life of the
process; nothing makes a writer write or a crash happen.

## Proofs

Eight modules of theorems, each for every value of its module's constants, from
the named assumption the table gives. Each has the same shape: an inductive
invariant in named parts, the lemma `Init => Inv`, one lemma per part (or per part
and action, where a step disturbs it), a theorem `Spec => []Inv`, and the theorem
that states the property the runs check. TLC has checked each inductive invariant
on the instance of its run before it was proved.

| Theorem | States | From |
|---|---|---|
| `MpscQueueProofs!IInvHolds` | `IInv`, and from it `TypeCorrect`, `MemorySafe` (`NoUseAfterFree`), `WakeupsAreNotLost` (`NoLostWakeup`), `PublishFindsSlotFree` | `MpscAssumption` |
| `MpscQueueProofs!DropLeaksNothing` | `DropFreesAll` | the same |
| `MpscQueueProofs!Refinement` | `ImplementsFifo`: the queue implements `FifoQueue` | the same |
| `HotBlockProofs!WritePathSafe` | `WritePathInv` | `HotBlockAssumption` |
| `BoundedChannelProofs!NoLostWakeup` | `WaitersAreWoken` | `BoundedChannelAssumption` |
| `ServicesProofs!AcksHonest` | `AcksAreHonest` | `AckAssumption` |
| `ServicesProofs!JoinsExact` | `JoinIsExact` | `TasksAssumption` |
| `ServicesProofs!PoolKeepsServing` | `PoolServes` | `PoolAssumption` |
| `MemoryProofs!BlocksSafe` | `BlocksAreSafe` | `BridgedAssumption` |
| `MemoryProofs!ReadsFresh` | `CellsReadFresh` | — |
| `MemoryProofs!SpscRefinement` | `SpscIsFifo`: the ring implements `FifoQueue` | `BuffersFit` |
| `MemoryProofs!BuffersKeep` | `BuffersKeepContract` | `BuffersFit` |
| `MemoryProofs!EventsArriveOnce` | `EventsOnceInOrder` | `UwaitAssumption` |
| `MemoryProofs!HandlesExact` | `HandlesAreExact` | `ShardsAssumption` |
| `MemoryProofs!BankAnswersAll` | `BankAnswers` | `BankAssumption` |
| `MemoryProofs!TagsGlobal` | `TagsAreGlobal` | `TagsAssumption` |
| `MemoryProofs!IdentitiesExact` | `IdentitiesAreExact`, the three above together | `ShardsAssumption`, `BankAssumption`, `TagsAssumption` |
| `MemoryProofs!CachesHold` | `CachesAccount` | `CachesAssumption` |
| `StorageProofs!PointersGood` | `PointersAreGood` | `ObjSegAssumption`, `~ShortWrites`, `~LateCommits` |
| `StorageProofs!SlabPromises` | `SlabKeepsPromises` | `SlabAssumption` |
| `ReclogProofs!AcksKept` | `LogsKeepAcks` | `ReclogAssumption` |
| `CompileProofs!ExitsWithVerdict` | `ExitCodeIsTheVerdict` | `SupervisorAssumption` |
| `CompileProofs!OutputsCurrent` | `OutputsAreCurrent` | `~EditDuringBuild` |

### The queue

`MpscAssumption`: the stub is a node, `Null` is none, and
`Empty` is no value. The inductive invariant is

    IInv == TypeOK /\ QueueInv /\ WakeInv /\ DroppedOK

* `QueueInv` (until the queue is dropped) is about the list. The list in memory is
  broken wherever a producer has swapped the head and not stored the link, so
  neither reachability from the tail nor from the head describes it. The
  auxiliary sequence `chain` records the order of the swaps: `ChainOK` says it
  runs from tail to head through distinct live nodes, `LinksOK` that each link is
  either stored or owed by exactly one producer at "link" with that predecessor,
  `PrivateOK` that nodes not yet swapped in belong to one producer.
* `WakeInv` is about the waiter slot: `SlotFreeAtPublish`, `HandleOK` (while
  the consumer is between publishing and reclaiming, the handle is in the slot,
  with a producer about to unpark, or has become a token), and `ParkOK` (a parked
  consumer beside a linked value has a token, or a producer between its check and
  its unpark).
* `DroppedOK`: no producer is inside when the queue is dropped, which is what
  ownership gives in Rust.

A push takes effect in the abstract queue at its head swap; a pop at the step that
moves the tail, or at the step that finds head and tail equal. The proof has a
lemma per step that changes the list (`StructAlloc`, `StructSwap`, `StructLink`,
`StructTake`), one for the steps that leave it (`StructKept`), and the wake lemmas
by actor (`WakePush`, `WakeConsumer`).

`DropFreesAll` needs two more facts. `NoNodeLost`: an allocated node is on the
chain or in the hand of a producer before its swap, so with nobody inside push it
is on the chain. `DropVisitsChain`: with every link stored, the walk along `next`
comes by the whole chain, since the first node it missed would have a predecessor
it visited. That first node exists by `LeastNat`, the least-number principle, which
is derived from the well-foundedness of inclusion among finite sets: the provers
cannot instantiate the library's induction theorems, but they can use this lemma
for one set of numbers at a time.

### The write path

`HotBlockAssumption`: `NoBlock` is no block, the bounds are natural numbers, and
capacity and pool depth are at least one. `WritePathInv` says of the log only that it is `1, 2, … n`; why
the worker's next append continues it depends on where every byte on its way is.

    HotInv == /\ TypeOK /\ JobTypes /\ WriterPhases /\ LedgerInv /\ LedgerExact
              /\ BlocksOwned /\ FreeBlocksAreIdle /\ AnchorBehind

* `LedgerInv` is the heart: there are a function `base`, the place in the log
  where each generation of the active block begins, and a number `last`, the last
  generation whose sealed block the worker has taken, such that
  `LogsQueued` the generations after `last` that are sealed are in the channel in
  order; `BytesPlaced`, `BlocksKept` a sealed block and, while it is queued, its
  memory hold the bytes after `base` of its generation; `CheckpointsKnown` whatever
  the timer has read, holds or has sent is a length its generation has had, and its
  block holds those bytes as long as the generation is not taken;
  `WatermarkPlaced`, `LedgerPlaced` the watermark is that of `last`, complete, or
  of the generation after it, and the log and what is in flight end there;
  `WorkerPhases` what the worker's position says of its job. A checkpoint that
  comes after the seal of its generation finds the watermark there and appends
  nothing; one that comes before leaves to the seal only the rest.
* `BlocksOwned`: in pooled mode a block is in one place, the pool, the writer, the
  channel or the worker's hand. Without it a block could be returned twice, and
  `FreeBlocksAreIdle` and `BlocksKept` fail.
* `AnchorBehind`: the anchor's chain embeds into the commits in order and leaves
  room for the commit in progress; a crash between commit and anchor is what makes
  the embedding skip one.

`DrainedMeansDurable` follows because a drained system has `last = Sealed` and
nothing in flight. The existential over `base` replaces an auxiliary variable: the
witness stays the same except at a seal, which gives the next generation its
beginning.

### The bounded channel

`BoundedChannelAssumption`: the four kinds of threads are finite and pairwise
disjoint, capacity and batch are at least one. `WaitersAreWoken` compares numbers
of threads, of slots and of wake-ups on their way, so the proof counts:
`CountMove` says how a count of threads changes when one of them moves, and
`WakeupsMove` applies it to the four counts of the property.

    ChannelInv == WaitersAreWoken /\ WaitersKnown /\ BatchHasRoom

* `WaitersKnown`: who can sleep where, so that `notify_one` reaches a thread of the
  kind it is meant for.
* `BatchHasRoom`: a drainer in its window has room in its batch, so that a
  notification it consumes there is never lost on a batch already full.

### Acknowledgements

`AckAssumption`: the bounds are natural numbers.

    AckInv == /\ AcksAreHonest /\ RowsPlaced /\ SealedOnly /\ TokensKnown
              /\ SignaledIsDurable /\ WorkerPhases /\ TokensFindable

* `SignaledIsDurable`: a wait takes a token's absence from the registry for an
  answer, so absence, the mark in the cell and a place in the worker's hand must
  each mean that the block is durable.
* `TokensFindable`: a registered token is with its thread before `ack_register`,
  in its block's list, or in the worker's hand; once the block is durable, the
  worker stands at it. It needs `SealedOnly` and `RowsPlaced`: a token is
  registered under a block that is not sealed, so the worker has not passed it.
* `WorkerPhases`, `TokensKnown`: what the positions say of hand, queue and tokens.

### Tasks

`TasksAssumption`: the bounds are natural numbers. There may be any number of
joiners.

    TaskInv == TaskTypes /\ JoinsOrdered /\ \A h \in Handles : OnePlace(h)

* `JoinIsExact` counts the places a handle is in; the invariant tells them apart.
  `OnePlace`: one join holds it, or its spawn has not inserted it yet, or it is in
  the table, dropped, or returned, and nothing else. Every action moves the handles
  it is about from one place to the next (`PlaceSpawn` … `PlaceReturn`) and leaves the
  others (`PlaceFrame`).
* `JoinsOrdered`: what a waiting join was asked for is its answers so far followed
  by the handles to come, without a repetition, which holds because a handle listed
  twice is missing from the table at its second turn. So a join that returns counts
  every handle once (`ReturnedOnce`), in the order asked.

TLC checked `TaskInv` on 104 532 states before the proof.

### The pool of workers

`PoolAssumption`: finitely many workers, a natural number of rows, and clients that are
neither the listener nor no socket. The theorem is about both registries, the shared one
and one table a worker (`shared` is chosen in the initial state).

    PoolInv == WorkersPlaced /\ TablesExact /\ ConnsServed /\ AnswersInOrder

* `WorkersPlaced`: a worker serves a connection from its accept to its close, under a
  positive handle; it is out of service only if it met an error outside the list of
  `peer_gone` (`Unexpected`, at any of its calls), and until then it stands on the one
  listener, whoever bound it. A worker that has faulted performs no effect any more,
  since nothing clears FAULTED, so the supervisor's re-run of its entry changes nothing;
  its thread-local connection goes with the thread, one in the shared registry stays
  in the table (`EndFaulted`, `LeaveKeeps`).
* `TablesExact` says what the tables hold. Without sharing, a worker's table is its one
  connection and the registry the listener under a negative handle, so that handles
  of two workers may be equal and mean different sockets (`OwnTables`); with sharing, the
  registry is the listener and the connections, under handles that differ (`OneTable`).
  A lookup then gives a worker its own connection (`SocketIs`), and counting the tables
  finds nothing left behind (`NothingLeft`).
* `ConnsServed`: no two workers serve one connection, and an open one is served.
* `AnswersInOrder` counts frames. `PoolServes` bounds them; the invariant gives
  their number: the whole answers to what the client has sent and the worker has taken, and
  of the one under way the rows already written. So the next row written is the one that
  is due. A client that goes stops the count, not the order.

TLC checked `PoolInv` on 66 800 states before the proof. The modes that the code
leaves to its operator are left out: `AX_FAULT_MODE=abort`, which ends the process, and
a user's fault map, which turns a fault into an `Err` the program handles.

### Bridged cells

`BridgedAssumption`: the bounds are natural numbers, and the watermark of the
retired list is at least one.

    BridgeInv == /\ BlocksAreSafe /\ BlocksOlder /\ SlotsOwned /\ HoldPhases
                 /\ StackCovers /\ ScanCovers

* `ScanCovers`: the writer loads the slots one after the other while readers go on,
  so no single state has the minimum it computes. What does hold is that every
  superseded block in the hand of a reader whose slot has been loaded is at or above
  the running minimum: a reader that pins later finds the current head, and
  `BlocksOlder` says that no reclaimable block is the head.
* `StackCovers`: entries of the hold stack are live references and the overflow
  floor covers the others, from which the floor a drop publishes is honest
  (`FloorOfStack`).
* `SlotsOwned`, `HoldPhases`: a slot has one owner, and a reader is pinned at
  floor 1 from before its load until the reference is tracked.

### Sequenced cells and buffers

    CellInv == /\ WriterPhases /\ PayloadWords /\ HotCurrent /\ ReaderPhases
               /\ ReadsAreFresh /\ PinnedBlocksKept

* A reader copies a payload word by word while the writer may be at any word.
  `PayloadWords` says what each word of the payload is as a function of the sequence
  number and the writer's place, `ReaderPhases` what a reader has copied when the
  number has not moved since: so an equal and even number at the end means one
  write, whole. The cell needs no assumption on its constants.
* `HotCurrent`: the adaptive cell's odd mark carries the mode chosen, and a hot cell
  outside of a write has the block of the last write as its current one. A reader
  that finds the mark hot therefore pins a block no older than its call, and
  `PinnedBlocksKept` says a sweep leaves that block alone.

`BuffersFit`: the capacities and ranges are as the constructors make them, and
either the ring's capacity divides the range of its counters or the counters do not
come round (Observations). `QueueInv` (`QueueTypes`, `UnreadHeld`, `NotWrapped`) places the unread items
in the slots behind `head`; the lemmas `DivisionIsUnique` and `Halves` are the
arithmetic of slots and of even sequence numbers. `BufferInv` (`FrontIsPublished`,
`RetainedCells`) is about the double buffer and the ring of retained cells. TLC
checked `CellInv` on 597 593 states and the other two on 264 before the proof.

### Unified wait

`UwaitAssumption`: `NoContext` is no context and the bounds are natural numbers. There
may be any number of contexts and emitters.

    UwaitInv == /\ UwaitTypes /\ RouteFirst /\ SentIsThere /\ Once(Lines)
                /\ InOrder(Lines) /\ SignalsCounted

* A line is what a context's handlers were given followed by its inbox, or what waits
  in the route. In these terms a step does one of three things: it leaves the lines
  (`LinesKept`; a wait moves the cut within one, `HandPrefix`), puts one event at the
  end of one (`LineGrows`), or moves the route's line behind a subscriber's (`Moved`).
* `SentIsThere`: an emitter's message is on a line exactly when it has been emitted and
  is not in the emitter's hand, and an edge when it has been read. So an event put at
  the end of a line is on no other one and is the last of its source, whichever
  context the emitter resolved before it gave the lock up: `Once` and `InOrder` stay.
* `RouteFirst` is why the move is harmless. Messages wait in the route only before the
  first subscription, and until then no context has one and no emitter holds one to
  push, so what the first subscriber gets from the route comes in front of anything
  later; after it the route is empty whenever it is taken over.

`EventsOnceInOrder` counts places; `PlacesOfNumbered` gets the counts from `Once`. TLC
checked `UwaitInv` on 221 164 states with a signal and a read, and on 343 332 with two
emitters.

### Identity tables

Three parts of `Interners`, each with an invariant of its own; `ISpec` and
`IdentitiesAreExact`, what the run checks, are their conjunctions.

The sharded interner. `ShardsAssumption`: a shard for every string, a mask and a block
length of at least one, and no string that stands for something else.

    ShardInv == /\ ShardTypes /\ (\A s \in Shards : ShardIsSound(s))
                /\ (\A p \in interned : Named(p)) /\ (\A r \in resolved : Got(r))
                /\ (\A c \in Callers : Gets(c))

* `ShardIsSound`: a shard is asked only for strings of its own (`Routed`); its slots
  hold the inserted strings in order, each once, and behind them the one its owner has
  in hand (`StringsInOrder`); and there are just enough blocks for them (`HasBlocks`). An
  owner touches one shard, so `OwnerKeeps` has the others rest and gives the pairs what
  `StringsStay` says: an inserted string keeps its place, a committed slot its string.
* Exact handles are then arithmetic: `HandleIs` takes a handle apart into shard and local
  by `DivisionIsUnique`, `OneSlotMore` and `BlockIsThere` say that a block is published
  before a slot in it. A reader's count is old but never too large (`Gets`).

The frozen bank. `BankAssumption`: finitely many threads, room for an entry, a home slot
and a length for every text. Nothing is assumed of the hash, so any two texts may collide.

    BankInv == /\ BankTypes /\ TableWalks /\ OneMode /\ ClaimsApart
               /\ (\A t \in Putters : Walking(t) /\ Answered(t))

* `TableWalks` is about every slot that is taken: the walk from the home slot of its text
  meets only other texts before it. So a text has one slot (`OneSlot`), and `fbank_find`
  stops there (`FindIs`). A slot may change its entry, never its text, and only for a
  lower ordinal (`SlotsStay`), so the places a walk has reached stay reached
  (`ReachStays`), also that of a thread that has probed long before it swaps.
* `ClaimsApart`: an entry between its claim and its swap is in no slot and of one thread.
* `Answered`: some slot answers for a call that has returned, and goes on to
  (`AnswerStays`), whoever displaces whom afterwards. `OneMode` excludes puts and interns
  in one bank, which is how the code uses it: an intern's answer would not survive a
  displacement.

The tags. `TagsAssumption`: the free lock is no thread.

    TagsInv == /\ TagTypes /\ LockHolds /\ TagsPlaced /\ NamesApart(Published)
               /\ shown.text = shown.want

* `LockHolds`: what the holder of the lock has built is the published snapshot and one
  name that is not in it, since it looked again under the lock. So publishing keeps every
  tag in its place (`TagsPlaced`) and the names apart.

TLC checked `ShardInv` on 118 575 states, `BankInv` on 18 373 and `TagsInv` on 14 464.

### Caches on cells

`CachesAssumption`: a shard for every hash, a natural cap, and nobody is no writer.

    HotInv == HotTypes /\ SealersHold /\ EpochsRise /\ TotalsAdd /\ ReadersTold

* `SealersHold`: a writer that seals holds its shard's mutex and finds something to
  seal, since puts go only into a shard nobody holds. Sealers therefore have shards of
  their own.
* `EpochsRise`: an epoch is drawn under the mutex, newer than every epoch any shard
  shows; until it is published nobody else publishes on that shard. The mutant that draws
  it before the lock breaks exactly this.
* `TotalsAdd` needs what `Evict` returns. `Sizes` is a recursive function, so that its
  sums exist (`SumsExist`), that they are numbers (`SizesAdd`) and that a prefix has the
  same ones (`PrefixSizes`) each go by a least counterexample (`LeastNat`, from the
  well-foundedness of finite sets), and `EvictKeeps` finds the largest prefix that fits
  in the same way.

TLC checked `HotInv` on 58 077 states.

### Object segments

`ObjSegAssumption`: garbage is no object, `NoRow` no pointer, the bounds are natural
numbers and a block may hold an object. The theorem has two hypotheses beside it,
`~ShortWrites` and `~LateCommits`: with either switched on TLC finds
`PointersAreGood` violated (see Observations), so the theorem says exactly under
which behaviour of the file system and of Postgres the code is right. The run
`storage` has them off as well.

    SegInv == /\ TypeOK /\ Positions /\ StatementsKnown /\ SegsCounted /\ RoomLeft
              /\ AppendsBehind /\ AppendsApart /\ CellsHold /\ DirtyAhead

* `AppendsBehind` and `AppendsApart`: rows and ranges on their way to a commit lie
  behind the writer's position (segments first, then offsets) and apart from each
  other, so the next append touches none of them. A crash forgets the position;
  `RecoveredFacts` shows that the one read back from the rows is behind none of them
  again, though it may lie before garbage of appends that were never committed.
* `CellsHold`, `DirtyAhead`: the cells hold what was written, and the only cells a
  crash can take are at the position of a thread in front of its fsync. A row never
  points there (`RowsClean`).
* `Positions`, `StatementsKnown`: the locks are held by one thread each, and a
  statement Postgres has not executed belongs to the thread that holds the
  connection. Without it a commit could bring rows for a range that is no longer
  kept apart.
* `SegsCounted`, `RoomLeft` bound segments and offsets: every roll has a put of its
  own, so a count of the threads that wait for the lock is part of the invariant.

`MaxFacts` (a bounded set of numbers has a maximum) is derived like `LeastNat`.

### The block writer

`SlabAssumption`: the sizes are natural numbers and a block has room for a byte.

    SlabInv == /\ SlabTypes /\ BlocksInOrder /\ SealedInOrder /\ FilesApart
               /\ OpenFiles /\ SealedFiles /\ RecordsInPlace
               /\ PublishedKept /\ TickedKept

* `BlocksInOrder`, `SealedInOrder`: the blocks in memory have consecutive numbers
  from `Oldest` to the next one, and what has been sealed is before them.
* `FilesApart`: no file ever had the names of two blocks, in memory or on disk, so a
  crash that undoes a rename or a creation brings no file of another block in its
  place. `OpenFiles` and `SealedFiles` say which name a block's file has in each phase
  of the sweep and how much of it an fsync covers.
* `RecordsInPlace`, `PublishedKept`, `TickedKept`: every record is at its offset in
  its block, and what a reader was shown or a tick has covered is on disk as far as
  the promise goes. A crash keeps the synced bytes of a file (`Survivor`) and the
  synced names, which carries the promises over it.

`SealedNeverRewritten`, the action property in `SlabKeepsPromises`, follows from the
invariant before and after a step (`SealedStep`). TLC checked `SlabInv` on 571 320
states before the proof.

### The recovery log

    RecInv == /\ RecTypes /\ JanitorPlaced /\ RowsInOrder /\ BindsInSubmitOrder
              /\ SegmentsInOrder /\ WholeFrames /\ ContentFirst /\ LinesWritten
              /\ FirstLife /\ OldKept

`LogsKeepAcks` promises different things under different crashes, so each part
carries the harm it survives: every crash (`RowsInOrder`, the lines of the batch in
`LinesWritten`), every crash that takes no segment (`SegmentsInOrder`, `OldKept`),
crashes that also leave whole frames (`WholeFrames`, `ContentFirst`), crashes that
take no name log (the acknowledged rows in `LinesWritten`).

* `RowsInOrder`: logs, batch and queue are in the order of the submissions, and a line
  in a log is older than every line still to be written there. The batch is written
  name by name, so this is about each log and the part of the batch the loops over
  `name_order` and `name_lines` have not reached. `FirstOfName` and `NamedOpens` show
  that the loop over the names comes to every row of the batch once.
* `SegmentsInOrder`: the segments are numbered without a gap and the batch goes to the
  last, by `ChosenFacts` about `wal_write_seg`. Without it an append could go to
  a segment in front of another and hide it from `walk_frames`.
* `ContentFirst`: a row whose line is written, or that is acknowledged, has its frame
  in the synced part of a segment. With `WholeFrames` a rebuild finds it
  (`ContentFound`).
* `FirstLife` and `OldKept`: until the first crash everything but the batch under way
  is synced, and the entries of the name logs are once they are signaled. So
  nothing a torn tail may hit lies in front of what that life acknowledged, and
  `ReachedStays` keeps it that way: later lives append only to the last segment.

Files are handled by what a step may do to them: the janitor lets them grow (`Grows`), a
crash spares the synced part or takes the file (`Spares`, `SurvivorFacts`,
`RemainsFacts`). TLC checked `RecInv` on 704 246 states of the instance of the
run `recovery`, with lost segments beside the harm of that run. What the theorem does
not promise, rows acknowledged after a torn tail, is what `reclog_torn` refutes.

### The generated main

`SupervisorAssumption`: there is an entry, and the restart budget is a natural number.

    MainInv == /\ MainTypes /\ VerdictsGiven /\ RestartsCounted /\ FlagsRaised
               /\ CodeGiven

* The exit code is computed from four flags the join loop raises one entry at a time,
  while entries it has not reached still run. `FlagsRaised` says a flag is up exactly
  when an entry already joined has that verdict; a thread that is over changes no
  more (`RunningIsNotJoined`), so at the end the flags are the verdicts of all.
* `RestartsCounted`: a body has been started once more than its supervisor counted,
  except in the back-off, before it is, and after the panic that spent the budget.

### The build cache

No assumption on the constants but `~EditDuringBuild`: a file that changes after rustc
has read it and before it is hashed for the blob's name gives a blob a name that is not
its content's (Observations).

    CacheInv == /\ CacheTypes /\ NamesTell /\ (\A b \in Builds : BuildKnows(b))
                /\ OutputsAreCurrent

* `NamesTell`: every blob is what its name says and every manifest names the blob of
  its own key and listed hash. It holds across builds, so it does not matter
  whose blob or manifest a build meets, or that another build has replaced it.
* `BuildKnows`: the hashes a running build remembers are those of the files as they
  are, and the blob it is about to copy or list is named after them. `LookupKeeps` is
  where the two meet: a hit's blob is that of the current contents.

TLC checked `MainInv` on 185 029 states and `CacheInv` on 23 850 before the proof.

### Only model-checked

Liveness (`EveryPushDelivered`, `EveryByteDurable`, `ChannelKeepsMoving`,
`EveryMessageHandled`, `EveryWaitEnds`), since fairness and ENABLED are outside the
prover's reach; what recursive operators compute (`BundleFile`, `IrTerms`); and the
properties of runs the table above does not name.

## Observations

Met while reading or by changing a constant, beside the four violation runs.

Queues, waiting, peers:

* `ack_registry.rs:16` says that `block_flush.rs` calls `ack_signal_block` right
  after `write_bin_durable`; in this commit only M1 programs call it, and
  `AckPath` has the flush worker signal after the fsync as that comment says,
  marked external.
* A spurious wake-up of the timed wait (`oneshot.rs:137`) answers `false` before the
  time is up, against "`false` on timeout". `FalseMeansTimeout` of `AckPath` fails
  for this reason and is in no run.
* `SpscQueue::new` asks for a capacity above zero only. With one that does not divide
  the range of the counters TLC finds `SpscIsFifo` violated once they come round
  (N = 3, Words = 4); the comment at `non_blocking_memory.rs:1598` calls that wrap
  irrelevant for realistic workloads, which with 64-bit counters it is.
* Messages emitted before a subscription is replaced stay in the inbox of the context
  that had it, also one whose emitter stands between the unlock and the push
  (`unified_wait.rs:152`).
* A join that panics on one task detaches the handles it had already taken
  (`tasks.rs`). A join's result does not refuse a local map, though `hmap.rs:21`
  says such doors do.
* `tcp_close` of the shared listener leaves `shared_listeners` naming it; the doc of
  `reg_lock` in `net.rs` still says that `net_threadlocal` defaults to FALSE.
* Output that a child writes between the read and the status check of the polling
  loop is lost to that poll (`pty.rs`); a reaped pid that the kernel has given away
  is signalled (`Reuse`).
* `tty_raw_on` sets RAW_ACTIVE before `tcgetattr` may panic, and arms the restoring
  handlers only after raw mode is on.
* `gfx_stream.rs:6` says a dead renderer "is reported once as a `close` event"; the
  reader's end of file and a failed write each push one. Opening again without
  `gfx_close` drops the sink without `close()`: connection and reader thread stay,
  and go on pushing events (`Overlap`).
* `axgfx_render.rs` says "the frame drawn last is always the last one sent"; an empty
  newest frame replaces one that waits, and draws nothing.

Durable state:

* A late commit: if Postgres executes a statement of a dead client after the
  restarted process has read the rows, the recovered cursor lies before the row
  and the next append overwrites its object (`LateCommits`).
* `write_at` may write less than it was given and `objseg.rs:154` drops the count;
  `write_all_at` would not (`ShortWrites`). `objseg.rs:147` does not fsync a
  segment's directory entry.
* Nor does the recovery log: `seg_new` is always false (`reclog.rs:262`), so a power
  loss can take a new segment with the rows acknowledged in it. `Reclog` with
  `Harms = {"wal"}` has `EveryAckRecoverable` fail that way.
* A WAL snapshot's watermark may lie beyond the tail that survived a crash
  (`walindex.rs:29`, `SyncedSnapshots`). A content snapshot that holds entries of
  hot blocks (their segment is negative) is always refused by `load_snapshot`, which
  costs a full replay and nothing else.
* `slablock.rs:217` discards on reopen what `slablock.rs:65` calls durable: the
  appends that a tick has fsynced into the active block are gone once the restarted
  writer mints its first block. `TickedIsDurable` therefore speaks of a living
  writer, `SealedAtPosition` of sealed blocks through every restart.
* `Slab::sweep` and `slab_seal` write a stale copy of `dir_fsyncs` back over the
  increments of `seal_block` (`slablock.rs:289`, `:319`), so `slab_stats` reports too
  few. Nothing decides on the counter; it is not in the model.
* `logbuf_sync` with an empty buffer returns without an fsync, so what `logbuf_flush`
  wrote before it on the same handle is not on disk (`MixFlushAndSync`); `wal_fast_batch_write` goes around a buffer that is not empty.
* After a restart the watermark of `mmapseg_msync` starts at what the scan recovered, so
  msync alone never writes back pages the earlier life left dirty
  (`MsyncAfterRestart`); an empty record looks like the end to the scan (`MinPayload`);
  stale frames behind a torn tail can come back once the gap before them is filled.
* `append_shape_durable` drops I/O errors, and a torn line of `shapes.log` merges
  with the next one (`rawblk.rs:396`); with two deriving workers a shape may be
  derived before it is known.
* `append_durable` looks whether the file exists; a second first-appender sees it,
  and returns before anyone has fsynced its name (`SharedFirstAppend`).
* An adjacency build that meets a compaction loses edges (`WalkMeetsCompaction`).
  Contradictions appended after a worker warmed its shard, or behind a torn frame,
  are not seen until it warms again, or not at all; `contradicts_rebuild` only adds.
* Index segments are ordered by a clock in their names, roughly (`indexer.rs`).

Memory and values:

* The doc of `SeqCell` speaks of AcqRel on the odd mark
  (`non_blocking_memory.rs:664`, `:740`); the store is Release, which x86 makes good
  and a weakly ordered machine does not. The models take accesses as sequentially
  consistent.
* The inline epochs of `Ring` wrap at 2^31 (`EpochRange`): past it `read_at_epoch` and
  `missed` answer nonsense.
* The doc at `non_blocking_memory.rs:1503` bounds the retired list by the
  watermark plus the back-off cap; a reader that keeps a reference for ever makes
  it grow without bound, as any epoch scheme does.
* `read_ref` of an empty or inline cell sets the reader's slot to idle even when
  the same handle holds references into other cells (`:1413`). Slots are never given
  out twice, so the 65th reader thread of a process panics (`:1014`).
* A duplicate of a sealed hash counts twice toward the cap of `qhm`. `fbank` counts an
  identifier before its entry is written. A full interner shard kills its owner, and
  later interns on that shard wait for ever. `contentidx` spreads its cap over shards
  evenly, however skewed the hashes are.
* A replayed `w_write` puts its text into the overlay also when the recorded call had
  failed, or another process changed the file afterwards, so a later read differs from
  the recorded one; and a recorded result loses a carriage return at its end, since
  `load` reads the trace by `str::lines` and `esc` leaves it raw (`world.rs:45`, `:80`).
  `ReplayFollowsRecord` states what holds; `ReplayAnswersWhatRecordSaw` of `Peers`, the
  words of `tests/world_test.rs:83` taken for every run, fails and is in no run.

Generator:

* `ir_eval.rs:3` promises "capture-avoiding substitution"; a binding whose value has
  free variables is captured (`OpenBindings`), as is a renaming to a name the body
  uses. A term that calls an accessor is evaluated once more (`IrAsData`).
* A self-recursive root bundle that is not also in `--lib` is refused; one that is,
  and is also reached by its identity, would be compiled twice with one symbol. A
  call by identity whose `target_name` differs is emitted but not followed.
* Identity and `in` lines behind a contract block are lost to scanners that
  take the `end` of the contract for the end of the function (`AfterContract`).
* `rustc_jobs.rs` says deleting the cache directory at any time is safe; in the
  middle of a build it fails that build. A file edited during a build leaves a
  stale entry under a current hash (`EditDuringBuild`).
* A restarted entry runs on the thread that faulted, whose fault state stays, so it can
  perform no effect (`main.rs`, `fault.rs`): a pool worker that has met a socket error
  outside `peer_gone`'s list is lost though `main.rs:708` says "respawn preserves pool
  width", and with the shared registry the connection it held stays in the table.
* Payload decoders ignore trailing bytes and drop bits that overflow, which the strict
  file reader does not; `axbi_parse` ignores trailing bytes of the file, truncates an
  edge index before its range check, and applies no block rules.
* `range_step` adds with a wrap near the end of i64 in emitted binaries, which are
  built without overflow checks, and then does not stop (`iter.rs`).

## Plan

The model is complete as far as the plan went; its lock- and queue-based protocols,
the lock-free reclamation, the sequenced cells and their buffers, the object segments,
the block writer, the recovery log, the joins of tasks, the pool of workers, the unified
wait, the identity tables, the caches on cells, the build cache and the generated main
are proved. What is left is an abstract durable log that
`HotBlock` and `Reclog` implement; neither module, nor one they extend, declares a
`RECURSIVE` operator.

## Not modelled, and why

* The text the emitter prints, argument handling and inspection output: layout.
* System calls with no state between them, behind `io`, `process`, `tty`, `seek` and
  `sqlite_ro`, and the connecting and provisioning of `pg_store`: pure I/O.
* The window and GPU code, which runs on a device. The protocol with the renderer's
  process is in `FrameStream`.
* Instrumentation and benchmarks, which nothing in the system reads back.
* Registry tables and the call into the front end, and the operations on strings and
  numbers without a boundary of their own: pure functions.
* Weak memory: every atomic access is sequentially consistent, and the fences of the
  code are taken as what makes it so.

`PROJECT.json` lists each component with what of it is left out.
