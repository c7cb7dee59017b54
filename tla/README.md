# Verification of goext

TLA+ models of the concurrent and stateful parts of the Go library `goext`,
checked with TLC on small instances, with theorems about four of them that
TLAPS checks for every instance. `PROJECT.json` maps each definition to the
source lines it translates, and lists the runs, the mutants, the findings and
the hazards.

## The system

`goext` is a collection of packages rather than one program. The parts with
state of their own, and how they meet:

| part | state | operations | used by |
|---|---|---|---|
| goroutine pool (`runtime/goroutine_pool.go`) | linked idle list, state word, two work counters | `Go`, worker loop, `gc`, `Close` | errgroup |
| errgroup (`sync/errgroup`) | actors, channel of errors | `Add`, `Run`, `Close` | applications |
| Keeper (`sync/pool/worker_pool.go`) | task queue, heap of workers, their queues | `PushTask`, `run`, `work`, `Stop`, `Close` | applications |
| channel pool (`sync/pool/channel.go`) | buffered channel | `Get`, `Put`, `Close` | applications |
| unbounded channel (`sync/unbounded_chan.go`) | deque, condition variable | `Push`, `Pop`, `TryPop`, `Close` | applications |
| DRWMutex (`sync/drwmutex.go`) | one RWMutex per core | `Lock`, `Unlock`, `RLock` | applications |
| file lock, deadlock detector, atomic types (`sync/`) | two flags and a kernel lock; lock orders; a word | lock, try, unlock; checks around each lock; loads, adds, swaps | applications |
| deque (`container/deque`) | list of blocks, two indexes | pushes, pops, peeks | unbounded channel |
| disk queue (`container/queue/disk`) | data files, metadata file, positions | `Put`, delivery, `Empty`, `Close`, restart | applications |
| big queue (`container/queue/bigqueue`) | mapped arenas, mapped index | `Enqueue`, `Dequeue`, `Peek`, restart | applications |
| timer wheel (`time/timer.go`) | five slot lists, hands, action queue | `AddTimer`, `Timer.Stop`, `Timer.Reset`, ticks, `Stop` | applications, over `xorlist` |
| bucket wheel (`time/wheel.go`) | ring of channels | tick, `After`, `Stop` | applications |
| zookeeper client, registry and watcher | sessions, znodes, watches, event channels | `Campaign`, `Lock`, `Register`, `Notify` | applications |
| etcd client, registry and watcher | leases, sessions, registered services | `KeepAlive`, `Campaign`, `Lock`, `Register`, `Notify` | service filter |
| service filter (`database/filter/pool`) | cache of services | `get`, `update`, `run`, `Close` | applications, over the etcd registry |
| redis sentinel client, kafka client | list of addresses and pools; counters and channels | discovery, subscriptions; sending, `Stop`, consuming | applications |
| expiring cache (`container/cache`), diskv (`io/kv/disk`), frame ring (`io/ring`) | maps under locks, a janitor, files | get, set, delete, expiry, eviction | applications |
| rsync (`io/rsync`) | signatures, rolling checksum, a buffer pool | `Signatures`, `Sync`, `Apply` | applications |
| ring buffers, byte buffer, xor list, B-tree, cuckoo table, queue, bitmap, set, consistent hash, selector, time spans | sequential structures | see source | applications |

What is hard about it: callers race with background goroutines that recycle,
drain or expire what the callers are using; several counters are read one
after another; `Close` runs against everything else; the persistent queues may
be killed between any two writes; the registries react to session events that
may be lost or reordered; a lease or a session ends while its owner still
believes in it. `PROJECT.json` lists each of these under `hazards`, at the line
where it bites.

## Modules

Concurrent types and services:

| module | models | state and actions |
|---|---|---|
| `GoroutinePool` | `runtime/goroutine_pool.go` | The idle list node by node, the state word and counters. One action per lock section or atomic operation, so a caller, a worker, `gc` and `Close` interleave between any two of them. |
| `ErrGroup` | `sync/errgroup/group.go` | Extends `GoroutinePool`: the actors are its callers. An actor returns and sends its error in two steps. `Run` starts them, takes the first error sent, interrupts and drains; `Close` of the pool may come at any time. |
| `Keeper` | `sync/pool/worker_pool.go` | `container/heap` is translated with its sift operations (external), because `Swap` maintains the index each worker stores. |
| `RWLock`, `DRWMutex`, `DRWMutexProofs` | `sync/drwmutex.go` | The abstract readers-writer lock; the lock over all cores, in which a writer announces itself on a core, drains its readers and goes on to the next; the proofs. |
| `UnboundedChan`, `UnboundedChanProofs` | `sync/unbounded_chan.go` | Waiters are the queue of goroutines parked in `cond.Wait`; being woken and reacquiring the mutex are separate steps. |
| `ChannelPool`, `ChannelPoolProofs` | `sync/pool/channel.go` | `Get` reads the channel variable and receives in two steps; `Close` takes, closes and drains in three. |
| `Deque`, `DequeOps` | `container/deque/deque.go` | Each method as an operator on a record; all call sequences beside the sequence a caller believes in. |
| `DiskQueue` | `container/queue/disk/diskqueue.go` | Files of cells, the metadata file, the positions in memory, the bytes the `bufio.Reader` holds. A message is one or more cells, the first with its length prefix; `Crash` keeps the disk and drops the memory. |
| `TimerSet`, `TimerWheel` | `time/timer.go`, `sleep.go`, `ticker.go` | A plain set of timers; the wheel with its slot lists, hands, cascading and action queue. |
| `ZkLock` | `database/zookeeper/client.go` | Election and lock over sequential ephemeral znodes. Each request is a step and may fail; the client's mutex is held through the whole of `lock`, the wait included. |
| `ZkRegistry` | `database/registry/zookeeper` | Registration, session events, and the watcher's goroutines with their bounded channels and one-shot watches. |
| `EtcdClient`, `EtcdClientProofs` | `database/etcd/client.go` | The lease with its `KeepAlive`, `Stop` and `Close`; election and mutex over sessions that may expire; the proofs. |
| `EtcdRegistry`, `ServiceFilter` | `database/registry/etcdv3`, `database/filter` | The registry under a lease with its restart loop and `Close`; the filter's cached array, composed with that registry and its watcher. A `Put` or `Delete` that fails may have been applied, as after a timeout. |
| `Sentinel` | `database/redis` | A call walks through the sentinels, one lock section, connection or command at a time; the list is reordered and extended by others meanwhile. |
| `KafkaClient` | `log/kafka` | The producer whose `Stop` compares three counters; the consumer's loop. |
| `LockDetector`, `FileLock`, `Atomics` | `sync/deadlock`, `sync/flock*.go`, `sync/atomic` | The detector's record, apart from the lock it watches, which any goroutine may release; the flags of a lock beside the kernel's table; words of few bits. |

Data structures, each beside a variable `ref` that holds what its callers
believe to be in it:

| module | models | what is kept of it |
|---|---|---|
| `RingBuf`, `AtomicRing`, `PointerRing` | `container/ring` | Arrays and positions as in the code; the slices that `BytesTwo` hands out are regions of the live arrays. |
| `FrameRing` | `io/ring/buffer.go` | A file of cells, the cursor of a reader, a process killed within the copy of `Insert` or between two words of its metadata. |
| `ByteBuffer` | `bytes/buffer/buffer.go` | Length, capacity, the read offset and the kind of the last read. |
| `XorList` | `container/xorlist` | An xor of addresses is the set of those that occur an odd number of times. |
| `BTree` | `container/btree` | Nodes in a memory, copy-on-write contexts, one free list for all clones. |
| `ExpiringCache` | `container/cache` | Locked sections as steps; the clock is read before the lock is taken, callbacks run after it is released. |
| `Diskv` | `io/kv/disk` | Files, directories, index and cache; a reader goes on without the lock while others write. |
| `ConsistentHash`, `SmoothWeighted`, `Cuckoo` | `hash/consistent`, `sort/selector`, `container/hashtable` | Hash values are parameters and may collide; `Inc` without a lock and the reads and stores of `UpdateLoad` are separate steps. |
| `Collections` | `container/queue`, `bitmap`, `set/internal/set` | The ring that grows and shrinks, the bits, and the set with its `NaN` entries. |
| `BigQueue` | `container/queue/bigqueue` | Arenas, mapped or not, the index word by word; the process ends at any write, or between the creation of an arena and its truncation. |
| `BucketWheel` | `time/wheel.go` | Channels by number, a ticker that drops ticks. |
| `Intervals` | `time/timespan` | Spans with open and closed ends, compared as sets of points. |
| `Rsync` | `io/rsync` | `Signatures`, `LookUpTable`, `Sync` and `Apply` with their goroutines and channels, and one fault in each behaviour. |

`MCSync`, `MCServices` and `MCContainers` put components that share no state
into one model: the variable `which` says which of them a behaviour exercises.
`MCServices` and `MCContainers` instantiate them, and each of their properties
names the components it is about. The other runs check a component's own
module; its symmetry set or shortened constants are defined there.

## Runs

| run | result | what it shows |
|---|---|---|
| `goroutine_pool` | passes | The idle list is one chain from head to tail with the right count; nobody is handed a goroutine that another holds or that `gc` closed; the counters are exact; `Close` does not return before the work accepted before it has finished, provided no `Go` is still in progress when it starts. |
| `errgroup_on_pool` | passes | Accepted work runs and `Close` returns; `Run` returns the error that was sent first and waits for all actors, and it returns unless an early `Close` made the pool refuse an actor, whose error `Run` then waits for in vain. |
| `errgroup_first_error` | violated | `Run` may return the error of an actor that exited second: the first had returned and not yet sent its error. |
| `keeper` | passes | The heap, the stored indexes and the pending counts stay exact; every task is in one place; keeper and worker block each other only when all workers are overloaded. |
| `keeper_stop` | violated | `Stop` misses the worker that the keeper holds outside the heap. |
| `sync_types` | passes | DRWMutex implements `RWLock` and lets writers in; the unbounded channel is FIFO, loses no wake-up and releases all on `Close`; an object of the channel pool has one holder and is closed in the end; the deque is a sequence without empty edge blocks. The disk queue is FIFO through rolls, failures, `Empty` and restarts; the metadata always leads to what was not delivered; recovered messages come first. |
| `disk_queue_stale_buffer` | violated | The buffered reader delivers bytes that were overwritten. |
| `timer_wheel` | passes | The five lists fire like one ordered set of timers; the counter is exact but for deletions that found nothing, and a loop that ends by itself leaves as many timers behind as there were such deletions; a stopped timer is gone. |
| `timer_wheel_count` | violated | Those deletions make the counter smaller than the number of timers. |
| `services` | passes | zookeeper: two goroutines both lead only when one outlived its timeout or lost its session, a timed `Campaign` returns, and a watcher knows the registered nodes when changes are spaced. etcd: after `Close` no lease is kept alive, the first key of an election has a goroutine that knows it, and between calls the server holds what the registry stores; `Close` of the registry returns unless the restart goroutine is waiting for the lock that `Close` holds. Filter: its answers become the registered nodes once changes and failures end, and `Close` returns. |
| `zk_untimed_campaign` | violated | A `Campaign` without a timeout takes every znode for timed out and deletes the leader's. |
| `containers` | passes | Small instances of the data structures, caches, persistent queues, lock objects and clients against what their callers believe. |

Several of these promises hold only under a condition, and the comment above
each property names it. Mostly the property says when the code departs from the
promise and what is true then: history variables (`astray`, fields of `ref`)
record what happened, so that another departure is a violation. `PROJECT.json`
lists under `findings` the departures found to contradict a comment or a test:

- `BytesTwo` of the atomic ring panics when the data wraps; `UnreadByte` after
  `Grow`, or after `ReadBytes` met the end, is not what its comment says.
- diskv: a reader caches what it began to read before a write, and its account
  of the cache drifts. Expiring cache: a callback removed before it is called.
- Consistent hash: members left without a place by collisions, for which
  `GetTwo` and `GetN` fall short or go round for ever; an `Inc` lost beside
  `UpdateLoad`. Selector: a fixed total is taken off after failures.
- Big queue: a kill between the two words of an index entry or in the creation
  of an arena. Set: `Intersection` keeps every `NaN`.
- Deadlock detector: one record for all holders of a lock. Sentinel client:
  `putToTop` drops an address added meanwhile. File lock: a conversion leaves
  the flag of the lock that was given up.
- Atomic `Bool`: `CAS` fails after two `Toggle`s. rsync: goroutines left blocked
  after a cancellation; buffers returned to the pool while in use.
- Etcd client: `Close` during a `KeepAlive` leaves a lease behind.

Others are in the properties alone: a cuckoo search that finds no room runs past
its queue; kafka's `Stop` may miss one answer for each answer to a message that
its load of `msgNum` did not include; the etcd registry takes back a node that
was registered before when a later `Register` fails, and puts nodes without a
lease once `KeepAlive` has failed.

Some properties say nothing beyond their condition: `CloseOrphansLease` once a
`KeepAlive` has overlapped another or `Stop` (`overlapped`), `CloseWaitsForWork`
when a `Go` is in progress as `Close` starts, `FollowsSpacedChanges` when
changes are not spaced, the shares of the selector after a failure or a late
addition, diskv's limit after its account has drifted, and, without a directory
for temporary files, the cached value of a key that a reader cached late.
`FilterCloses` does not count it as a violation that `Close` of the etcd
registry hangs when the end of the keep-alive sends the restart goroutine for
the lock.

### Bounds

- Pool: three callers, so that one goroutine can be handed over while another
  is put back and a third is collected. ErrGroup has two actors, or two callers
  without a group, because liveness is checked.
- Keeper: two workers and channels of capacity one, the smallest in which the
  keeper and a worker can block each other.
- MCSync: two cores, two writers, two readers; three poppers and four pushes;
  two clients and three objects over one place; blocks of three cells and
  deques up to eight items, so that blocks fill, empty and are dropped at both
  ends.
- Disk queue (in MCSync): files that roll after a message or two, two crashes, one fault,
  one `Empty`, a reader that buffers two cells.
- Timer wheel: two timers, periods that are filed on different levels, ticks of
  1 and of 5 time units so that a late tick carries over levels. The limits of
  the levels are shortened (`ShortLimit`); the code's are 1000, 60, 60, 24, 31.
- Services: three goroutines, two of them on one client, with timeouts of 1, 1
  and 2; two znodes (three where no session expires), one fault; two nodes of a
  service, two changes, three where the etcd registry
  is closed; two keepers, three leases, three calls. The constraint
  `Spaced` ends behaviours of the zookeeper registry once changes were not
  spaced, where its property says nothing; it cuts no behaviour of the parts
  whose liveness is checked.
- Containers: sizes at which each structure wraps, splits, rolls or evicts.
  Rings of two to four cells; a B-tree of degree 2 with nine keys, the least
  with three levels, and clones with up to four, the least that splits a shared
  root; a cuckoo table of four buckets with two slots; arenas of four cells and
  messages up to seven; words of two and three bits. The constants are in
  `MCContainers`.

`CHECK_DEADLOCK FALSE` where the system may stop: after `Close` or `Stop`, or
when the bounded calls are used up.

### Fairness

- Weak fairness of every step a goroutine takes once its call has begun: Go
  runs every runnable goroutine, and a `select` does not pass over a ready
  channel for ever. Beginning a call is not fair, but for
  the calls listed below as assumptions about the callers.
- Strong fairness of `RWMutexOwn`, a writer's acquisition of the mutex inside
  one core's `sync.RWMutex`: `sync.Mutex` hands itself to a waiter that has
  starved for a millisecond, so a writer is not overtaken for ever.
- Time passes (`Tick` of `ZkLock` and of `ServiceFilter`).
- Assumptions about the callers: whoever holds a lock releases it, whoever
  holds a pooled object puts it back, work given to the pool returns, an
  actor returns once interrupted (the first of them by itself, or `Run` would
  rightly wait), and the getters of the service filter go on asking.

Failures are never fair, and their number is bounded: convergence of the filter
is about what happens after the last one. The runs `goroutine_pool`, `keeper`,
`timer_wheel` and `containers` assume no fairness, and neither does the disk
queue in `sync_types`.

## Proofs

`DRWMutexProofs` proves, for any number of cores, writers and readers (from
the assumption on the constants in `DRWMutex`):

- `Invariance`: `LockSpec => []IInv`. Exclusion is not inductive: it says
  nothing about a writer that is half way through the cores. `IInv` adds that
  a writer owns every core it has passed and has yet to release, that no
  reader is left in those, and that the reader sets of the cores agree with
  the readers' own positions. `TypeStep`, `PlacedStep` and `OwnedStep` each
  show that one conjunct is preserved, action by action.
- `Exclusion`: `LockSpec => []MutualExclusion`, from `IInv` because a writer in
  its critical section has passed every core and each reader is in one.
- `Refinement`: `LockSpec => ImplementsRWLock`; each step maps to a step of
  `RWLock` or to a stutter.

`ChannelPoolProofs` proves `PoolOneHolder`, `PoolSpec => []OneHolder`, for any
clients, objects and capacity. `OneHolder` is inductive once the types are
added; the work is in `TailRange` and `AppendRange`, which say what a receive
and a send do to the set of objects in the buffer.

`UnboundedChanProofs` proves `WakeupsKept`, `ChanSpec => []NoLostWakeup`, for
any number of goroutines and pushes and any block length. `WakeInv` adds that
sleepers are distinct and not among the woken (or `Signal` might wake nobody
new), that the woken are finitely many, and that the deque is without limit (or
a push might drop an item). `PopFrontLen` and `PushBackLen` reduce the deque to
its length.

`EtcdClientProofs` proves, for any goroutines, keepers, leases and calls, and
under the hypothesis `EtcdConstants` (`Nobody` is no goroutine and the bound on
leases is a natural number), which the theorems carry because the module is
checked as an instance:

- `EtcdInvariance`: `EtcdSpec => []EtcdInv`, where `EtcdInv` is the types with
  `LeaseInv` and `ElectionInv`. Neither property below is inductive. `LeaseInv`
  adds that, without overlapping calls, only the lease that `cancel` names is
  refreshed and none while a `KeepAlive` is under way or after `Stop`, for
  otherwise a `KeepAlive` that is still to store its lease could outlive
  `Close`. `ElectionInv` adds that the first key belongs to an open session or
  to a `Resign` under way, and that whoever believes to lead without that key
  has lost the session.
- `Leadership`: `EtcdSpec => []LeadershipHeld`.
- `CloseLeavesNoLease`: `EtcdSpec => []CloseOrphansLease`.

The run `services` checks both properties, with the invariants they rest on,
through the instance in `MCServices`.

Only model-checked: liveness (`WriterEnters`, `CloseReleases`, `CloseClosesAll`,
`AcceptedWorkRuns`, `CloseReturns`, `RunTerminates`, `CampaignReturns`,
`FilterConverges`, `FilterCloses`), which is out of the prover's reach; `Fifo`,
the deque and the data structures, whose contents would need an induction over
sequences or trees; the goroutine pool, whose idle list is a walk along pointers
and needs one too; the keeper (a heap), the disk queue, the timer wheel (sums
over lists, modular arithmetic), the zookeeper client and the registries.

## Not modelled

- Code that tools generate: the protobuf encoders of the registry and redis
  types, and the typed sets, which repeat `set/internal/set` for each element
  type. `container/ring/fbuf.go` repeats `rbuf.go` for floats.
- Wrappers that forward to a client library or a system call: the other
  database clients, plain reads and writes of znodes and keys, the synchronous
  kafka producer, compressors, network and process helpers, the Windows file
  lock. The state is on the other side.
- Text: log output, formatting and parsing of times, `gabs` JSON paths, printing
  helpers. Their result is their wording.
- The jump hash, one function in floating point arithmetic.
- In the modelled files: `Close` of the zookeeper registry, which waits with the
  lock held as that of the etcd registry does; `Delete` and the
  renaming of bad files of the disk queue; `TimerWheel.Close`, and the channels
  that `After`, `Sleep` and `Ticker` build on `AddTimer`; the unexported sharded
  cache; the detector's timeout warning; stack traces.
- Also there: a request to etcd that is applied later than its timeout, after
  requests that were sent after it; `Inc` of a host that is no member, which
  dereferences nil; the creation of the big queue's index file. A kill while
  `Insert` of the frame ring copies over the oldest frame damages that record,
  and no claim is made about its bytes.
- That `gc` of the goroutine pool eventually recycles idle goroutines: how long
  they stay depends on the idle timeout, and the model keeps no time for it.

What would come next: `Close` of the zookeeper registry, and the inductive invariant of
`ExclusiveLease`, whose proof needs the order of the znodes and their ages.
