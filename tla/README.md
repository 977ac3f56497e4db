# TLA+ models of xcache

xcache is a Go library of caches behind one interface, `Cache`. The interface has Save, Load, TTL and Stats.

It has these backends:

- `Memory`: freecache.
- `Redis6` and `Redis7`: go-redis, for a standalone server, sentinel or a cluster.
- `Nop`: does nothing.
- `Multi`: a tiered composite of other caches.

Each backend can be built "WithConfig". It then reconfigures itself when an xconf configuration changes. `StatsWatcher` polls a cache's Stats on a ticker and hands them to a callback.

This directory holds TLA+ models of the parts with state, concurrency or non-trivial algorithms, together with the TLC configurations that check them.

## Inventory: parts and how they interact

| Part | Source | Concurrency and state |
|---|---|---|
| Multi | `src/redis6_xconf_adapter_integration_test.go` 202-320 (Multi) | Goroutines call one Multi at the same time. Each call walks the tiers, one backend call at a time. Load read-repairs the upper tiers. |
| Memory | `src/memory.go`, `src/memory_xconf_adapter.go` | freecache behind an RWMutex. Expiry is in whole seconds. A reload resizes the cache by copying every entry under the write lock. |
| Redis7 / Redis6 | `src/unnamed/part_000`, `src/unnamed/part_005`, `src/memory_test.go` 159-320 (Redis6) | The fields `client`, `isCluster` and `statsInfoKeyPrefixes` are guarded by an RWMutex. onConfigChange builds a client, swaps the fields under Lock, then closes the old client. |
| Redis Stats | `src/redis_config.go` 67-143, `src/unnamed/part_000` 43-57 and 114-171 | parseInfoStats reads INFO lines. getClusterStats runs one goroutine per node: ForEachMaster, then ForEachSlave. The nodes' results are summed with atomic adds. |
| StatsWatcher | `src/unnamed/part_002` 133-218 | Watch and Close each run under their own sync.Once. The `ticker` and `closed` fields are not synchronised. There is a WaitGroup, and a goroutine that selects on closed, ctx.Done and the ticker. |
| Stats, Nop, Mock, loggers | `part_002` 22-130, `nop.go`, `mock.go`, ... | No shared state, or formatting only. |

The parts interact in three ways:

- Multi calls whatever backends it is given. The model abstracts each one to the Cache contract, with failures and expiry added.
- StatsWatcher calls `cache.Stats`.
- The xconf reload goroutine calls onConfigChange on Memory and Redis. That call races with the application's calls.

## Modules

### TieredCache (Multi)

- **State:**
  - `store[i]` is the entry of the one modelled key in tier i.
  - Each caller has a program counter `pc`, the tier index `idx`, the arguments, and the accumulated error, TTL and stats. These are the locals of the Go methods.
  - `ret` is a caller's last result.
  - The ghost `life` is the longest expiry any Save gave each value.
- **Actions:**
  - Save: `SaveBegin`, `SaveStep` (one tier) and `SaveReturn`.
  - Load: `LoadBegin`, `LoadStep`, `LoadTTL`, `RepairStep` (the read-repair Save into an upper tier), `LoadReturnHit` and `LoadReturnMiss`.
  - TTL: `TTLBegin`, `TTLStep` and `TTLReturn`.
  - Stats: `StatsBegin`, `StatsStep` and `StatsReturn`.
  - `Expire(i)`: a tier's entry times out.
- **Failures:** a backend write can succeed, fail, or be "lost". A lost write fails but was applied anyway, as when Redis times out after the SET.
- **Cache contract:** `CacheSave`, `CacheTTL` and `CacheKeys` model one backend.

### RedisReload and ReloadableHandle (Redis7/Redis6 hot reconfiguration)

- **State:**
  - `client`, `isCluster` and `prefixes`: the guarded fields.
  - `conn[id]`: whether each client built so far is open or closed.
  - `readerCount`, `writer` and `writerWaiting`: Go's writer-preferring RWMutex. Once a writer waits, new RLock calls block.
  - The callers' program counters.
  - The reload goroutine's `rpc`.
- **Caller actions:**
  - A command is `RLock`, `CmdSend` (reads the client and sends) and `CmdReply`.
  - Stats is `StatsMode`, `StatsSend` and `StatsReply`. These read isCluster, the client and the prefixes at the points where the code reads them.
  - `Close`.
- **Reload actions:** `ConfigChanged` builds the client outside the lock. Then come `LockRequest`, `LockAcquire`, `Swap` (with Unlock) and `CloseOld`.
- **Refinement:** `ReloadableHandle` is the abstract promise. There is one live configuration, a swap is atomic, and every call is served by the live configuration. `RedisReload` maps onto it through `INSTANCE ... WITH`, and the run checks it as the property `HandleSpec`.

### MemoryReload and MemoryCache (Memory and its resize)

- **State:**
  - freecache is abstracted to a key → entry map per client id. An entry holds its value, its remaining seconds and the Duration it was saved with.
  - A capacity in entries stands in for the memory size.
  - The RWMutex variables.
  - The reload goroutine's copy progress.
- **Caller actions:**
  - `SaveDelete`.
  - `SaveLock` then `SaveSet`. Set computes expireSeconds with the code's rounding, and evicts when the cache is full.
  - `TTL`: the not-found path returns -1. Otherwise it returns freecache's seconds, converted as the code converts them.
  - `Load`: counts a hit or a miss on the live freecache (`hits`, `misses`). Its returned value is output only.
  - `Stats`: reads `cache.memSize` and the live freecache under the read lock, and changes nothing.
- **Other actions:**
  - `Tick`: one second passes and expired entries drop.
  - The reload: `ConfigChanged`, `LockAcquire`, `SameSize` (an early return), `NewClient`, `CopyStep(k)` (one entry and its TTL) and `Swap`. Swap replaces `client` and `memSize` together, and the hit and miss counts restart on the new instance.
- **Refinement:** `MemoryCache` is the abstract promise: one key → item map with a capacity. Set, delete, one second passing and a resize are each one indivisible step. A Set evicts another entry only when the cache is full. A resize installs the new capacity with a part of the contents that fits, and each kept entry has the same value and remaining seconds. `MemoryReload` maps onto it through `INSTANCE ... WITH`: the store is the live freecache without the ghost Duration, and the size is `memSize`. The resize run checks it as the property `MemoryCacheSpec`.
  - The abstract resize does not promise to keep every entry when all of them fit. TLC showed why it cannot. When the cache shrinks from two entries to one, the copy sets k1 and then k2, which evicts k1. k2 then expires before the swap, so the new freecache is empty, although the old one holds only k1, which would fit.

### StatsWatcher

- **State:**
  - `ticker` and `closed` (nil, running or stopped, and nil, open or closed).
  - The WaitGroup counter.
  - The two sync.Once states.
  - The callers' `pc` and the watch goroutine's `gpc`.
  - `ctxDone`.
  - `panicked`.
  - Ghosts that record when a callback ran relative to Close.
- **Actions:** every shared access is its own step, so every sequentially consistent order of the unsynchronised fields is explored.
  - Watch: `WatchCall`, `WatchOnce`, `WatchTicker`, `WatchChan`, `WatchAdd` and `WatchGo`.
  - Close: `CloseCall`, `CloseCheck`, `CloseOnce`, `CloseChan` and `CloseWait`.
  - The goroutine: `GoTick`, `GoCallback` and `GoExit`.
  - `Cancel`.
- **The callback calling Close:** the caller `CB` stands for `fn` calling `sw.Close()` from inside the watch goroutine.
- **The finalizer:**
  - `finalizer` is the finalizer on sw. `WatchGo` sets it (SetFinalizer in Watch's once body) and `CloseWait` clears it (`SetFinalizer(sw, nil)`).
  - `Drop` is the application giving up sw without calling Watch or Close again.
  - `Reachable` says when sw is still reachable. The watch goroutine holds only the embedded `*watcher`, so it keeps sw reachable only through `fn` when `fn` refers to sw (`CallbackCloses`). A Watch or Close call in progress also keeps it reachable.
  - `FinalizerRun` is the runtime clearing the finalizer and starting `sw.Close()` on its finalizer goroutine, the caller `GC`. It is enabled once sw is dropped and unreachable.

### RedisConfig (constant-level)

- `RedisConfigs` is the set of `RedisConfig` records over what behaviour depends on: the number of addresses, `DB`, and the sentinel `MasterName`. Credentials and timeouts only shape go-redis options and are left out.
- `IsCluster(rc)` is `RedisConfig.IsCluster`: more than one address and no master name.
- RedisReload's configurations are such records. Its `ClusterCfgs` are those for which `IsCluster` holds. RedisStats draws its `isCluster` and `db` from one of them, so standalone, sentinel and cluster configurations over both databases are checked.

### InfoStats (parseInfoStats; constant-level)

- `parseInfoStats(info, keyPrefixes)` is a `FoldLeft` over the prefixes, in the code's order, of `Assign`. Assign is the code's `if`/`else if` chain. It includes the `stats.MaxMemory > 0` test on the maxmemory line and the `stats.MaxMemory == 0` test on total_system_memory.
- `setStatsKeyPrefixes` and `KeysCountPrefix` build the prefix lists of a configuration.
- An INFO reply is a function from prefix to the number after it, and `Absent` marks a missing `dbN:keys=` line. Scanning the digits is abstracted to that number.
- `DocStats` is the reference: what the Stats doc says each field is.

### StatsFormat (bytesHumanFriendly; constant-level)

- `bytesHumanFriendly(bytes)` formats the mem= and maxMem= fields of `Stats.String`. Its text is abstracted to what it spells: the printed number as an integer `num` with `prec` decimals, and the unit letter.
- The conversions are modelled by what they do:
  - `Scale` is the RECURSIVE form of the loop that divides by 1024.
  - `IsWhole` is the `< 0.001` test on the exact float64 quotient.
  - `ToFloat32` is the narrowing that `FormatFloat(..., 32)` applies: rounding to 24 significant bits, half to even.
  - `RoundHalfEven` is the decimal rounding of `'f'` formatting.
- `FormatsAsDocumented(b)` is the reference. The unit is the largest power of 1024 not above `b`. The number is whole and within a thousandth of a unit, or is `b` rounded to two decimals. The text fits the buffer capacity the code computes (5, or 8 with decimals).
- `CheckedBytes` are the boundary inputs: 1023/1024/1025, 2047, MiB - 1 and MiB + 1048/1049 (each side of the 0.001 threshold), the ties 1152 and 1408, values above 2^24 where float32 rounds, and the tests' examples. Inputs stay below 2^31 / 100, because TLC's integers are 32-bit.
- MiB - 1 prints as "1024.00K", not "1.00M". It still fits the 8-byte buffer, and nothing documents otherwise.
- RedisStats checks `HumanFriendlyAsDocumented` over these inputs and over the Memory and MaxMemory of each Stats result. So the formatting is checked on what `Stats.String` is given.

### RedisStats (Redis7.Stats and getClusterStats)

- **The standalone branch:** `SingleInfo` sends one INFO, which may fail.
- **The cluster branch:**
  - `Begin` starts ForEachMaster.
  - `StateError`: loading the cluster state fails before any callback runs.
  - `NodeCallback(n)`: the INFO of n either fails or is parsed and added with the atomic adds. Callbacks run in any order.
  - `MastersDone`: fail fast, or go on to the replicas.
  - `ReplicasDone`.
- **Ghosts:** `answer` records each node's reply, so the result can be compared with `Expected`, the sum of `DocStats` over the nodes.

## Runs

| Run | Module / cfg | Expect | Distinct states | What it shows |
|---|---|---|---|---|
| tiered_sequential | MCTieredCache / TieredCache_sequential.cfg | pass | 69,729 | One caller over two caches that fail, lose writes and expire. Checks `ErrorAggregation`: every method's error is what the backends justify. Checks `ReadAfterSave`: a Load after a Save that succeeded on every tier returns the value. Checks `RepairTTLBound`: read-repair never extends a value's lifetime. |
| tiered_race_repairttl | MCTieredCache / TieredCache_race_RepairTTLBound.cfg | violation | 220,282 (13 s) | Two callers. c2's Load hits v2 (saved with expiry 1) in tier 1. c1's Save of v1 with NoExpire lands on tier 1. c2's TTL call then reads 0, and its repair stores v2 with NoExpire in tier 0. |
| redis_reload | MCRedisReload / RedisReload_safety.cfg | pass | 38,736 | A sentinel and a cluster configuration. `NoStaleClientUse`: no in-flight call uses a client closed by a reload. `HandleSpec`: refines ReloadableHandle. `ReconfigCompletes`: a started reload completes. |
| redis_closed_leak | MCRedisReload / RedisReload_closed_leak.cfg | violation | | `ClosedStaysClosed` fails: a reload after or during Close installs an open client nobody closes. |
| watcher_finalizer | MCStatsWatcher / StatsWatcher_finalizer.cfg | pass | 562 | Two apps that may drop the watcher without closing it, and a callback that does not refer to sw. Checks `FinalizerStopsWatcher`: once sw is dropped, the finalizer's Close stops the goroutine and returns. A Watch that does not register the finalizer is caught. |
| watcher_sequential | MCStatsWatcher / StatsWatcher_sequential.cfg | pass | 114 | One app, and a callback that may call Close. Checks `NoPanic`, `CallbackStopsAtClose`, and `AppCloseTerminates`: the app's Close returns when the callback does not close. |
| watcher_race_panic | StatsWatcher_race_NoPanic.cfg | violation | | Close racing Watch closes a nil channel. |
| watcher_close_from_callback | StatsWatcher_close_from_callback.cfg | violation | | Close from the callback waits on its own goroutine forever. |
| memory_resize | MCMemoryReload / MemoryReload_resize.cfg | pass | 236,928 | Two goroutines saving, deleting, loading, asking TTL and Stats while resizes run. `NoLostSave`: no write is lost except to eviction or expiry. `ExpiryKept`: no entry gains or loses its expiry. `MemoryCacheSpec`: Memory refines `MemoryCache`. The size and the entries change together, so no Stats sees the old memory size with the new freecache. The copy keeps each entry's remaining TTL: a copy that restarted the saved expiry (`CopyStepFullTTL`) is caught here and by no other property. `ResizeCompletes`: under weak fairness, a resize waiting for the write lock always gets it and finishes, although readers keep coming. |
| memory_ttl_units | MemoryReload_ttl_units.cfg | violation | | `TTLIsRemainingTime` fails: TTL returns seconds as nanoseconds. |
| redis_stats | MCRedisStats / RedisStats_stats.cfg | pass | 11,202 | Standalone, and a cluster of two masters and one replica. Checks `StatsAllOrNothing` and `CountersAsDocumented` in every callback order and failure pattern. `HumanFriendlyAsDocumented`: bytesHumanFriendly prints the boundary sizes and the returned Memory and MaxMemory in the right unit and rounding, within its buffer, and as the tests expect. |
| redis_stats_maxmemory | RedisStats_maxmemory.cfg | violation | | `StatsAsDocumented` fails: a configured maxmemory is never reported. |

Every property of a passing run has a mutant in `PROJECT.json`. A mutant is a plausible bug in the mapped definition, and TLC finds it under the run's cfg. Examples:

- a Save that ignores a failure;
- a Close without its sync.Once;
- a MastersDone that drops the error;
- an Assign without the expired-keys case.

## Findings

1. **Multi.Load read-repair TTL** (code bug). Load reads the value and its TTL in two backend calls (`Load`, then `TTL`), and repairs the upper tiers with that pair. A Save by another caller between the two calls gives the old value the new value's TTL. A value only ever saved with a 1 s expiry then sits in tier 0 with no expiry. No interleaving of whole backend writes could produce that entry, so the spec's lack of cross-tier consistency (section 5) does not excuse it. The spec's read-repair property (section 8) bounds the repaired TTL by the copy it was read from.
2. **Redis onConfigChange** (divergence). It does not check for Close, so a reload after Close leaks a live client.
3. **StatsWatcher.Close racing Watch** (code bug). It can close a nil channel and panic (`part_002:175`).
4. **StatsWatcher.Close from the callback** (divergence). It deadlocks in `wg.Wait`.
5. **Memory.TTL** (code bug). `time.Duration(seconds)` is nanoseconds (`memory.go:108`).
6. **parseInfoStats** (code bug). The maxmemory branch is dead (`redis_config.go:122`), so MaxMemory is always total_system_memory.

## Bounds and why they are enough

- **TieredCache:** two tiers, two values, and expiries {-1, 0, 1}: a delete, NoExpire and one finite TTL. That is enough for a hit in either tier, a repair, a delete and an expiry. The race run adds a second client, the smallest case in which a Save lands between a Load's two calls on the winning tier.
- **RedisReload:** two callers, two configurations (a sentinel one, which `IsCluster` rejects for its master name, and a cluster one), and up to two reloads. A second reload is the smallest case where a caller sees a client that has already been swapped out and closed.
- **MemoryReload:** two callers, two keys, two values, an initial size of 0 and configured sizes {0, 2} with a minimum of 1 (so a resize grows the cache from one entry to two and can shrink it back, evicting), one counted Load per instance (`MaxLoads = 1`), expiries {0, 1, 4} and `Second = 2`. With these, 1 rounds up to one second, 4 is two seconds, and the nanosecond conversion gives a different number from the Duration. There are up to two resizes. The resize run, which also checks liveness, uses one value and expiries {1, 4}, with no symmetry: symmetry is unsound for liveness checking, and the smaller sets keep the run short. Expiry 1 is the sub-second one that Save rounds up. Expiry 4 is an entry whose TTL a tick can shorten before the copy, which the refinement needs to tell a kept TTL from a restarted one. Expiry 0 (none) is left out of this run to keep it under two minutes. With {0, 1, 4} the same run passes in 3.5 minutes (600,672 states). Only the ttl_units run saves entries with no expiry, and it checks nothing about the copy. The ttl_units run keeps two values, expiries {0, 1, 4} and the key and value symmetry.
- **StatsWatcher:** one app, plus the callback as a Close caller, in the passing run. The race runs use two apps.
- **RedisStats:**
  - Two symmetric masters (symmetry is sound: the masters are interchangeable model values) and one replica.
  - Memories {0, 1048575}, so maxmemory is both zero and non-zero, and summed memories cross into the unit M.
  - Counts {0, 1}, and two databases.
  - The eight configurations over one or three addresses, both databases and an empty or set master name.
  - Every callback may fail.

## Fairness

- **RedisReload:** weak fairness on each caller's steps and on the reload goroutine's steps, because each is a runnable goroutine that the Go scheduler eventually runs.
- **StatsWatcher:**
  - Weak fairness on callers, and on the goroutine's return from the callback to its select.
  - Strong fairness on `GoExit`. Go's `select` picks uniformly among ready cases, so a closed channel that stays ready is taken eventually, even while ticks keep arriving.
  - `CloseTerminates` and `AppCloseTerminates` are checked under `FairSpec`.
  - `FinalizerSpec` adds weak fairness on `FinalizerRun`. Go does not promise that finalizers ever run, so this is an assumption, not a guarantee, and `FinalizerStopsWatcher` holds under it. The spec calls the finalizer a safety net only.
- **MemoryReload (`FairSpec`):** weak fairness on each caller's SaveSet and on the reload goroutine's steps (taking the lock, the copy, the swap). A goroutine that is able to run is eventually scheduled, and Go's RWMutex queues new readers behind a waiting writer (`CanRLock`). Under these assumptions `ResizeCompletes` holds. With `CanRLockNoWriterPref`, an RLock that does not yield to a waiting writer, the readers can starve the resize, and TLC finds the violation.
- The other runs check safety only.

## Not modelled

- **Concurrent read-repair of a stale value:** with two callers, Load's write-back can bring a deleted or overwritten value back into an upper tier. Spec section 5 gives concurrent Save and Load of one key no cross-tier consistency, so no property is stated about it. `ReadAfterSave` is checked for one caller only.
- **Close before Watch:** Close then only reads a nil ticker and returns, and a later Watch still starts the goroutine. The spec asks only that Close before Watch be safe and non-blocking, and a later Close still stops the goroutine, so there is no property about it.
- **freecache's expired and evacuate counters**, which Memory.Stats copies out; no property reads them.
- **Mock:** a test double whose four atomic counters only count calls; nothing in the library depends on it.
- **freecache's segment layout.**
- **Nop, the logger adapters and the build scripts:** no state, or pure I/O.
- **The rest of Stats.String:** memUsage and hitRate come from float64 divisions. A model of exact rationals would round differently at decimal ties, and no property reads these fields. The integer fields are plain `FormatInt`.
- **Building go-redis options from xconf keys.**
- **The StatsWatcher finalizer's timing:** the model lets the finalizer run at any moment after sw becomes unreachable. It does not model when the garbage collector runs.
- **Redis6** is not a separate model: its code is the same as Redis7's. The map points its NewRedis6WithConfig and onConfigChange lines (`src/redis6_xconf_adapter.go`) at RedisReload's Init and reload actions, and the command and Stats steps at the Redis7 lines.

## Plan for later work

- Compose Multi over a Memory and a Redis tier whose failure modes come from the backend models.
- Check Multi's Stats sum against concurrent saves.
- Check the Memory refinement with entries that have no expiry, in a run of its own if the run budget allows.
