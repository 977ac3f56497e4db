---------------------------- MODULE MemoryReload ----------------------------
(***************************************************************************)
(* Memory (src/memory.go) built by NewMemoryWithConfig, with its resize on *)
(* reconfiguration (src/memory_xconf_adapter.go).  The freecache instance  *)
(* is abstracted to a map from key to entry with a capacity in entries: a  *)
(* Set of a new key into a full cache evicts another entry.  Expiry is in  *)
(* whole seconds, as in freecache: an entry holds its remaining seconds    *)
(* (0: no expiry), and Tick, one second passing, drops the entries whose   *)
(* last second elapsed.  Durations (time.Duration) are integers in a unit  *)
(* of which Second make one second.                                        *)
(*                                                                         *)
(* Save takes the read lock and then calls freecache, so the two are       *)
(* separate steps; Load and TTL are one step (their freecache call is      *)
(* atomic and they only read).  The reload goroutine takes the write lock  *)
(* (Go's writer-preferring RWMutex), copies the entries one per step into  *)
(* a new freecache, swaps it in and unlocks.                               *)
(***************************************************************************)
EXTENDS Integers, FiniteSets

CONSTANTS
    Callers,      \* goroutines calling the cache
    Keys, Values,
    Second,       \* duration units in one second
    Expires,      \* expire arguments >= 0 of Save (durations)
    CfgSizes,     \* memory sizes the configuration may hold
    MinSize,      \* freecacheMinBufSize
    InitSize,     \* memory size given to NewMemoryWithConfig
    MaxReloads,   \* bound on resizes
    MaxLoads,     \* bound on the Loads counted by one freecache instance
    None

ASSUME Second > 1 /\ None \notin Values /\ Expires \subseteq Nat

\* getRealMemorySize: freecache's minimum size.
getRealMemorySize(mem) == IF mem < MinSize THEN MinSize ELSE mem

Ids == 1 .. MaxReloads + 1

\* An entry: value, remaining seconds (0: no expiry), and the expire
\* argument of the Save that stored it (ghost, for the properties).
Entry == [val : Values, ttl : Nat, dur : Int]

\* Mutant: int(expire.Seconds()) without rounding a sub-second expire up.
ExpireSecondsTrunc(expire) == expire \div Second

\* The expireSeconds Save passes to freecache.
ExpireSeconds(expire) ==
    LET s == expire \div Second IN IF expire > 0 /\ s = 0 THEN 1 ELSE s

VARIABLES
    data,          \* data[id]: the entries of freecache instance id
    cap,           \* cap[id]: its capacity
    client,        \* cache.client
    memSize,       \* cache.memSize
    nextId,
    readerCount, writer, writerWaiting,   \* cache.mu
    pc,            \* pc[c]: "idle" or "set" (Save holding the read lock)
    arg,           \* arg[c]: the Save being executed
    ret,           \* ret[c]: result of c's last TTL call
    rpc,           \* step of onConfigChange
    newSize,       \* memSize computed by onConfigChange
    newId,         \* newClient
    todo,          \* keys the iterator has not visited yet
    expect,        \* expect[k]: what the live cache must hold for k (ghost)
    dropped,       \* keys the copy evicted from newClient (ghost)
    hits, misses   \* hit and miss counts of the live freecache instance

vars == <<data, cap, client, memSize, nextId, readerCount, writer,
          writerWaiting, pc, arg, ret, rpc, newSize, newId, todo, expect,
          dropped, hits, misses>>

Unknown == "unknown"   \* expect[k] after an eviction or an expiry
NoArg == [key |-> None, val |-> None, exp |-> 0]
NoRet == [d |-> 0, r |-> 0]

TypeOK ==
    /\ data \in [Ids -> [Keys -> Entry \cup {None}]]
    /\ cap \in [Ids -> Nat]
    /\ client \in Ids /\ memSize \in Nat /\ nextId \in 1 .. MaxReloads + 2
    /\ readerCount \in 0 .. Cardinality(Callers)
    /\ writer \in BOOLEAN /\ writerWaiting \in BOOLEAN
    /\ pc \in [Callers -> {"idle", "set"}]
    /\ arg \in [Callers -> [key : Keys \cup {None}, val : Values \cup {None},
                            exp : Expires \cup {0}]]
    /\ ret \in [Callers -> [d : Int, r : Nat]]
    /\ rpc \in {"idle", "waitlock", "locked", "copy"}
    /\ newSize \in Nat /\ newId \in Ids \cup {0} /\ todo \subseteq Keys
    /\ expect \in [Keys -> Values \cup {None, Unknown}]
    /\ dropped \subseteq Keys
    /\ hits \in 0 .. MaxLoads /\ misses \in 0 .. MaxLoads

Empty == [k \in Keys |-> None]

Init ==
    /\ data = [i \in Ids |-> Empty]
    /\ cap = [i \in Ids |-> IF i = 1 THEN getRealMemorySize(InitSize) ELSE 0]
    /\ client = 1 /\ nextId = 2
    /\ memSize = getRealMemorySize(InitSize)
    /\ readerCount = 0 /\ writer = FALSE /\ writerWaiting = FALSE
    /\ pc = [c \in Callers |-> "idle"]
    /\ arg = [c \in Callers |-> NoArg]
    /\ ret = [c \in Callers |-> NoRet]
    /\ rpc = "idle" /\ newSize = 0 /\ newId = 0 /\ todo = {}
    /\ expect = [k \in Keys |-> None]
    /\ dropped = {}
    /\ hits = 0 /\ misses = 0

Stored(id) == {k \in Keys : data[id][k] /= None}

\* freecache Set(key, value, expireSeconds) on instance id: an existing
\* entry is replaced; a new one goes in, evicting another if id is full.
\* The result is the set of evicted keys.
SetResults(id, k, e) ==
    IF data[id][k] /= None \/ Cardinality(Stored(id)) < cap[id]
    THEN {[d |-> [data[id] EXCEPT ![k] = e], ev |-> {}]}
    ELSE {[d |-> [data[id] EXCEPT ![k] = e, ![x] = None], ev |-> {x}] :
            x \in Stored(id) \ {k}}

\* Mutant: an RLock that only waits for a writer holding the lock.
CanRLockNoWriterPref == ~writer

\* Go's RWMutex: RLock waits while a writer holds or waits for the lock.
CanRLock == ~writer /\ ~writerWaiting

-----------------------------------------------------------------------------
(* Memory.Save                                                             *)

\* expire < 0: rLock; client.Del; rUnlock.
SaveDelete(c, k) ==
    /\ pc[c] = "idle" /\ CanRLock
    /\ data' = [data EXCEPT ![client][k] = None]
    /\ expect' = [expect EXCEPT ![k] = None]
    /\ UNCHANGED <<hits, misses, cap, client, memSize, nextId, readerCount, writer,
                   writerWaiting, pc, arg, ret, rpc, newSize, newId, todo,
                   dropped>>

\* Mutant: the Set path of Save without cache.rLock().
SaveLockNoLock(c, k, v, e) ==
    /\ pc[c] = "idle" /\ CanRLock
    /\ pc' = [pc EXCEPT ![c] = "set"]
    /\ arg' = [arg EXCEPT ![c] = [key |-> k, val |-> v, exp |-> e]]
    /\ UNCHANGED <<hits, misses, data, cap, client, memSize, nextId, readerCount, writer,
                   writerWaiting, ret, rpc, newSize, newId, todo, expect,
                   dropped>>

\* expireSeconds is computed, then rLock.
SaveLock(c, k, v, e) ==
    /\ pc[c] = "idle" /\ CanRLock /\ e >= 0
    /\ readerCount' = readerCount + 1
    /\ pc' = [pc EXCEPT ![c] = "set"]
    /\ arg' = [arg EXCEPT ![c] = [key |-> k, val |-> v, exp |-> e]]
    /\ UNCHANGED <<hits, misses, data, cap, client, memSize, nextId, writer, writerWaiting,
                   ret, rpc, newSize, newId, todo, expect, dropped>>

\* client.Set(key, value, expireSeconds); rUnlock.
SaveSet(c) ==
    /\ pc[c] = "set"
    /\ LET a == arg[c]
           e == [val |-> a.val, ttl |-> ExpireSeconds(a.exp), dur |-> a.exp]
       IN \E r \in SetResults(client, a.key, e) :
            /\ data' = [data EXCEPT ![client] = r.d]
            /\ expect' = [k \in Keys |-> IF k = a.key THEN a.val
                                         ELSE IF k \in r.ev THEN Unknown
                                         ELSE expect[k]]
    /\ readerCount' = readerCount - 1
    /\ pc' = [pc EXCEPT ![c] = "idle"]
    /\ arg' = [arg EXCEPT ![c] = NoArg]
    /\ UNCHANGED <<hits, misses, cap, client, memSize, nextId, writer, writerWaiting, ret,
                   rpc, newSize, newId, todo, dropped>>

\* Memory.TTL: rLock; client.TTL; rUnlock; -1 on ErrNotFound, else
\* time.Duration(ttl) of the seconds freecache returns.  r records the
\* remaining seconds (ghost).
TTL(c, k) ==
    /\ pc[c] = "idle" /\ CanRLock
    /\ ret' = [ret EXCEPT ![c] =
                 IF data[client][k] = None THEN [d |-> -1, r |-> 0]
                 ELSE [d |-> data[client][k].ttl, r |-> data[client][k].ttl]]
    /\ UNCHANGED <<hits, misses, data, cap, client, memSize, nextId, readerCount, writer,
                   writerWaiting, pc, arg, rpc, newSize, newId, todo, expect,
                   dropped>>

\* Memory.Load: rLock; client.Get counts a hit or a miss on the live
\* freecache; rUnlock.  The value or ErrNotFound it returns is output only.
Load(c, k) ==
    /\ pc[c] = "idle" /\ CanRLock
    /\ hits + misses < MaxLoads
    /\ IF data[client][k] /= None
         THEN hits' = hits + 1 /\ UNCHANGED misses
         ELSE misses' = misses + 1 /\ UNCHANGED hits
    /\ UNCHANGED <<data, cap, client, memSize, nextId, readerCount, writer,
                   writerWaiting, pc, arg, ret, rpc, newSize, newId, todo, expect,
                   dropped>>

\* Memory.Stats: under the read lock, Memory and MaxMemory from
\* cache.memSize, the counters and the entry count from the live freecache.
\* It changes nothing; that the two belong together is MemoryCacheSpec's
\* size and store, read in one step.
Stats(c) ==
    /\ pc[c] = "idle" /\ CanRLock
    /\ UNCHANGED vars

\* One second passes: entries whose last second elapsed expire.
Tick ==
    /\ \E id \in Ids, k \in Keys : data[id][k] /= None /\ data[id][k].ttl > 0
    /\ data' = [id \in Ids |-> [k \in Keys |->
                 LET e == data[id][k] IN
                 IF e = None \/ e.ttl = 0 THEN e
                 ELSE IF e.ttl = 1 THEN None
                 ELSE [e EXCEPT !.ttl = @ - 1]]]
    /\ expect' = [k \in Keys |->
                    IF data[client][k] /= None /\ data[client][k].ttl = 1
                    THEN Unknown ELSE expect[k]]
    /\ UNCHANGED <<hits, misses, cap, client, memSize, nextId, readerCount, writer,
                   writerWaiting, pc, arg, ret, rpc, newSize, newId, todo,
                   dropped>>
-----------------------------------------------------------------------------
(* Memory.onConfigChange                                                   *)

\* MemoryCfgKeyMemorySize changed: memSize = getRealMemorySize(...);
\* cache.mu.Lock() announces the writer.
ConfigChanged(size) ==
    /\ rpc = "idle"
    /\ nextId <= MaxReloads + 1
    /\ newSize' = getRealMemorySize(size)
    /\ writerWaiting' = TRUE
    /\ rpc' = "waitlock"
    /\ UNCHANGED <<hits, misses, data, cap, client, memSize, nextId, readerCount, writer,
                   pc, arg, ret, newId, todo, expect, dropped>>

\* Mutant: the write lock taken while readers still hold the read lock.
LockAcquireNoDrain ==
    /\ rpc = "waitlock"
    /\ ~writer
    /\ writer' = TRUE /\ writerWaiting' = FALSE
    /\ rpc' = "locked"
    /\ UNCHANGED <<hits, misses, data, cap, client, memSize, nextId, readerCount, pc, arg,
                   ret, newSize, newId, todo, expect, dropped>>

\* Lock acquired once the readers are gone.
LockAcquire ==
    /\ rpc = "waitlock"
    /\ readerCount = 0 /\ ~writer
    /\ writer' = TRUE /\ writerWaiting' = FALSE
    /\ rpc' = "locked"
    /\ UNCHANGED <<hits, misses, data, cap, client, memSize, nextId, readerCount, pc, arg,
                   ret, newSize, newId, todo, expect, dropped>>

\* memSize == cache.memSize: nothing to do; cache.mu.Unlock().
SameSize ==
    /\ rpc = "locked"
    /\ newSize = memSize
    /\ writer' = FALSE
    /\ rpc' = "idle"
    /\ UNCHANGED <<hits, misses, data, cap, client, memSize, nextId, readerCount,
                   writerWaiting, pc, arg, ret, newSize, newId, todo, expect,
                   dropped>>

\* newClient := freecache.NewCache(memSize); iter := oldClient.NewIterator()
NewClient ==
    /\ rpc = "locked"
    /\ newSize /= memSize
    /\ newId' = nextId
    /\ nextId' = nextId + 1
    /\ cap' = [cap EXCEPT ![nextId] = newSize]
    /\ todo' = Keys
    /\ dropped' = {}
    /\ rpc' = "copy"
    /\ UNCHANGED <<hits, misses, data, client, memSize, readerCount, writer, writerWaiting,
                   pc, arg, ret, newSize, expect>>

\* Mutant: the copy sets each entry with the expiry its Save asked for
\* instead of the TTL left.
CopyStepFullTTL(k) ==
    /\ rpc = "copy"
    /\ k \in todo
    /\ todo' = todo \ {k}
    /\ LET e == data[client][k] IN
       IF e = None
       THEN UNCHANGED <<hits, misses, data, dropped>>
       ELSE \E r \in SetResults(newId, k, [e EXCEPT !.ttl = ExpireSeconds(e.dur)]) :
              /\ data' = [data EXCEPT ![newId] = r.d]
              /\ dropped' = (dropped \cup r.ev) \ {k}
    /\ UNCHANGED <<hits, misses, cap, client, memSize, nextId, readerCount, writer,
                   writerWaiting, pc, arg, ret, rpc, newSize, newId, expect>>

\* entry := iter.Next(); if ttl, err := oldClient.TTL(entry.Key); err == nil
\* { newClient.Set(entry.Key, entry.Value, int(ttl)) }.  A key that expired
\* since the iterator started is skipped.
CopyStep(k) ==
    /\ rpc = "copy"
    /\ k \in todo
    /\ todo' = todo \ {k}
    /\ LET e == data[client][k] IN
       IF e = None
       THEN UNCHANGED <<hits, misses, data, dropped>>
       ELSE \E r \in SetResults(newId, k, e) :
              /\ data' = [data EXCEPT ![newId] = r.d]
              /\ dropped' = (dropped \cup r.ev) \ {k}
    /\ UNCHANGED <<hits, misses, cap, client, memSize, nextId, readerCount, writer,
                   writerWaiting, pc, arg, ret, rpc, newSize, newId, expect>>

\* iter.Next() == nil: cache.client = newClient; cache.memSize = memSize;
\* cache.mu.Unlock().  What the copy evicted is no longer expected.  The
\* old instance is unreachable from then on; its contents are dropped, and
\* the counters Stats reads are newClient's, which start at zero.
Swap ==
    /\ rpc = "copy"
    /\ todo = {}
    /\ client' = newId
    /\ data' = [data EXCEPT ![client] = Empty]
    /\ memSize' = newSize
    /\ expect' = [k \in Keys |-> IF k \in dropped THEN Unknown ELSE expect[k]]
    /\ writer' = FALSE
    /\ hits' = 0 /\ misses' = 0
    /\ rpc' = "idle"
    /\ UNCHANGED <<cap, nextId, readerCount, writerWaiting, pc, arg,
                   ret, newSize, newId, todo, dropped>>

Next ==
    \/ \E c \in Callers :
        \/ \E k \in Keys : SaveDelete(c, k) \/ TTL(c, k) \/ Load(c, k)
        \/ Stats(c)
        \/ \E k \in Keys, v \in Values, e \in Expires : SaveLock(c, k, v, e)
        \/ SaveSet(c)
    \/ Tick
    \/ \E size \in CfgSizes : ConfigChanged(size)
    \/ LockAcquire \/ SameSize \/ NewClient \/ Swap
    \/ \E k \in Keys : CopyStep(k)

Spec == Init /\ [][Next]_vars

\* Go runs every runnable goroutine: a Save holding the read lock finishes
\* its Set, and the reload goroutine goes on once Lock can return.
Fairness ==
    /\ \A c \in Callers : WF_vars(SaveSet(c))
    /\ WF_vars(LockAcquire \/ SameSize \/ NewClient \/ Swap
               \/ \E k \in Keys : CopyStep(k))

FairSpec == Spec /\ Fairness

-----------------------------------------------------------------------------
(* Properties                                                              *)

\* A resize loses no write: every key holds in the live freecache what the
\* last Save or delete of it left there, unless an eviction or an expiry
\* removed it since.  Saves running under the read lock and the copy under
\* the write lock exclude each other, and the copy visits every key.
NoLostSave ==
    \A k \in Keys :
        \/ expect[k] = Unknown
        \/ expect[k] = None /\ data[client][k] = None
        \/ data[client][k] /= None /\ data[client][k].val = expect[k]

\* Expiry is kept (Save rounds a sub-second expire up to one second, the
\* copy keeps each entry's remaining TTL): an entry never expires when its
\* Save asked for an expiry, and never outlives it by a second or more.
ExpiryKept ==
    \A id \in Ids, k \in Keys :
        LET e == data[id][k] IN
        e /= None =>
            /\ e.ttl = 0 <=> e.dur = 0
            /\ e.ttl * Second < e.dur + Second

\* Memory.TTL returns the remaining time to live as a time.Duration: for an
\* entry with r whole seconds left, between r - 1 and r seconds.
TTLIsRemainingTime ==
    \A c \in Callers :
        ret[c].r > 0 => (ret[c].r - 1) * Second < ret[c].d
                        /\ ret[c].d <= ret[c].r * Second

\* Every resize completes, however often the goroutines call the cache:
\* once onConfigChange waits in cache.mu.Lock(), new RLock calls queue
\* behind it, the Saves holding the read lock finish, and the copy and the
\* swap follow.
ResizeCompletes == rpc = "waitlock" ~> rpc = "idle"

-----------------------------------------------------------------------------
(* Refinement: the live freecache instance, without the ghost expire      *)
(* argument, and cache.memSize are the store and size of MemoryCache.     *)

LiveItem(k) ==
    IF data[client][k] = None THEN None
    ELSE [val |-> data[client][k].val, ttl |-> data[client][k].ttl]

Abstract == INSTANCE MemoryCache WITH
    store <- [k \in Keys |-> LiveItem(k)],
    size <- memSize,
    Secs <- {ExpireSeconds(e) : e \in Expires},
    Sizes <- {getRealMemorySize(s) : s \in CfgSizes \cup {InitSize}}

\* Memory behaves as MemoryCache: every Save, delete and resize takes effect
\* in one step, whatever the interleaving of the callers with the copy; a
\* resize keeps each entry it copies with the value and the TTL it had left
\* (onConfigChange reads oldClient.TTL), and no more entries than fit.
MemoryCacheSpec == Abstract!Spec

=============================================================================
