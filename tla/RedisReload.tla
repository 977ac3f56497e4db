---------------------------- MODULE RedisReload ----------------------------
(***************************************************************************)
(* Redis7 (and the identical Redis6) created by NewRedis7WithConfig: the   *)
(* fields client, isCluster and statsInfoKeyPrefixes are guarded by a      *)
(* sync.RWMutex.  Cache calls hold the read lock for one call;             *)
(* onConfigChange, run by the configuration's reload goroutine, builds a   *)
(* new client outside the lock, swaps the three fields under the write     *)
(* lock, and closes the old client after unlocking.                        *)
(*                                                                         *)
(* The lock is Go's RWMutex: once a writer waits in Lock, new RLock calls  *)
(* block until it has acquired and released the lock.  A Redis command is  *)
(* two steps: reading cache.client and sending, then the reply; a client   *)
(* closed in between fails the command.  Stats reads isCluster, then the   *)
(* client, then (after the INFO reply) statsInfoKeyPrefixes.  A client is  *)
(* identified by the order of its creation; prefixes are identified by the *)
(* configuration they were computed from.                                  *)
(***************************************************************************)
EXTENDS Integers, FiniteSets, RedisConfig

CONSTANTS
    Callers,      \* goroutines calling the cache
    Configs,      \* Redis configurations (RedisConfig records) the reload may deliver
    InitCfg,      \* configuration given to NewRedis7WithConfig
    MaxReloads,   \* bound on the number of clients built by reloads
    NoCfg,
    Torn          \* served by a Stats call that combined fields of two configurations

ASSUME InitCfg \in Configs /\ NoCfg \notin Configs /\ Torn \notin Configs \cup {NoCfg}

\* The configurations for which redisConfig.IsCluster() holds.
ClusterCfgs == {cfg \in Configs : IsCluster(cfg)}

Ids == 1 .. MaxReloads + 1
NoId == 0

VARIABLES
    client,        \* cache.client
    isCluster,     \* cache.isCluster
    prefixes,      \* cache.statsInfoKeyPrefixes
    conn,          \* conn[id]: "none", "open" or "closed"
    cfgOf,         \* cfgOf[id]: configuration client id was built from
    nextId,        \* id of the next client to be built
    readerCount,   \* number of read locks held (RWMutex.readerCount)
    writer,        \* the write lock is held
    writerWaiting, \* a goroutine is blocked in Lock
    pc,            \* pc[c]: step of caller c
    held,          \* held[c]: the client c read from cache.client
    mode,          \* mode[c]: the isCluster value c's Stats read
    rpc,           \* step of the reload goroutine in onConfigChange
    newId,         \* newClient of onConfigChange
    oldId,         \* oldClient of onConfigChange
    userClosed,    \* Close has been called by the application
    closedByReload,\* clients closed by onConfigChange (ghost)
    served,        \* served[c]: configuration c's last call ran against (ghost)
    staleUse       \* a command was answered "client is closed" because a
                   \* reload closed its client under it (ghost)

vars == <<client, isCluster, prefixes, conn, cfgOf, nextId, readerCount, writer,
          writerWaiting, pc, held, mode, rpc, newId, oldId, userClosed,
          closedByReload, served, staleUse>>


TypeOK ==
    /\ client \in Ids /\ isCluster \in BOOLEAN /\ prefixes \in Configs
    /\ conn \in [Ids -> {"none", "open", "closed"}]
    /\ cfgOf \in [Ids -> Configs \cup {NoCfg}]
    /\ nextId \in 1 .. MaxReloads + 2
    /\ readerCount \in 0 .. Cardinality(Callers) /\ writer \in BOOLEAN
    /\ writerWaiting \in BOOLEAN
    /\ pc \in [Callers -> {"idle", "cmd", "cmdwait", "stats", "stats2",
                            "statswait", "close"}]
    /\ held \in [Callers -> Ids \cup {NoId}]
    /\ mode \in [Callers -> BOOLEAN]
    /\ rpc \in {"idle", "built", "waitlock", "locked", "unlocked"}
    /\ newId \in Ids \cup {NoId} /\ oldId \in Ids \cup {NoId}
    /\ userClosed \in BOOLEAN /\ closedByReload \subseteq Ids
    /\ served \in [Callers -> Configs \cup {NoCfg, Torn}]
    /\ staleUse \in BOOLEAN

\* NewRedis7WithConfig: NewRedis7 (client, isCluster, setStatsKeyPrefixes)
\* then cache.mu = new(sync.RWMutex).
Init ==
    /\ client = 1 /\ nextId = 2
    /\ isCluster = (InitCfg \in ClusterCfgs) /\ prefixes = InitCfg
    /\ conn = [i \in Ids |-> IF i = 1 THEN "open" ELSE "none"]
    /\ cfgOf = [i \in Ids |-> IF i = 1 THEN InitCfg ELSE NoCfg]
    /\ readerCount = 0 /\ writer = FALSE /\ writerWaiting = FALSE
    /\ pc = [c \in Callers |-> "idle"]
    /\ held = [c \in Callers |-> NoId]
    /\ mode = [c \in Callers |-> FALSE]
    /\ rpc = "idle" /\ newId = NoId /\ oldId = NoId
    /\ userClosed = FALSE /\ closedByReload = {}
    /\ served = [c \in Callers |-> NoCfg]
    /\ staleUse = FALSE

CallerVars == <<pc, held, mode, served, staleUse>>
ReloadVars == <<rpc, newId, oldId, nextId, closedByReload, writerWaiting, writer>>
FieldVars  == <<client, isCluster, prefixes>>

-----------------------------------------------------------------------------
(* Cache calls.  rLock: RLock blocks while a writer holds or waits for the *)
(* lock.  op is "cmd" for Save, Load and TTL, "stats", or "close".         *)

\* Mutant: an RLock that does not queue behind a waiting writer.
RLockNoWriterPref(c, op) ==
    /\ pc[c] = "idle"
    /\ ~writer
    /\ readerCount' = readerCount + 1
    /\ pc' = [pc EXCEPT ![c] = op]
    /\ UNCHANGED <<held, mode, served, staleUse, conn, cfgOf, userClosed>>
    /\ UNCHANGED <<ReloadVars, FieldVars>>

RLock(c, op) ==
    /\ pc[c] = "idle"
    /\ ~writer /\ ~writerWaiting
    /\ readerCount' = readerCount + 1
    /\ pc' = [pc EXCEPT ![c] = op]
    /\ UNCHANGED <<held, mode, served, staleUse, conn, cfgOf, userClosed>>
    /\ UNCHANGED <<ReloadVars, FieldVars>>

\* Mutant: rUnlock called twice (an explicit call and a deferred one).
ReplyUnlockTwice(c, id) ==
    /\ staleUse' = (staleUse \/ (conn[id] = "closed" /\ id \in closedByReload))
    /\ readerCount' = readerCount - 2
    /\ pc' = [pc EXCEPT ![c] = "idle"]
    /\ held' = [held EXCEPT ![c] = NoId]

\* The reply of a command sent on client id: a closed client fails it.
Reply(c, id) ==
    /\ staleUse' = (staleUse \/ (conn[id] = "closed" /\ id \in closedByReload))
    /\ readerCount' = readerCount - 1
    /\ pc' = [pc EXCEPT ![c] = "idle"]
    /\ held' = [held EXCEPT ![c] = NoId]

\* Save / Load / TTL: cache.client.Set|Get|TTL(ctx, ...) is sent.
CmdSend(c) ==
    /\ pc[c] = "cmd"
    /\ held' = [held EXCEPT ![c] = client]
    /\ pc' = [pc EXCEPT ![c] = "cmdwait"]
    /\ UNCHANGED <<readerCount, mode, served, staleUse, conn, cfgOf, userClosed>>
    /\ UNCHANGED <<ReloadVars, FieldVars>>

\* The reply arrives; rUnlock.
CmdReply(c) ==
    /\ pc[c] = "cmdwait"
    /\ Reply(c, held[c])
    /\ served' = [served EXCEPT ![c] = cfgOf[held[c]]]
    /\ UNCHANGED <<mode, conn, cfgOf, userClosed, ReloadVars, FieldVars>>

\* Stats: if cache.isCluster ...
StatsMode(c) ==
    /\ pc[c] = "stats"
    /\ mode' = [mode EXCEPT ![c] = isCluster]
    /\ pc' = [pc EXCEPT ![c] = "stats2"]
    /\ UNCHANGED <<readerCount, held, served, staleUse, conn, cfgOf, userClosed>>
    /\ UNCHANGED <<ReloadVars, FieldVars>>

\* ... cache.client.(*ClusterClient) / cache.client.Info(ctx) is sent.
StatsSend(c) ==
    /\ pc[c] = "stats2"
    /\ held' = [held EXCEPT ![c] = client]
    /\ pc' = [pc EXCEPT ![c] = "statswait"]
    /\ UNCHANGED <<readerCount, mode, served, staleUse, conn, cfgOf, userClosed>>
    /\ UNCHANGED <<ReloadVars, FieldVars>>

\* The INFO replies arrive and are parsed with cache.statsInfoKeyPrefixes;
\* rUnlock.  The call ran against one configuration only if the mode, the
\* client and the prefixes it used all come from it.
StatsReply(c) ==
    /\ pc[c] = "statswait"
    /\ Reply(c, held[c])
    /\ LET cfg == cfgOf[held[c]] IN
       served' = [served EXCEPT ![c] =
                    IF mode[c] = (cfg \in ClusterCfgs) /\ prefixes = cfg
                    THEN cfg ELSE Torn]
    /\ UNCHANGED <<mode, conn, cfgOf, userClosed, ReloadVars, FieldVars>>

\* Close: cache.client.Close() under the read lock.
Close(c) ==
    /\ pc[c] = "close"
    /\ conn' = [conn EXCEPT ![client] = "closed"]
    /\ userClosed' = TRUE
    /\ readerCount' = readerCount - 1
    /\ pc' = [pc EXCEPT ![c] = "idle"]
    /\ UNCHANGED <<held, mode, served, staleUse, cfgOf, ReloadVars, FieldVars>>

-----------------------------------------------------------------------------
(* onConfigChange.                                                         *)

\* A reload whose changed keys contain no RedisCfgKey* key returns at once;
\* otherwise getRedisConfig and NewUniversalClient build the new client.
ConfigChanged ==
    /\ rpc = "idle"
    /\ nextId <= MaxReloads + 1
    /\ \E cfg \in Configs :
        /\ newId' = nextId
        /\ nextId' = nextId + 1
        /\ conn' = [conn EXCEPT ![nextId] = "open"]
        /\ cfgOf' = [cfgOf EXCEPT ![nextId] = cfg]
    /\ rpc' = "built"
    /\ UNCHANGED <<client, isCluster, prefixes, readerCount, writer, writerWaiting,
                   oldId, userClosed, closedByReload, CallerVars>>

\* Mutant: the old client closed before the swap instead of after it.
LockRequestClosingOld ==
    /\ rpc = "built"
    /\ writerWaiting' = TRUE
    /\ conn' = [conn EXCEPT ![client] = "closed"]
    /\ closedByReload' = closedByReload \cup {client}
    /\ rpc' = "waitlock"
    /\ UNCHANGED <<client, isCluster, prefixes, cfgOf, nextId, readerCount,
                   writer, newId, oldId, userClosed, CallerVars>>

\* cache.mu.Lock(): the writer announces itself, then waits for readers.
LockRequest ==
    /\ rpc = "built"
    /\ writerWaiting' = TRUE
    /\ rpc' = "waitlock"
    /\ UNCHANGED <<client, isCluster, prefixes, conn, cfgOf, nextId, readerCount,
                   writer, newId, oldId, userClosed, closedByReload, CallerVars>>

LockAcquire ==
    /\ rpc = "waitlock"
    /\ readerCount = 0 /\ ~writer
    /\ writer' = TRUE /\ writerWaiting' = FALSE
    /\ rpc' = "locked"
    /\ UNCHANGED <<client, isCluster, prefixes, conn, cfgOf, nextId, readerCount,
                   newId, oldId, userClosed, closedByReload, CallerVars>>

\* Mutant: the swap forgets cache.isCluster = redisConfig.IsCluster().
SwapNoMode ==
    /\ rpc = "locked"
    /\ oldId' = client
    /\ client' = newId
    /\ prefixes' = cfgOf[newId]
    /\ writer' = FALSE
    /\ rpc' = "unlocked"
    /\ UNCHANGED <<isCluster, conn, cfgOf, nextId, readerCount, writerWaiting, newId,
                   userClosed, closedByReload, CallerVars>>

\* oldClient := cache.client; cache.client = newClient; cache.isCluster =
\* redisConfig.IsCluster(); cache.setStatsKeyPrefixes(redisConfig.DB);
\* cache.mu.Unlock()
Swap ==
    /\ rpc = "locked"
    /\ oldId' = client
    /\ client' = newId
    /\ isCluster' = (cfgOf[newId] \in ClusterCfgs)
    /\ prefixes' = cfgOf[newId]
    /\ writer' = FALSE
    /\ rpc' = "unlocked"
    /\ UNCHANGED <<conn, cfgOf, nextId, readerCount, writerWaiting, newId,
                   userClosed, closedByReload, CallerVars>>

\* _ = oldClient.Close()
CloseOld ==
    /\ rpc = "unlocked"
    /\ conn' = [conn EXCEPT ![oldId] = "closed"]
    /\ closedByReload' = closedByReload \cup {oldId}
    /\ rpc' = "idle"
    /\ newId' = NoId /\ oldId' = NoId
    /\ UNCHANGED <<client, isCluster, prefixes, cfgOf, nextId, readerCount, writer,
                   writerWaiting, userClosed, CallerVars>>

CallerStep(c) ==
    \/ CmdSend(c) \/ CmdReply(c)
    \/ StatsMode(c) \/ StatsSend(c) \/ StatsReply(c)
    \/ Close(c)

ReloadStep == LockRequest \/ LockAcquire \/ Swap \/ CloseOld

Next ==
    \/ \E c \in Callers :
        \/ \E op \in {"cmd", "stats", "close"} : RLock(c, op)
        \/ CallerStep(c)
    \/ ConfigChanged
    \/ ReloadStep

\* Goroutines that started a call run it to the end, and the reload
\* goroutine runs onConfigChange to the end, as the Go scheduler lets every
\* runnable goroutine run.  Starting a call or a reload is not forced.
Fairness ==
    /\ \A c \in Callers : WF_vars(CallerStep(c))
    /\ WF_vars(ReloadStep)

-----------------------------------------------------------------------------
(* Properties.                                                             *)

\* A reload never closes a client that a call in flight is still using: the
\* old client is closed only after the swap, and the swap waits in Lock for
\* every call that read the old cache.client.  (A command failing because
\* the application itself called Close is not counted.)
NoStaleClientUse == ~staleUse

\* A reload that has built its new client eventually swaps it in and closes
\* the old one: callers arriving after Lock was requested queue behind the
\* writer, so the readers drain.
ReconfigCompletes == rpc = "built" ~> rpc = "idle"

\* Once the application has closed the cache, the client the cache refers to
\* stays closed (spec: backends live "until explicitly closed").
ClosedStaysClosed == userClosed => conn[client] = "closed"

Spec == Init /\ [][Next]_vars
FairSpec == Spec /\ Fairness
=============================================================================
