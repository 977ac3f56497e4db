------------------------------ MODULE RedisStats ------------------------------
(***************************************************************************)
(* Redis7.Stats (part_000 114-171).  On a standalone or sentinel           *)
(* configuration it sends one INFO to the server and parses the reply with *)
(* the statsInfoKeyPrefixes of its database.  On a cluster it runs         *)
(* getClusterStats: ForEachMaster, then ForEachSlave, run the callback of  *)
(* every node in a goroutine of its own, wait for all of them, and return  *)
(* one of their errors, or the error of loading the cluster state before   *)
(* any callback (go-redis ClusterClient).  Each callback asks its node for *)
(* INFO, parses it and adds the counters into the shared stats with        *)
(* atomic.AddInt64.  The adds of one callback are one step: they commute   *)
(* with every other add and nothing reads stats before the wait returns.   *)
(* The read lock Stats holds keeps the configuration fixed during a call   *)
(* (its interplay with reloads is RedisReload's subject).                  *)
(***************************************************************************)
EXTENDS InfoStats, RedisConfig, StatsFormat, Functions

CONSTANTS
    RedisCfgs,     \* the configurations the cache may have been built from
    Server,        \* the server of a standalone configuration
    Masters,       \* master nodes of a cluster configuration
    Replicas,      \* replica nodes of a cluster configuration
    ClusterInfos,  \* the INFO replies a cluster node may give (within Infos)
    NoErr,         \* model value: a nil error
    Failed,        \* model value: a node whose INFO returned an error
    NotAsked       \* model value: a node not asked in this call

Nodes == {Server} \cup Masters \cup Replicas

\* The fields each pass of getClusterStats adds into stats.
MasterFields  == {"Memory", "MaxMemory", "Hits", "Misses", "Expired", "Evicted"}
ReplicaFields == {"Hits", "Misses"}

AddFields(acc, s, fields) ==
    [f \in StatsFields |-> IF f \in fields THEN acc[f] + s[f] ELSE acc[f]]

VARIABLES
    isCluster, \* cache.isCluster of the configuration the call runs under
    db,        \* the configured database
    phase,     \* "idle", "single", "masters", "replicas"
    pending,   \* cluster nodes whose callback has not returned yet
    errCh,     \* the error the cluster pass will return (NoErr or "err")
    stats,     \* the shared Stats the callbacks add into
    answer,    \* ghost: what each node answered (an INFO reply or Failed)
    result,    \* what the last Stats call returned: <<stats, error>>
    returned   \* ghost: the last Stats call has returned

vars == <<isCluster, db, phase, pending, errCh, stats, answer, result,
          returned>>

\* The cache was built from one of RedisCfgs: NewRedis7 sets isCluster to
\* IsCluster() and the prefixes from DB.
Init ==
    /\ \E rc \in RedisCfgs : isCluster = IsCluster(rc) /\ db = rc.db
    /\ phase = "idle"
    /\ pending = {}
    /\ errCh = NoErr
    /\ stats = ZeroStats
    /\ answer = [n \in Nodes |-> NotAsked]
    /\ result = <<ZeroStats, NoErr>>
    /\ returned = FALSE

\* Stats takes the read lock and either asks the single server or starts
\* ForEachMaster over the masters (the client is a *ClusterClient exactly
\* when isCluster).
Begin ==
    /\ phase = "idle"
    /\ phase' = IF isCluster THEN "masters" ELSE "single"
    /\ pending' = IF isCluster THEN Masters ELSE {}
    /\ errCh' = NoErr
    /\ stats' = ZeroStats
    /\ answer' = [n \in Nodes |-> NotAsked]
    /\ returned' = FALSE
    /\ result' = <<ZeroStats, NoErr>>
    /\ UNCHANGED <<isCluster, db>>

\* Standalone: Info(ctx), then parseInfoStats with statsInfoKeyPrefixes.
SingleInfo ==
    /\ phase = "single"
    /\ phase' = "idle"
    /\ returned' = TRUE
    /\ \/ /\ answer' = [answer EXCEPT ![Server] = Failed]
          /\ result' = <<ZeroStats, "err">>
       \/ \E i \in Infos :
            /\ answer' = [answer EXCEPT ![Server] = i]
            /\ result' = <<parseInfoStats(i, setStatsKeyPrefixes(FALSE, db)),
                           NoErr>>
    /\ UNCHANGED <<isCluster, db, pending, errCh, stats>>

\* A state error that still leaves the pass's nodes to be called back.
StateErrorKeepPending ==
    /\ phase \in {"masters", "replicas"}
    /\ pending = IF phase = "masters" THEN Masters ELSE Replicas
    /\ phase' = "idle"
    /\ result' = <<ZeroStats, "err">>
    /\ returned' = TRUE
    /\ UNCHANGED <<isCluster, db, pending, errCh, stats, answer>>

\* ForEachMaster or ForEachSlave cannot load the cluster state: it returns
\* the error before running any callback.
StateError ==
    /\ phase \in {"masters", "replicas"}
    /\ pending = IF phase = "masters" THEN Masters ELSE Replicas
    /\ phase' = "idle"
    /\ pending' = {}
    /\ result' = <<ZeroStats, "err">>
    /\ returned' = TRUE
    /\ UNCHANGED <<isCluster, db, errCh, stats, answer>>

\* The callback of node n: INFO (all sections on a master, "stats" on a
\* replica), then the atomic adds; a failed INFO keeps an error.
NodeCallback(n) ==
    /\ n \in pending
    /\ pending' = pending \ {n}
    /\ \/ /\ errCh' = "err"
          /\ answer' = [answer EXCEPT ![n] = Failed]
          /\ UNCHANGED stats
       \/ \E i \in ClusterInfos :
            /\ answer' = [answer EXCEPT ![n] = i]
            /\ stats' =
                 IF phase = "masters"
                 THEN AddFields(stats, parseInfoStats(i, setStatsKeyPrefixes(TRUE, db)),
                                MasterFields)
                 ELSE AddFields(stats, parseInfoStats(i, clusterReplicaKeyPrefixes),
                                ReplicaFields)
            /\ UNCHANGED errCh
    /\ UNCHANGED <<isCluster, db, phase, result, returned>>

\* A Stats that drops ForEachMaster's error and goes on to the replicas.
MastersDoneIgnoreErr ==
    /\ phase = "masters"
    /\ pending = {}
    /\ phase' = "replicas"
    /\ pending' = Replicas
    /\ errCh' = NoErr
    /\ UNCHANGED <<isCluster, db, result, returned, stats, answer>>

\* ForEachMaster returned: an error makes Stats return Stats{}; otherwise
\* the replicas are asked.
MastersDone ==
    /\ phase = "masters"
    /\ pending = {}
    /\ IF errCh # NoErr
         THEN /\ phase' = "idle"
              /\ result' = <<ZeroStats, errCh>>
              /\ returned' = TRUE
              /\ UNCHANGED <<pending, errCh>>
         ELSE /\ phase' = "replicas"
              /\ pending' = Replicas
              /\ errCh' = NoErr
              /\ UNCHANGED <<result, returned>>
    /\ UNCHANGED <<isCluster, db, stats, answer>>

\* ForEachSlave returned: Stats{} with its error, or the summed stats.
ReplicasDone ==
    /\ phase = "replicas"
    /\ pending = {}
    /\ phase' = "idle"
    /\ result' = IF errCh # NoErr THEN <<ZeroStats, errCh>> ELSE <<stats, NoErr>>
    /\ returned' = TRUE
    /\ UNCHANGED <<isCluster, db, pending, errCh, stats, answer>>

Next ==
    \/ Begin
    \/ SingleInfo
    \/ StateError
    \/ \E n \in Masters \cup Replicas : NodeCallback(n)
    \/ MastersDone
    \/ ReplicasDone

Spec == Init /\ [][Next]_vars

--------------------------------------------------------------------------------

\* The sum over a set of nodes of what the Stats doc says their INFO means.
DocSum(nodes) ==
    FoldFunctionOnSet(LAMBDA x, y : [f \in StatsFields |-> x[f] + y[f]],
                      ZeroStats,
                      [n \in nodes |-> DocStats(answer[n], TRUE, db)],
                      nodes)

\* The Stats doc: one server's fields; on a cluster, the masters' fields
\* summed ("MaxMemory ... the sum of max memory or system total memory of
\* all masters"), plus the replicas' hits and misses, and no Keys.
Expected ==
    IF isCluster
    THEN AddFields(AddFields(ZeroStats, DocSum(Masters), MasterFields),
                   DocSum(Replicas), ReplicaFields)
    ELSE DocStats(answer[Server], FALSE, db)

TypeOK ==
    /\ isCluster \in BOOLEAN
    /\ db \in DBs
    /\ phase \in {"idle", "single", "masters", "replicas"}
    /\ pending \subseteq CASE phase = "masters"  -> Masters
                          [] phase = "replicas" -> Replicas
                          [] OTHER              -> {}
    /\ errCh \in {NoErr, "err"}
    /\ stats \in [StatsFields -> Nat]
    /\ answer \in [Nodes -> Infos \cup {Failed, NotAsked}]
    /\ result \in [StatsFields -> Nat] \X {NoErr, "err"}
    /\ returned \in BOOLEAN

\* The nodes a successful Stats must have heard from.
Asked == IF isCluster THEN Masters \cup Replicas ELSE {Server}

\* Stats is all or nothing: once it returns, either every node of the
\* configuration (the server, or every master and replica) answered INFO
\* and no error is returned, or an error is returned with an empty Stats,
\* whatever order the cluster callbacks and their atomic adds ran in.
StatsAllOrNothing ==
    (phase = "idle" /\ returned) =>
        IF result[2] = NoErr THEN \A n \in Asked : answer[n] \in Infos
        ELSE result[1] = ZeroStats

\* A Stats that returns no error reports every counter as the Stats doc
\* defines it from the INFO replies (each field from its own INFO field,
\* Keys from the configured database and 0 on a cluster, sums over the
\* cluster's nodes), MaxMemory apart.
CountersAsDocumented ==
    (phase = "idle" /\ returned /\ result[2] = NoErr) =>
        \A f \in StatsFields \ {"MaxMemory"} : result[1][f] = Expected[f]

\* A Stats that returns no error reports every field as the Stats doc
\* defines it, MaxMemory included: maxmemory when Redis has one, else
\* total_system_memory.
StatsAsDocumented ==
    (phase = "idle" /\ returned /\ result[2] = NoErr) => result[1] = Expected

\* Stats.String prints the mem= and maxMem= of what the last Stats call
\* returned with bytesHumanFriendly, and those texts, like the texts for
\* the boundary sizes CheckedBytes, are as documented (FormatsAsDocumented)
\* and as Stats.String's test expects.
HumanFriendlyAsDocumented ==
    /\ \A b \in CheckedBytes \cup {result[1]["Memory"], result[1]["MaxMemory"]} :
          FormatsAsDocumented(b)
    /\ TestExamples

================================================================================
