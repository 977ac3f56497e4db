---------------------------- MODULE InfoStats ----------------------------------
(***************************************************************************)
(* The INFO parsing of the Redis caches, as operators: the prefixes        *)
(* (src/redis_config.go 67-90), setStatsKeyPrefixes (part_000 47-57) and    *)
(* parseInfoStats (redis_config.go 92-143).  A reply is abstracted to the  *)
(* number that follows each prefix, or Absent where bytes.Index finds no   *)
(* occurrence; none of the prefixes occurs inside another INFO field, so   *)
(* the first occurrence is the field itself.  DocStats is what the Stats   *)
(* doc comment (part_002 22-56) says each field holds, the reference the   *)
(* parsed values are checked against.                                      *)
(***************************************************************************)
EXTENDS Naturals, Sequences, SequencesExt, TLC

CONSTANTS
    DBs,        \* Redis logical databases a configuration may select
    Memories,   \* byte counts INFO may report
    Counts,     \* counter values INFO may report
    Absent      \* model value: bytes.Index finds no occurrence of the prefix

redisInfoPrefixMem            == "used_memory:"
redisInfoPrefixMaxMem         == "maxmemory:"
redisInfoPrefixTotalSystemMem == "total_system_memory:"
redisInfoPrefixHits           == "keyspace_hits:"
redisInfoPrefixMisses         == "keyspace_misses:"
redisInfoPrefixEvictedKeys    == "evicted_keys:"
redisInfoPrefixExpiredKeys    == "expired_keys:"

clusterReplicaKeyPrefixes == <<redisInfoPrefixHits, redisInfoPrefixMisses>>

clusterMasterKeyPrefixes ==
    << redisInfoPrefixMem, redisInfoPrefixMaxMem,
       redisInfoPrefixTotalSystemMem, redisInfoPrefixEvictedKeys,
       redisInfoPrefixExpiredKeys, redisInfoPrefixHits,
       redisInfoPrefixMisses >>

\* "db" + strconv.FormatInt(db, 10) + ":keys="
KeysCountPrefix(db) == "db" \o ToString(db) \o ":keys="

\* setStatsKeyPrefixes: a cluster has no keys count prefix.
setStatsKeyPrefixes(isCluster, db) ==
    IF isCluster THEN clusterMasterKeyPrefixes
    ELSE Append(clusterMasterKeyPrefixes, KeysCountPrefix(db))

MemPrefixes   == {redisInfoPrefixMem, redisInfoPrefixMaxMem,
                  redisInfoPrefixTotalSystemMem}
CountPrefixes == {redisInfoPrefixHits, redisInfoPrefixMisses,
                  redisInfoPrefixEvictedKeys, redisInfoPrefixExpiredKeys}
KeysPrefixes  == {KeysCountPrefix(d) : d \in DBs}
InfoPrefixes  == MemPrefixes \cup CountPrefixes \cup KeysPrefixes

\* The replies Redis gives to INFO: memory and counter fields are always
\* there; a "dbN:keys=" line only for a non-empty database.
Infos ==
    { m @@ c @@ k : m \in [MemPrefixes -> Memories],
                    c \in [CountPrefixes -> Counts],
                    k \in [KeysPrefixes -> (Counts \ {0}) \cup {Absent}] }

StatsFields == {"Memory", "MaxMemory", "Hits", "Misses", "Keys",
                "Expired", "Evicted"}

ZeroStats == [f \in StatsFields |-> 0]

\* A switch that lost its expired_keys case: the count lands in default.
AssignNoExpiredCase(stats, keyPrefix, v) ==
    CASE keyPrefix = redisInfoPrefixMem -> [stats EXCEPT !.Memory = v]
      [] keyPrefix = redisInfoPrefixMaxMem ->
            IF stats.MaxMemory > 0 THEN [stats EXCEPT !.MaxMemory = v]
                                   ELSE stats
      [] keyPrefix = redisInfoPrefixTotalSystemMem ->
            IF stats.MaxMemory = 0 THEN [stats EXCEPT !.MaxMemory = v]
                                   ELSE stats
      [] keyPrefix = redisInfoPrefixEvictedKeys -> [stats EXCEPT !.Evicted = v]
      [] keyPrefix = redisInfoPrefixHits -> [stats EXCEPT !.Hits = v]
      [] keyPrefix = redisInfoPrefixMisses -> [stats EXCEPT !.Misses = v]
      [] OTHER -> [stats EXCEPT !.Keys = v]

\* The switch on keyPrefix, given the value parsed after it.
Assign(stats, keyPrefix, v) ==
    CASE keyPrefix = redisInfoPrefixMem -> [stats EXCEPT !.Memory = v]
      [] keyPrefix = redisInfoPrefixMaxMem ->
            IF stats.MaxMemory > 0 THEN [stats EXCEPT !.MaxMemory = v]
                                   ELSE stats
      [] keyPrefix = redisInfoPrefixTotalSystemMem ->
            IF stats.MaxMemory = 0 THEN [stats EXCEPT !.MaxMemory = v]
                                   ELSE stats
      [] keyPrefix = redisInfoPrefixEvictedKeys -> [stats EXCEPT !.Evicted = v]
      [] keyPrefix = redisInfoPrefixExpiredKeys -> [stats EXCEPT !.Expired = v]
      [] keyPrefix = redisInfoPrefixHits -> [stats EXCEPT !.Hits = v]
      [] keyPrefix = redisInfoPrefixMisses -> [stats EXCEPT !.Misses = v]
      [] OTHER -> [stats EXCEPT !.Keys = v]

\* One iteration of the loop: a prefix bytes.Index does not find is skipped.
ParsePrefix(info, stats, keyPrefix) ==
    IF info[keyPrefix] = Absent THEN stats
    ELSE Assign(stats, keyPrefix, info[keyPrefix])

parseInfoStats(info, keyPrefixes) ==
    FoldLeft(LAMBDA st, p : ParsePrefix(info, st, p), ZeroStats, keyPrefixes)

\* The number INFO reports for a field; a "dbN:keys=" line is missing when
\* the database is empty.
Reported(i, p) == IF i[p] = Absent THEN 0 ELSE i[p]

\* What the Stats doc says one server's INFO means: MaxMemory is "the max
\* memory Redis was configured with, or system total memory, if max memory
\* is 0"; Keys is the number of keys in the configured database, and 0 on
\* a cluster.
DocStats(i, isCluster, db) ==
    LET maxMem == Reported(i, redisInfoPrefixMaxMem)
    IN  [Memory    |-> Reported(i, redisInfoPrefixMem),
         MaxMemory |-> IF maxMem > 0 THEN maxMem
                       ELSE Reported(i, redisInfoPrefixTotalSystemMem),
         Hits      |-> Reported(i, redisInfoPrefixHits),
         Misses    |-> Reported(i, redisInfoPrefixMisses),
         Keys      |-> IF isCluster THEN 0
                       ELSE Reported(i, KeysCountPrefix(db)),
         Expired   |-> Reported(i, redisInfoPrefixExpiredKeys),
         Evicted   |-> Reported(i, redisInfoPrefixEvictedKeys)]

================================================================================
