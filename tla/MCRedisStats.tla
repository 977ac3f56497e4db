---------------------------- MODULE MCRedisStats ----------------------------
(* Model-checking instance of RedisStats: databases 0 and 1; a standalone  *)
(* server answering any INFO reply over memories {0, 1048575} and counters *)
(* {0, 1}; a cluster of two masters and one replica whose replies vary in  *)
(* the memory fields and the hits.                                          *)
EXTENDS RedisStats, TLC

CONSTANTS s0, m1, m2, r1

MCServer == s0
MCMasters == {m1, m2}
MCReplicas == {r1}
MCDBs == {0, 1}
\* Standalone, sentinel and cluster configurations over both databases.
MCRedisCfgs == RedisConfigs({1, 3}, MCDBs, {"", "mymaster"})
MCMemories == {0, 1048575}
MCCounts == {0, 1}
MCClusterInfos ==
    {i \in Infos : /\ \A p \in CountPrefixes \ {redisInfoPrefixHits} : i[p] = 1
                   /\ \A p \in KeysPrefixes : i[p] = Absent}
MasterSymmetry == Permutations(MCMasters)
=============================================================================
