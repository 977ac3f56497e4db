--------------------------- MODULE MCRedisReload ---------------------------
(* Model-checking instance of RedisReload: two calling goroutines, one     *)
(* sentinel and one cluster configuration, two reloads.                  *)
EXTENDS RedisReload, TLC

CONSTANTS c1, c2

MCCallers == {c1, c2}
\* A sentinel configuration (three addresses and a master name, so not a
\* cluster) and a cluster one; the database is ignored by a cluster.
sentinel == [addrs |-> 3, db |-> 1, masterName |-> "mymaster"]
cluster  == [addrs |-> 3, db |-> 0, masterName |-> ""]
MCConfigs == {sentinel, cluster}
MCInitCfg == sentinel
MCMaxReloads == 2
CallerSymmetry == Permutations(MCCallers)

\* The configuration each call runs against is the live one, and the live
\* configuration changes only by a whole swap: RedisReload implements
\* ReloadableHandle with live being the configuration of cache.client.
Handle == INSTANCE ReloadableHandle WITH
            Callers <- Callers, Configs <- Configs, NoCfg <- NoCfg,
            live <- cfgOf[client], served <- served

HandleSpec == Handle!Spec
=============================================================================
