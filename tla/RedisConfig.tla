---------------------------- MODULE RedisConfig ----------------------------
(***************************************************************************)
(* RedisConfig (src/redis_config.go 19-65): the part of a Redis connection *)
(* configuration the cache's behaviour depends on.  Addrs is abstracted to *)
(* its length, MasterName to whether it is empty; credentials and timeouts *)
(* only shape the go-redis options and are left out.                       *)
(***************************************************************************)
EXTENDS Naturals

\* The configurations over the given address counts, databases and sentinel
\* master names ("" for none).
RedisConfigs(AddrCounts, DBs, MasterNames) ==
    [addrs : AddrCounts, db : DBs, masterName : MasterNames]

\* RedisConfig.IsCluster: several addresses and no sentinel master name.
IsCluster(rc) == rc.addrs > 1 /\ rc.masterName = ""
=============================================================================
