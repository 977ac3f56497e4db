\* Redis7.Stats: MaxMemory against its doc on a standalone server.
CONSTANTS
    s0 = s0
    m1 = m1
    m2 = m2
    r1 = r1
    Server <- MCServer
    Masters <- MCMasters
    Replicas <- MCReplicas
    DBs <- MCDBs
    RedisCfgs <- MCRedisCfgs
    Memories <- MCMemories
    Counts <- MCCounts
    ClusterInfos <- MCClusterInfos
    Absent = Absent
    NoErr = NoErr
    Failed = Failed
    NotAsked = NotAsked
SPECIFICATION Spec
SYMMETRY MasterSymmetry
INVARIANT StatsAsDocumented
