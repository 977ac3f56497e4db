\* Redis7.Stats on a standalone server and on a two-master, one-replica
\* cluster, every INFO call failing or answering any reply.
CONSTANTS
    s0 = s0
    m1 = m1
    m2 = m2
    r1 = r1
    Server <- MCServer
    Masters <- MCMasters
    Replicas <- MCReplicas
    DBs <- MCDBs
    RedisCfgs <- MCRedisCfgs
    Memories <- MCMemories
    Counts <- MCCounts
    ClusterInfos <- MCClusterInfos
    Absent = Absent
    NoErr = NoErr
    Failed = Failed
    NotAsked = NotAsked
SPECIFICATION Spec
SYMMETRY MasterSymmetry
INVARIANT TypeOK
INVARIANT StatsAllOrNothing
INVARIANT CountersAsDocumented
INVARIANT HumanFriendlyAsDocumented
