CONSTANTS
    c1 = c1
    c2 = c2
    k1 = k1
    k2 = k2
    v1 = v1
    v2 = v2
    None = None
    Callers <- TwoCallers
    Keys <- MCKeys
    Values <- OneValue
    Second <- MCSecond
    Expires <- ResizeExpires
    CfgSizes <- MCCfgSizes
    MinSize <- MCMinSize
    InitSize <- MCInitSize
    MaxReloads <- MCMaxReloads
    MaxLoads <- MCMaxLoads
SPECIFICATION FairSpec
INVARIANT TypeOK
INVARIANT NoLostSave
INVARIANT ExpiryKept
PROPERTY ResizeCompletes
PROPERTY MemoryCacheSpec
