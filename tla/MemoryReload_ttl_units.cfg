CONSTANTS
    c1 = c1
    c2 = c2
    k1 = k1
    k2 = k2
    v1 = v1
    v2 = v2
    None = None
    Callers <- OneCaller
    Keys <- MCKeys
    Values <- MCValues
    Second <- MCSecond
    Expires <- MCExpires
    CfgSizes <- MCCfgSizes
    MinSize <- MCMinSize
    InitSize <- MCInitSize
    MaxReloads <- MCMaxReloads
    MaxLoads <- MCMaxLoads
SYMMETRY Symmetry
SPECIFICATION Spec
INVARIANT TTLIsRemainingTime
