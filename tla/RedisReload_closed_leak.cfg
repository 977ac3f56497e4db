CONSTANTS
    c1 = c1
    c2 = c2
    NoCfg = NoCfg
    Torn = Torn
    Callers <- MCCallers
    Configs <- MCConfigs
    InitCfg <- MCInitCfg
    MaxReloads <- MCMaxReloads
SPECIFICATION Spec
INVARIANT ClosedStaysClosed
