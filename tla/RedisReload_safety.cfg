CONSTANTS
    c1 = c1
    c2 = c2
    NoCfg = NoCfg
    Torn = Torn
    Callers <- MCCallers
    Configs <- MCConfigs
    InitCfg <- MCInitCfg
    MaxReloads <- MCMaxReloads
SPECIFICATION FairSpec
INVARIANT TypeOK
INVARIANT NoStaleClientUse
PROPERTY HandleSpec
PROPERTY ReconfigCompletes
