CONSTANTS
    a1 = a1
    a2 = a2
    cb = cb
    CB = cb
    gc = gc
    GC = gc
    Apps <- OneApp
    CallbackCloses = TRUE
SPECIFICATION FairSpec
PROPERTY CloseTerminates
CHECK_DEADLOCK FALSE
