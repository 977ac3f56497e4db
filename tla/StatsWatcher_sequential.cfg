\* One application goroutine, and a callback that may call Close.  The run
\* may stop: a Close from the callback waits for its own goroutine.
CONSTANTS
    a1 = a1
    a2 = a2
    cb = cb
    CB = cb
    gc = gc
    GC = gc
    Apps <- OneApp
    CallbackCloses = TRUE
SPECIFICATION FairSpec
INVARIANT TypeOK
INVARIANT NoPanic
INVARIANT CallbackStopsAtClose
PROPERTY AppCloseTerminates
CHECK_DEADLOCK FALSE
