\* Two application goroutines racing Watch and Close.  The run may stop once
\* the watcher is dropped and stopped.
CONSTANTS
    a1 = a1
    a2 = a2
    cb = cb
    CB = cb
    gc = gc
    GC = gc
    Apps <- TwoApps
    CallbackCloses = FALSE
SPECIFICATION Spec
INVARIANT NoPanic
CHECK_DEADLOCK FALSE
