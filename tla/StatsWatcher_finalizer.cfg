\* Two application goroutines that may drop the watcher without closing it,
\* a callback that does not refer to sw, and a runtime that runs finalizers.
\* The run stops once the watcher is dropped and stopped.
CONSTANTS
    a1 = a1
    a2 = a2
    cb = cb
    CB = cb
    gc = gc
    GC = gc
    Apps <- TwoApps
    CallbackCloses = FALSE
SPECIFICATION FinalizerSpec
PROPERTY FinalizerStopsWatcher
CHECK_DEADLOCK FALSE
