---------------------------- MODULE StatsWatcher ----------------------------
(***************************************************************************)
(* StatsWatcher (src/unnamed/part_002 133-218).  Application goroutines    *)
(* call Watch and Close, each wrapped in its own sync.Once; Watch starts a *)
(* goroutine (watchAsync) that, on every tick, calls cache.Stats and the   *)
(* callback fn, until the closed channel is closed or the context is       *)
(* cancelled.  Close closes the channel and waits on the WaitGroup.        *)
(*                                                                         *)
(* Callers are the goroutines that call Watch or Close: the application    *)
(* goroutines, and CB, which stands for fn calling sw.Close() from inside  *)
(* the watch goroutine (allowed when CallbackCloses).  The fields ticker,  *)
(* closed and the WaitGroup are shared without synchronisation between     *)
(* Watch and Close; each access is one step, so the model explores every   *)
(* sequentially consistent order of them.                                  *)
(***************************************************************************)
EXTENDS Naturals

CONSTANTS
    Apps,            \* application goroutines
    CB,              \* fn calling Close from the watch goroutine
    CallbackCloses,  \* whether fn may call Close
    GC               \* the runtime's finalizer goroutine

ASSUME CB \notin Apps /\ GC \notin Apps \cup {CB} /\ CallbackCloses \in BOOLEAN

\* A panic ends the program: every action below requires ~panicked.

Callers == Apps \cup {GC} \cup (IF CallbackCloses THEN {CB} ELSE {})

OnceStates == {"new", "running", "done"}

VARIABLES
    ticker,     \* w.ticker: "nil", "running" or "stopped"
    closed,     \* w.closed: "nil", "open" or "closed"
    wg,         \* w.wg counter
    watchOnce,  \* sw.watchOnce
    closeOnce,  \* sw.closeOnce
    pc,         \* pc[p]: step of caller p in Watch or Close
    gpc,        \* step of the watch goroutine
    ctxDone,    \* the context given to Watch is cancelled
    panicked,   \* a goroutine panicked (close of a nil channel)
    finalizer,  \* runtime.SetFinalizer(sw, (*StatsWatcher).Close) is set
    dropped,    \* the application holds no reference to sw any more
    \* ghosts
    stopped,    \* a Close call that ran close() has returned
    lateCb      \* fn started after a Close that ran close() returned

vars == <<ticker, closed, wg, watchOnce, closeOnce, pc, gpc, ctxDone,
          panicked, finalizer, dropped, stopped, lateCb>>

Labels == {"idle", "w_once", "w_ticker", "w_chan", "w_add", "w_go",
           "c_check", "c_once", "c_close", "c_wait"}

TypeOK ==
    /\ ticker \in {"nil", "running", "stopped"}
    /\ closed \in {"nil", "open", "closed"}
    /\ wg \in Nat
    /\ watchOnce \in OnceStates /\ closeOnce \in OnceStates
    /\ pc \in [Callers -> Labels]
    /\ gpc \in {"none", "select", "callback", "cbclose", "exited"}
    /\ ctxDone \in BOOLEAN /\ panicked \in BOOLEAN
    /\ finalizer \in BOOLEAN /\ dropped \in BOOLEAN
    /\ stopped \in BOOLEAN /\ lateCb \in BOOLEAN

\* NewStatsWatcher: only interval and cache are set.
Init ==
    /\ ticker = "nil" /\ closed = "nil" /\ wg = 0
    /\ watchOnce = "new" /\ closeOnce = "new"
    /\ pc = [p \in Callers |-> "idle"]
    /\ gpc = "none"
    /\ ctxDone = FALSE /\ panicked = FALSE
    /\ finalizer = FALSE /\ dropped = FALSE
    /\ stopped = FALSE /\ lateCb = FALSE

Ghosts == <<stopped, lateCb>>

Runtime == <<finalizer, dropped>>

Goto(p, l) == pc' = [pc EXCEPT ![p] = l]

-----------------------------------------------------------------------------
(* Watch: sw.watchOnce.Do(func() { sw.watcher.watch(ctx, fn); ... })       *)

WatchCall(p) ==
    /\ p \in Apps /\ pc[p] = "idle" /\ ~panicked /\ ~dropped
    /\ Goto(p, "w_once")
    /\ UNCHANGED <<ticker, closed, wg, watchOnce, closeOnce, gpc, ctxDone,
                   panicked, Ghosts>>
    /\ UNCHANGED Runtime

\* Once.Do returns at once when done, blocks while another call runs f.
WatchOnce(p) ==
    /\ pc[p] = "w_once" /\ ~panicked
    /\ watchOnce /= "running"
    /\ IF watchOnce = "done" THEN Goto(p, "idle") ELSE Goto(p, "w_ticker")
    /\ watchOnce' = IF watchOnce = "new" THEN "running" ELSE watchOnce
    /\ UNCHANGED <<ticker, closed, wg, closeOnce, gpc, ctxDone, panicked, Ghosts>>
    /\ UNCHANGED Runtime

\* w.ticker = time.NewTicker(w.interval)
WatchTicker(p) ==
    /\ pc[p] = "w_ticker" /\ ~panicked
    /\ ticker' = "running"
    /\ Goto(p, "w_chan")
    /\ UNCHANGED <<closed, wg, watchOnce, closeOnce, gpc, ctxDone, panicked, Ghosts>>
    /\ UNCHANGED Runtime

\* w.closed = make(chan struct{}, 1)
WatchChan(p) ==
    /\ pc[p] = "w_chan" /\ ~panicked
    /\ closed' = "open"
    /\ Goto(p, "w_add")
    /\ UNCHANGED <<ticker, wg, watchOnce, closeOnce, gpc, ctxDone, panicked, Ghosts>>
    /\ UNCHANGED Runtime

\* Mutant: w.wg.Add(1) forgotten.
WatchAddMissing(p) ==
    /\ pc[p] = "w_add" /\ ~panicked
    /\ Goto(p, "w_go")
    /\ UNCHANGED <<ticker, closed, wg, watchOnce, closeOnce, gpc, ctxDone,
                   panicked, Ghosts>>
    /\ UNCHANGED Runtime

\* w.wg.Add(1)
WatchAdd(p) ==
    /\ pc[p] = "w_add" /\ ~panicked
    /\ wg' = wg + 1
    /\ Goto(p, "w_go")
    /\ UNCHANGED <<ticker, closed, watchOnce, closeOnce, gpc, ctxDone, panicked, Ghosts>>
    /\ UNCHANGED Runtime

\* Mutant: Watch does not register the finalizer.
WatchGoNoFinalizer(p) ==
    /\ pc[p] = "w_go" /\ ~panicked
    /\ gpc' = "select"
    /\ watchOnce' = "done"
    /\ Goto(p, "idle")
    /\ UNCHANGED <<ticker, closed, wg, closeOnce, ctxDone, panicked, Ghosts,
                   Runtime>>

\* go w.watchAsync(ctx, fn); runtime.SetFinalizer(sw, (*StatsWatcher).Close);
\* Do returns.
WatchGo(p) ==
    /\ pc[p] = "w_go" /\ ~panicked
    /\ gpc' = "select"
    /\ watchOnce' = "done"
    /\ finalizer' = TRUE
    /\ Goto(p, "idle")
    /\ UNCHANGED <<ticker, closed, wg, closeOnce, ctxDone, panicked, Ghosts,
                   dropped>>

-----------------------------------------------------------------------------
(* Close: if sw != nil && sw.ticker != nil { sw.closeOnce.Do(func() {      *)
(* close(w.closed); w.wg.Wait(); ... }) }; return nil                      *)

CloseCall(p) ==
    /\ p \in Apps /\ pc[p] = "idle" /\ ~panicked /\ ~dropped
    /\ Goto(p, "c_check")
    /\ UNCHANGED <<ticker, closed, wg, watchOnce, closeOnce, gpc, ctxDone,
                   panicked, Ghosts>>
    /\ UNCHANGED Runtime

\* Close returns; ran tells whether this call executed the once body.
CloseReturn(p, ran) ==
    /\ Goto(p, "idle")
    /\ stopped' = (stopped \/ ran)

\* The unsynchronised read of sw.ticker.
CloseCheck(p) ==
    /\ pc[p] = "c_check" /\ ~panicked
    /\ IF ticker = "nil"
       THEN CloseReturn(p, FALSE)
       ELSE Goto(p, "c_once") /\ UNCHANGED stopped
    /\ UNCHANGED <<ticker, closed, wg, watchOnce, closeOnce, gpc, ctxDone,
                   panicked, lateCb>>
    /\ UNCHANGED Runtime

\* Mutant: Close without sw.closeOnce.
CloseOnceMissing(p) ==
    /\ pc[p] = "c_once" /\ ~panicked
    /\ Goto(p, "c_close")
    /\ UNCHANGED <<ticker, closed, wg, watchOnce, closeOnce, gpc, ctxDone,
                   panicked, Ghosts>>
    /\ UNCHANGED Runtime

CloseOnce(p) ==
    /\ pc[p] = "c_once" /\ ~panicked
    /\ closeOnce /= "running"
    /\ IF closeOnce = "done"
       THEN CloseReturn(p, FALSE)
       ELSE Goto(p, "c_close") /\ UNCHANGED stopped
    /\ closeOnce' = IF closeOnce = "new" THEN "running" ELSE closeOnce
    /\ UNCHANGED <<ticker, closed, wg, watchOnce, gpc, ctxDone, panicked,
                   lateCb>>
    /\ UNCHANGED Runtime

\* close(w.closed): closing a nil or a closed channel panics.
CloseChan(p) ==
    /\ pc[p] = "c_close" /\ ~panicked
    /\ IF closed \in {"nil", "closed"}
       THEN panicked' = TRUE /\ UNCHANGED closed
       ELSE closed' = "closed" /\ UNCHANGED panicked
    /\ Goto(p, "c_wait")
    /\ UNCHANGED <<ticker, wg, watchOnce, closeOnce, gpc, ctxDone, Ghosts>>
    /\ UNCHANGED Runtime

\* Mutant: Close returns without w.wg.Wait().
CloseWaitNoWait(p) ==
    /\ pc[p] = "c_wait"
    /\ finalizer' = FALSE /\ UNCHANGED dropped
    /\ ~panicked
    /\ closeOnce' = "done"
    /\ CloseReturn(p, TRUE)
    /\ UNCHANGED <<ticker, closed, wg, watchOnce, gpc, ctxDone, panicked,
                   lateCb>>

\* w.wg.Wait(); runtime.SetFinalizer(sw, nil); Do returns.
CloseWait(p) ==
    /\ pc[p] = "c_wait"
    /\ finalizer' = FALSE /\ UNCHANGED dropped
    /\ wg = 0 /\ ~panicked
    /\ closeOnce' = "done"
    /\ CloseReturn(p, TRUE)
    /\ UNCHANGED <<ticker, closed, wg, watchOnce, gpc, ctxDone, panicked,
                   lateCb>>

-----------------------------------------------------------------------------
(* watchAsync: for { select { case <-w.closed: return; case <-ctx.Done():  *)
(* return; case <-w.ticker.C: fn(ctx, w.cache.Stats(ctx)) } }, with        *)
(* defers wg.Done() and ticker.Stop() on return.                           *)

\* Mutant: the select of watchAsync lacks the case <-w.closed.
GoExitCtxOnly ==
    /\ gpc = "select" /\ ~panicked
    /\ ctxDone
    /\ gpc' = "exited"
    /\ wg' = wg - 1
    /\ ticker' = "stopped"
    /\ UNCHANGED <<closed, watchOnce, closeOnce, pc, ctxDone, panicked, Ghosts>>
    /\ UNCHANGED Runtime

\* A case of the select that returns.
GoExit ==
    /\ gpc = "select" /\ ~panicked
    /\ closed = "closed" \/ ctxDone
    /\ gpc' = "exited"
    /\ wg' = wg - 1
    /\ ticker' = "stopped"
    /\ UNCHANGED <<closed, watchOnce, closeOnce, pc, ctxDone, panicked, Ghosts>>
    /\ UNCHANGED Runtime

\* The ticker case: Stats is called and fn starts.
GoTick ==
    /\ gpc = "select" /\ ~panicked
    /\ gpc' = "callback"
    /\ lateCb' = (lateCb \/ stopped)
    /\ UNCHANGED <<ticker, closed, wg, watchOnce, closeOnce, pc, ctxDone,
                   panicked, stopped>>
    /\ UNCHANGED Runtime

\* fn returns, or (when CallbackCloses) calls sw.Close(), which runs as
\* caller CB while the goroutine waits in "cbclose" for it to return.
GoCallback ==
    /\ gpc = "callback" /\ ~panicked
    /\ \/ gpc' = "select" /\ UNCHANGED pc
       \/ /\ CallbackCloses /\ pc[CB] = "idle"
          /\ gpc' = "cbclose"
          /\ Goto(CB, "c_check")
    /\ UNCHANGED <<ticker, closed, wg, watchOnce, closeOnce, ctxDone,
                   panicked, Ghosts>>
    /\ UNCHANGED Runtime

\* The application cancels the context passed to Watch.
Cancel ==
    /\ ~ctxDone /\ ~panicked
    /\ ctxDone' = TRUE
    /\ UNCHANGED <<ticker, closed, wg, watchOnce, closeOnce, pc, gpc,
                   panicked, Ghosts>>
    /\ UNCHANGED Runtime

-----------------------------------------------------------------------------
(* The finalizer.  StatsWatcher embeds *watcher "so we can use finalizer": *)
(* the watch goroutine holds only the watcher, so sw becomes unreachable   *)
(* when the application drops it, unless fn refers to sw (as a fn that    *)
(* calls sw.Close() must) while the goroutine runs, or a Watch or Close    *)
(* call is in progress.  The runtime then clears the finalizer and runs    *)
(* sw.Close() on its single finalizer goroutine GC.                        *)

Reachable ==
    \/ \E p \in Callers : pc[p] /= "idle"
    \/ CallbackCloses /\ gpc \in {"select", "callback", "cbclose"}

\* The application stops using sw; it calls neither Watch nor Close again.
Drop ==
    /\ ~dropped /\ ~panicked
    /\ \A p \in Apps : pc[p] = "idle"
    /\ dropped' = TRUE
    /\ UNCHANGED <<ticker, closed, wg, watchOnce, closeOnce, pc, gpc, ctxDone,
                   panicked, Ghosts, finalizer>>

FinalizerRun ==
    /\ dropped /\ finalizer /\ ~panicked
    /\ ~Reachable
    /\ finalizer' = FALSE
    /\ Goto(GC, "c_check")
    /\ UNCHANGED <<ticker, closed, wg, watchOnce, closeOnce, gpc, ctxDone,
                   panicked, Ghosts, dropped>>

CallerStep(p) ==
    \/ WatchOnce(p) \/ WatchTicker(p) \/ WatchChan(p) \/ WatchAdd(p)
    \/ WatchGo(p)
    \/ CloseCheck(p) \/ CloseOnce(p) \/ CloseChan(p) \/ CloseWait(p)

GoStep == GoTick \/ GoCallback

Next ==
    \/ \E p \in Callers : WatchCall(p) \/ CloseCall(p) \/ CallerStep(p)
    \/ GoExit \/ GoStep \/ Cancel
    \/ Drop \/ FinalizerRun

\* Every runnable goroutine runs.  The select picks uniformly at random
\* among its ready cases, so a case that is ready whenever the goroutine
\* is at the select is eventually picked: strong fairness for GoExit.
Fairness ==
    /\ \A p \in Callers : WF_vars(CallerStep(p))
    /\ WF_vars(gpc = "callback" /\ gpc' = "select"
                 /\ UNCHANGED <<ticker, closed, wg, watchOnce, closeOnce, pc,
                                ctxDone, panicked, Ghosts, Runtime>>)
    /\ SF_vars(GoExit)

Spec == Init /\ [][Next]_vars
FairSpec == Spec /\ Fairness

\* Go does not promise that a finalizer ever runs; FinalizerSpec assumes
\* that the runtime runs the finalizer of an object that stays unreachable.
FinalizerSpec == FairSpec /\ WF_vars(FinalizerRun)

-----------------------------------------------------------------------------
(* Properties.                                                             *)

\* No goroutine closes a nil channel (Close's close(w.closed) runs only
\* after Watch has created the channel) or closes the channel twice.
NoPanic == ~panicked

\* Once a Close call that stopped the watcher has returned, fn is never
\* called again: close(w.closed) and w.wg.Wait() make Close wait for the
\* watch goroutine, including a callback in progress, to return.
CallbackStopsAtClose == ~lateCb

\* Close never blocks indefinitely: every Close call returns.
CloseLabels == {"c_check", "c_once", "c_close", "c_wait"}

CloseTerminates == \A p \in Callers : pc[p] \in CloseLabels ~> pc[p] = "idle"

\* Every Close the application calls returns, in every run in which the
\* callback never calls Close: Close's wg.Wait() ends because the watch
\* goroutine, at its select, eventually takes the closed case.
AppCloseTerminates ==
    [](gpc # "cbclose") =>
        \A p \in Apps : pc[p] \in CloseLabels ~> pc[p] = "idle"

\* The fallback cleanup (spec 4.4): a watcher the application drops without
\* closing it is stopped once its finalizer runs: the watch goroutine
\* exits (Watch registered the finalizer, and sw.Close() closes w.closed)
\* and the Close on the finalizer goroutine returns, which it must, since
\* that goroutine runs every finalizer of the process.
FinalizerStopsWatcher ==
    dropped ~> (gpc \in {"none", "exited"} /\ pc[GC] = "idle")

=============================================================================
