-------------------------- MODULE MCStatsWatcher --------------------------
(* Model-checking instance of StatsWatcher.                                *)
EXTENDS StatsWatcher, TLC

CONSTANTS a1, a2, cb, gc

OneApp == {a1}
TwoApps == {a1, a2}
=============================================================================
