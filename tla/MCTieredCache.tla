--------------------------- MODULE MCTieredCache ---------------------------
(* TLC instantiation of TieredCache: two caches (a front and a back tier), *)
(* two values, and the three kinds of expiry argument.                     *)
EXTENDS TieredCache, TLC

CONSTANTS c1, c2, v1, v2

MCN == 2
MCValues == {v1, v2}
MCExps == {-1, 0, 1}
OneClient == {c1}
TwoClients == {c1, c2}

Symmetry == Permutations(MCValues) \cup Permutations(TwoClients)
=============================================================================
