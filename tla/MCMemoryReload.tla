-------------------------- MODULE MCMemoryReload --------------------------
(* Model-checking instance of MemoryReload: two keys and two values, a     *)
(* second of 2 duration units, expiries 0 (none), half a second and two    *)
(* seconds, sizes of one and two entries, two resizes.                     *)
EXTENDS MemoryReload, TLC

CONSTANTS c1, c2, k1, k2, v1, v2

OneCaller == {c1}
TwoCallers == {c1, c2}
MCKeys == {k1, k2}
MCValues == {v1, v2}
MCSecond == 2
MCExpires == {0, 1, 4}
\* The resize run: one value, and the expiries half a second and two
\* seconds, small enough to check liveness and refinement without symmetry.
OneValue == {v1}
ResizeExpires == {1, 4}
MCCfgSizes == {0, 2}
MCMinSize == 1
MCInitSize == 0
MCMaxReloads == 2
MCMaxLoads == 1

Symmetry == Permutations(MCKeys) \cup Permutations(MCValues)
=============================================================================
