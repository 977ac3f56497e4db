\* One caller over two unreliable caches with expiry: every Multi method on its own.
CONSTANTS
    c1 = c1
    c2 = c2
    v1 = v1
    v2 = v2
    NoValue = NoValue
    N <- MCN
    Clients <- OneClient
    Values <- MCValues
    Exps <- MCExps
SYMMETRY Symmetry
SPECIFICATION Spec
INVARIANT TypeOK
INVARIANT ReadAfterSave
INVARIANT RepairTTLBound
INVARIANT ErrorAggregation
