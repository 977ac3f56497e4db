\* Two callers: RepairTTLBound when a Save lands between a Load's read and its TTL query.
CONSTANTS
    c1 = c1
    c2 = c2
    v1 = v1
    v2 = v2
    NoValue = NoValue
    N <- MCN
    Clients <- TwoClients
    Values <- MCValues
    Exps <- MCExps
SYMMETRY Symmetry
SPECIFICATION Spec
INVARIANT RepairTTLBound
