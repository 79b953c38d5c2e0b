CONSTANTS
    Keys = {k1}
    Chans = {c1, c2}
    Publishers = {g1}
    MaxParcels = 2
    None = None
SPECIFICATION Spec
INVARIANTS
    NeverDropped
CHECK_DEADLOCK FALSE
