SPECIFICATION Spec
CONSTANTS
    Source = {s1, s2}
    SegId = {g1, g2, g3}
    NoSeg = NoSeg
    MaxOffset = 2
    Shed <- NoLine
    MaxFaults = 1
SYMMETRY Symmetry
INVARIANTS
    SerialAckedDurable
    SerialReceivedKept
    RecoveredCoversAcked
    StoredOnceUnlessRequeued
    CatalogDerivable
    IndInv
