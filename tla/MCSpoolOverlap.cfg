SPECIFICATION Spec
CONSTANTS
    Source = {s1}
    SegId = {g1, g2}
    NoSeg = NoSeg
    MaxOffset = 2
    Shed <- NoLine
    MaxFaults = 1
INVARIANT AckedDurable
