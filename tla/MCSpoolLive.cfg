SPECIFICATION LiveSpec
CONSTANTS
    Source = {s1}
    SegId = {g1, g2, g3}
    NoSeg = NoSeg
    MaxOffset = 2
    Shed <- NoLine
    MaxFaults = 1
PROPERTIES
    BufferedCommitted
    ShutdownCompletes
