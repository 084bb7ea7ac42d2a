SPECIFICATION SerialSpec
CONSTANTS
    Source = {s1}
    SegId = {g1, g2, g3, g4}
    NoSeg = NoSeg
    MaxOffset = 3
    Shed <- SecondOfAll
    MaxFaults = 2
SYMMETRY Symmetry
PROPERTY ImplementsReceiver
