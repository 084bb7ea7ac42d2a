SPECIFICATION LiveSpec
CONSTANTS
    Source = {s1}
    MaxOffset = 3
    Size <- SmallLargeHuge
    MaxHeld = 2
    HardMax = 4
    Conn = {c1, c2}
    NoConn = NoConn
    MaxFaults = 1
INVARIANT NothingLost
PROPERTIES
    AllDelivered
    WindowDrains
