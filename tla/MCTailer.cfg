SPECIFICATION LiveSpec
CONSTANTS
    MaxGen = 3
    Worlds <- MCWorlds
    Inode = {i1, i2}
    MaxFaults = 1
INVARIANTS
    WholeEntries
    NothingSkipped
    GatedByMetadata
    DrainedUnlessEarly
    IndInv
PROPERTY LinesSent
CHECK_DEADLOCK FALSE
