SPECIFICATION Spec
CONSTANTS
    MaxGen = 3
    MaxFaults = 1
    Inode = {i1, i2}
    Worlds <- MCWorlds
INVARIANT DrainedBeforeExit
CHECK_DEADLOCK FALSE
