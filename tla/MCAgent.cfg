SPECIFICATION Spec
CONSTANTS
    Source = {s1, s2}
    MaxOffset = 2
    Size <- OneBetweenCaps
    MaxHeld = 2
    HardMax = 4
    MaxRestarts = 1
SYMMETRY Symmetry
INVARIANTS
    HeldBytesExact
    NothingSkipped
    CheckpointSafe
    BlockedCanWake
    IndInv
