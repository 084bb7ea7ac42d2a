SPECIFICATION Spec
CONSTANTS
    Source = {s1}
    MaxOffset = 2
    Size <- AllSmall
    MaxHeld = 2
    HardMax = 4
    Conn = {c1, c2}
    NoConn = NoConn
    MaxFaults = 3
SYMMETRY Symmetry
INVARIANTS
    CheckpointDurable
    NotStoredAgain
    IndInv
PROPERTY AcceptsInTurn
