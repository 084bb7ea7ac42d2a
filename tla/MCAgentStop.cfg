SPECIFICATION LiveSpec
CONSTANTS
    Source = {s1, s2}
    MaxOffset = 2
    Size <- TwoTooMany
    MaxHeld = 2
    HardMax = 4
    MaxRestarts = 1
PROPERTY StopEnds
