SPECIFICATION LiveSpec
CONSTANTS
    Source = {s1}
    MaxOffset = 4
    Stamp <- UnevenClock
    MaxStamp = 2
    Clock = {1}
    Matching <- All
    Start = 1
    Stream = {t1, t2}
    BufSize = 1
    MaxFaults = 1
CHECK_DEADLOCK FALSE
INVARIANTS
    InOrderOnce
    GaplessButForRaces
    IndInv
PROPERTY LiveReaches
