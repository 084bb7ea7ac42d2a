SPECIFICATION Spec
CONSTANTS
    r1 = r1
    r2 = r2
    Reader = {r1, r2}
    Seg = {1, 2, 3, 4}
    SizeOf <- MCSizeOf
    MaxByte = 2
    MaxFaults = 1
    BlockTarget = 2
    Sorted <- MCSorted
    Spelling <- MCSpelling
    Numeral <- MCNumeral
    Infix <- MCInfix
    Regex <- MCRegex
    Underscored <- MCUnderscored
    Stores <- MCStores
    Jobs <- MCJobs
    Samples <- MCSamples
INVARIANTS
    CacheAccounted
    CacheSettled
    ReadsFailOnlyWhenShaken
    CacheInv
    GrammarExact
    ComparisonsAgree
    ResultExactUnlessDropped
    FailsOnlyWhenShaken
PROPERTY
    UsesCache
CHECK_DEADLOCK FALSE
