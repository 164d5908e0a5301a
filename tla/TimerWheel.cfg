SPECIFICATION FairSpec
CONSTANTS
    Timers <- MCTimers
    NoTimer = "none"
    TvrSize = 2
    TvnSize = 2
    Word = 64
    Clamp = 7
    StartTicks <- MCStartTicks
    Delays <- MCDelays
    Gaps <- MCGaps
    MaxTicks = 16
INVARIANTS TypeOK OnePlace
PROPERTIES ServiceSpec RunEnds
