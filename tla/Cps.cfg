SPECIFICATION Spec
CONSTANTS
    TscPerSec = 4
    TscPerMs = 2
    SegsMax = 2
    RemainMax = 2
    Word = 32
    Schedules <- MCSchedules
    StartTscs <- MCStartTscs
    Pauses <- MCPauses
    MaxTsc = 18
CHECK_DEADLOCK FALSE
INVARIANTS TypeOK BaseNotAhead RateKept SegmentsInOrder RampMonotone
PROPERTIES CatchesUp OwedKept
