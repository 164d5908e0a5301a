SPECIFICATION Spec
CONSTANTS
    t1 = t1
    t2 = t2
    t3 = t3
    Timers = {t1, t2, t3}
    NoTimer = NoTimer
    NULL = NULL
    POISON = POISON
    TvrSize = 2
    TvnSize = 2
    Word = 64
    Clamp = 7
    StartTicks <- MCStartTicks
    Delays <- MCDelays
    Gaps <- MCGaps
    MaxTicks = 10
SYMMETRY MCSymmetry
INVARIANTS WellLinked PendingIffDue
PROPERTIES WheelSpec
