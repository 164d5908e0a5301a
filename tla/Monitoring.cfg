SPECIFICATION Spec
CONSTANTS
    Pools <- MCPools
    Cnt = 2
    NULL = NULL
    CoreCnt = 2
    MaxId = 2
    Word = 16
    PoolItem = 0
    ItemTypes <- MCItemTypes
    MaxCalls = 3
    MaxPkts = 1
    MaxRounds = 2
CHECK_DEADLOCK FALSE
INVARIANTS SumBracketed TypesAgree NicStatsTrue InUseReported
PROPERTIES PoolSpec
