SPECIFICATION Spec
CONSTANTS
    NProc = 2
    NDisp = 2
    NIntf = 1
    RingSize = 2
    MaxRcvPkts = 2
    PoolSize = 2
    MaxPkts = 3
    MaxStops = 1
    Headers <- MCHeaders
    Jhash <- MCJhash
    RssHash <- MCRssHash
CHECK_DEADLOCK FALSE
INVARIANTS TypeOK FlowAffinity NoUseAfterFree CountsAddUp
PROPERTIES LeakOnlyWhenFull SwitchSpec
