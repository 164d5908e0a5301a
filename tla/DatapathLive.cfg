SPECIFICATION FairSpec
CONSTANTS
    NProc = 2
    NDisp = 0
    NIntf = 2
    RingSize = 2
    MaxRcvPkts = 2
    PoolSize = 2
    MaxPkts = 3
    MaxStops = 1
    Headers <- MCBothWays
    Jhash <- MCJhash
    RssHash <- MCRssHash
CHECK_DEADLOCK FALSE
INVARIANTS SingleFeeder
PROPERTIES Drains
