SPECIFICATION Spec
CONSTANTS
    NProc = 2
    NDisp = 0
    NIntf = 1
    RingSize = 2
    MaxRcvPkts = 2
    PoolSize = 2
    MaxPkts = 2
    MaxStops = 0
    Headers <- MCBothWays
    Jhash <- MCJhash
    RssHash <- MCRssHash
CHECK_DEADLOCK FALSE
INVARIANTS SymmetricRss
