SPECIFICATION FairSpec
CONSTANTS
    m1 = m1  m2 = m2  m3 = m3  m4 = m4
    Clients = {"a"}
    Cores = {"core1", "core2"}
    Msgs <- ThreeMsgs
    None = None
    RingSize = 2
    Polls = 2
    Window = 3
    MaxSends = 3
    MaxCrashes = 1
INVARIANTS TypeOK
PROPERTIES RepliesInOrder Recovered
