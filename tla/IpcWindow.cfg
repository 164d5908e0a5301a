SPECIFICATION Spec
CONSTANTS
    m1 = m1  m2 = m2  m3 = m3  m4 = m4
    Clients = {"a", "b"}
    Cores = {"core1"}
    Msgs <- FourMsgs
    None = None
    RingSize = 4
    Polls = 1
    Window = 1
    MaxSends = 3
    MaxCrashes = 1
SYMMETRY Alike
INVARIANTS OneOwner RoomForAnswer
PROPERTIES RepliesInOrder
