SPECIFICATION Spec
CONSTANTS
    Processes <- MCPair
    Primary = "p0"
    Clients <- MCClients
    Configs <- MCPairConfigs
    Cards <- MCCards
    Present <- MCPresent
    MaxPci = 8
    MaxQueues <- MCMaxQueues
    WaitForPrimary = FALSE
    MayFail = TRUE
    MaxCrashes = 2
CHECK_DEADLOCK FALSE
INVARIANTS TypeOK ReadyMeansBuilt ClientFindsCores QueuesHavePools NoAlias
