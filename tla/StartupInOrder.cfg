SPECIFICATION FairSpec
CONSTANTS
    Processes <- MCProcesses
    Primary = "p0"
    Clients <- MCNoClients
    Configs <- MCGoodConfigs
    Cards <- MCCards
    Present <- MCPresent
    MaxPci = 8
    MaxQueues <- MCMaxQueues
    WaitForPrimary = TRUE
    MayFail = FALSE
    MaxCrashes = 1
CHECK_DEADLOCK FALSE
PROPERTIES GlobalMemoryKept AllStart
