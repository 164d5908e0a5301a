SPECIFICATION Spec
CONSTANTS
    Processes <- MCMixTestProcesses
    Primary = "mix0"
    Clients <- MCNoClients
    Configs <- MCMixTestConfigs
    Cards <- MCMixTestCards
    Present <- MCMixTestCards
    MaxPci = 8
    MaxQueues <- MCMixTestQueues
    WaitForPrimary = TRUE
    MayFail = FALSE
    MaxCrashes = 0
CHECK_DEADLOCK FALSE
INVARIANTS MixTestStarts
