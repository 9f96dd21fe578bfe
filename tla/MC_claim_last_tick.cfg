SPECIFICATION RRFairSpec
CONSTANTS
    MEM_SIZE = 4
    NUM_PAGES = 3
    Procs <- PairProcs
    Limit <- PageLimit
    CleanDelay = 1
    DirtyDelay = 3
    MaxClk = 40
    quantum = 2
    k = 2
    Workloads <- LastTickWorkloads
    Prompt = TRUE
PROPERTIES
    Terminates
CHECK_DEADLOCK FALSE
