SPECIFICATION RRSpec
CONSTANTS
    MEM_SIZE = 4
    NUM_PAGES = 3
    Procs <- PairProcs
    Limit <- PageLimit
    CleanDelay = 2
    DirtyDelay = 3
    MaxClk = 5
    quantum = 1
    k = 2
    Workloads <- LagWorkloads
    Prompt = FALSE
INVARIANTS
    ProcessesInPlace
    NothingOverlooked
CHECK_DEADLOCK FALSE
