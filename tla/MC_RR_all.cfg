SPECIFICATION RRSpec
CONSTANTS
    MEM_SIZE = 4
    NUM_PAGES = 3
    Procs <- TrioProcs
    Limit <- PageLimit
    CleanDelay = 4
    DirtyDelay = 6
    MaxClk = 60
    quantum = 2
    k = 2
    Workloads <- Workloads3
    Prompt = TRUE
INVARIANTS
    RRTypeOK
    ProcessesInPlace
    Accounting
    NothingOverlooked
PROPERTIES
    RequestsAnswered
    QuantumsKept
    MMUSpec
    SharesTheCPU
