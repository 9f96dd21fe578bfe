SPECIFICATION HPFSpec
CONSTANTS
    Procs <- FiveProcs
    Workloads <- PreemptWorkloads
    ArgsNeeded = 5
    MaxClk = 20
INVARIANTS
    FinishedIsComplete
