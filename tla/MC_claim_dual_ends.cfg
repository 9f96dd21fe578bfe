SPECIFICATION DualFairSpec
CONSTANTS
    Procs <- SevenProcs
    Ghost = 0
    Workloads <- LongWorkloads
    MaxClk = 40
PROPERTIES
    Terminates
CHECK_DEADLOCK FALSE
