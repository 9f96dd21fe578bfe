SPECIFICATION DualFairSpec
CONSTANTS
    Procs <- SevenProcs
    Ghost = 0
    Workloads <- AllWorkloads
    MaxClk = 40
INVARIANTS
    DualTypeOK
    OnePlace
    Accounting
    RecordedResult
    LoadsAgreeUndisturbed
PROPERTIES
    GateHolds
    StallLasts
    SharesTheCPUs
    Terminates
