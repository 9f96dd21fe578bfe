SPECIFICATION DualSpec
CONSTANTS
    Procs <- SevenProcs
    Ghost = 0
    Workloads <- StallWorkloads
    MaxClk = 40
INVARIANTS
    LoadsAgree
