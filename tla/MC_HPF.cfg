SPECIFICATION HPFFairSpec
CONSTANTS
    Procs <- FiveProcs
    Workloads <- AllWorkloads
    ArgsNeeded = 4
    MaxClk = 40
INVARIANTS
    HPFTypeOK
    ProcessesInPlace
    Accounting
    RecordedResult
PROPERTIES
    TicksGranted
    SharesTheCPU
    Terminates
