SPECIFICATION LinkedSpec
CONSTANTS
    n1 = n1
    n2 = n2
    n3 = n3
    n4 = n4
    Nodes <- FourNodes
    NULL = NULL
    Procs <- FourProcs
    Nothing = 0
    priority <- Priorities
    arrival <- ArrivalTimes
    Interrupts = TRUE
INVARIANTS
    NothingLost
SYMMETRY Symmetry
CHECK_DEADLOCK FALSE
