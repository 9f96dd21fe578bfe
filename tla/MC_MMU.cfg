SPECIFICATION MMUSpec
CONSTANTS
    MEM_SIZE = 4
    NUM_PAGES = 3
    Procs <- MCProcs
    Limit <- MCLimit
    CleanDelay = 1
    DirtyDelay = 2
    MaxClk = 4
INVARIANTS
    MMUTypeOK
    TablesStay
    EntriesBacked
    FramesMapped
    ReservedIsPending
    FreeFramesClean
    EveryFaultServed
PROPERTIES
    EvictsLowestClass
    DelayPaysForWriteBack
    WakesWithPage
CHECK_DEADLOCK FALSE
