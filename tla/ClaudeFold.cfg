CONSTANTS
    None = None
    Transitions <- Turn
    EventOf <- TurnEvent
    ViaLine <- Turn
    Stamp <- TurnStamp
    Oversized <- TurnBig
    PidOf <- TurnPid
    ViaHook <- TurnHooks
    Lines <- TurnLines
    FileStates <- Asking
    FilePid = 7
    Pids <- OnePid
    Retention = 1
    MaxClock = 2
    MaxErrors = 1
SPECIFICATION FairSpec
INVARIANTS FoldedOncePerKey
PROPERTIES EveryRecordTaken DeadSessionReadsStale OldIsPruned
