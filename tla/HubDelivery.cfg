CONSTANTS
    s1 = s1
    NoTime = NoTime  NoEvent = NoEvent
    NumPlugins = 2
    Tails <- OneSub
    Watchers <- NoSubs
    SourceOf <- SecondOnly
    RingCapacity = 1
    SubBuffer = 1
    Threshold = 0
    MaxEvents = 2
    MaxClock = 1
    MaxBoots = 2
SPECIFICATION Spec
INVARIANTS TypeOK NothingBeforeDurable RingIsNewest TailKeepsEmitOrder DeadReadsStale
PROPERTY ImplementsDurableTail
CHECK_DEADLOCK FALSE
