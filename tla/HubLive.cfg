CONSTANTS
    w1 = w1
    NoTime = NoTime  NoEvent = NoEvent
    NumPlugins = 1
    Tails <- NoTails
    Watchers <- OneWatcher
    SourceOf <- NoSources
    RingCapacity = 1
    SubBuffer = 1
    Threshold = 1
    WatchThreshold = 0
    MaxEvents = 2
    MaxClock = 2
    MaxBoots = 1
SPECIFICATION LagSpec
PROPERTIES SilenceIsPushed EmitReturns ShutdownCompletes
CHECK_DEADLOCK FALSE
