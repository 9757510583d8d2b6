CONSTANTS
    p1 = p1  p2 = p2
    Asks <- AskLines
    Feed <- SixEvents
    Procs <- TwoProcs
    HostConfigs <- FourConfigs
    Hooks <- TwoHooks
    UserEntries <- OneEntry
    MaxChanges = 2
    Contents <- FiveContents
    Commands <- FiveCommands
SPECIFICATION Spec
INVARIANTS StatusTellsOutput PrintedAsAsked EndTellsServer SettingsSurvive
PROPERTY EndedStreamLeft
CHECK_DEADLOCK FALSE
