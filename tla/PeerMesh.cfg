CONSTANTS
    own = own  foreign = foreign  echo = echo  c1 = c1  c2 = c2  None = None
    Remote = "boxB"
    Local = "boxA"
    Keys <- ThreeKeys
    HostOf <- ThreeHosts
    Callers <- TwoCallers
    TTL = 1
    MaxClock = 2
    MaxFlips = 2
    MaxErrors = 1
SPECIFICATION FairSpec
INVARIANTS NoPeerOfPeer NeverUpIsSilent
PROPERTIES DownReadsStale
