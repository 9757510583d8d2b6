CONSTANTS
    p1 = p1  p2 = p2  s1 = s1   None = None
    Panes <- TwoPanes
    SessionOf <- OneSession
    Cmds = {"zsh", "vim"}
    Views <- ViewsOfTwo
    MaxFlips = 2
    MaxErrors = 1
SPECIFICATION FairSpec
INVARIANTS DownSaidOnce
PROPERTIES DownRowsGoStale PanesConverge PanesAreTold
