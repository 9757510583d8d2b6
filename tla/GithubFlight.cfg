CONSTANTS
    issue = issue  run = run  r1 = r1  r2 = r2  l1 = l1
    None = None  Pass = Pass
    Keys <- OneIssue
    Canonical <- OneIssue
    Issues <- OneIssue
    Pinnable <- LastPins
    Expiring <- OneIssue
    Readers <- TwoReaders
    Listers <- Nobody
    MaxVersion = 2
    MaxErrors = 1
SPECIFICATION FairSpec
INVARIANT OneFetchPerKey
PROPERTIES ReadersReturn NodesHeal
