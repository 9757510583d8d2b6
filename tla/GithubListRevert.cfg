CONSTANTS
    issue = issue  run = run  r1 = r1  r2 = r2  l1 = l1
    None = None  Pass = Pass
    Keys <- OneIssue
    Canonical <- OneIssue
    Issues <- OneIssue
    Pinnable <- NoPins
    Expiring <- NoKeys
    Readers <- OneReader
    Listers <- OneLister
    MaxVersion = 2
    MaxErrors = 0
SPECIFICATION FairSpec
PROPERTY StalenessIsBounded
