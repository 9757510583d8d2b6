CONSTANTS
    issue = issue  run = run  r1 = r1  r2 = r2  l1 = l1
    None = None  Pass = Pass
    Keys <- BothKeys
    Canonical <- OneIssue
    Issues <- OneIssue
    Pinnable <- NoPins
    Expiring <- OneRun
    Readers <- OneReader
    Listers <- OneLister
    MaxVersion = 2
    MaxErrors = 1
SPECIFICATION Spec
INVARIANTS NotModifiedIsCurrent
