CONSTANTS
    Selections <- Queries
    Bodies <- ThreeBodies
    N = 7
    K = 9
    MaxWrites = 1
    MaxFaults = 1
SPECIFICATION QuerySpec
INVARIANTS JoinsAreLinked SiblingsAgree NewestPullRequest BlankOnlyOnFailure
