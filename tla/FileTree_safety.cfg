SPECIFICATION Spec
CONSTANTS
    d1 = d1
    d2 = d2
    f1 = f1
    f2 = f2
    top = top
    Root = top
    Rank <- MCRank
    File <- MCFile
    Dir <- MCDir
    Parent <- MCParent
    Tx = {t1, t2}
    Client = {}
    ColdStart = FALSE
    Size = {1}
    Quota = 0
    Base <- MCBase
    MaxCursor = 5
    Target <- MCTarget
SYMMETRY Symmetry
INVARIANTS
    HistoryMatchesTree
    ExpectedVersionHonoured
PROPERTIES
    ImplementsVersionedTree
