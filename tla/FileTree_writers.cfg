SPECIFICATION Spec
CONSTANTS
    d1 = d1
    d2 = d2
    f1 = f1
    f2 = f2
    top = top
    Root = top
    Rank <- MCRank
    File <- MCFile
    Dir <- MCTwoDirs
    Parent <- MCOwnDir
    Tx = {t1, t2}
    Client = {c1}
    ColdStart = FALSE
    Size = {1}
    Quota = 0
    Base <- MCBase
    MaxCursor = 5
    Target = {}
SYMMETRY Symmetry
INVARIANTS
    FilesConverge
