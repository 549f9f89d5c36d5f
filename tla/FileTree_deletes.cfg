SPECIFICATION Spec
CONSTANTS
    d1 = d1
    d2 = d2
    f1 = f1
    f2 = f2
    top = top
    Root = top
    Rank <- MCRank
    File <- MCFile
    Dir = {}
    Parent <- MCFlat
    Tx = {t1, t2}
    Client = {c1}
    ColdStart = FALSE
    Size = {1}
    Quota = 0
    Base <- MCNoBase
    MaxCursor = 4
    Target <- MCFileTarget
SYMMETRY Symmetry
INVARIANTS
    ClientsConverge
