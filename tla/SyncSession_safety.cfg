SPECIFICATION Spec
CONSTANTS
    Session = {s1}
    Request = {r1, r2}
    good = good
    bad = bad
    NoData = NoData
    Part <- MCPart
    Data <- MCData
    Archive <- MCArchive
SYMMETRY Symmetry
INVARIANTS
    ImportsGenuine
    SuccessWasImported
    TerminalJobSettled
    LateRequestsRefused
PROPERTIES
    PartsNotOverwritten
    EndedIsFinal
