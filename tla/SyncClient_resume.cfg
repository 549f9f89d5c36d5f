SPECIFICATION ClientSpec
CONSTANTS
    Sess = s1
    Session = {s1}
    Request = {r1, r2}
    a1 = a1
    a2 = a2
    b1 = b1
    NoData = NoData
    Part <- MCPart
    Data <- MCData
    Archive <- MCArchive
    Other <- MCOther
    MaxFaults = 2
INVARIANTS
    PartsFromBundle
PROPERTIES
    ResumeCompletes
    OverdueReclaimed
CHECK_DEADLOCK FALSE
