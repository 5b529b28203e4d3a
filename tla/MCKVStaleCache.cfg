\* The cache lags behind the API server while a resource is deleted.
SPECIFICATION Spec
CONSTANTS
    c1 = c1
    c2 = c2
    k1 = k1
    k2 = k2
    none = none
    v1 = v1
    v2 = v2
    app = app
    op1 = op1
    op2 = op2
    EmptyKey = EmptyKey
    CRs <- MCCRs
    Operators = {op1}
    OwnedBy <- ByScope
    Keys <- MCKeys
    Dirs = {}
    Tree <- NoTree
    Values = {v1, v2}
    NoValue = none
    ExternalValue = app
    Specs <- DistinctSpecs
    PurgeModes = {FALSE}
    AppKeys = {}
    BatchSize = 1
    CasMaxRetries = 2
    Faults = {"staleCache"}
    MaxEdits = 4
    MaxFaults = 1
INVARIANTS KeysGoneWithOwners
CHECK_DEADLOCK FALSE
