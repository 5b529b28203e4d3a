\* One resource, with and without purgeOnDelete, under every kind of failure.
SPECIFICATION FairSpec
CONSTANTS
    c1 = c1
    c2 = c2
    k1 = k1
    k2 = k2
    none = none
    v1 = v1
    v2 = v2
    app = app
    op1 = op1
    op2 = op2
    EmptyKey = EmptyKey
    CRs <- OneCR
    Operators = {op1}
    OwnedBy <- ByScope
    Keys <- MCKeys
    Dirs = {k1}
    Tree <- DirTree
    Values = {v1, v2}
    NoValue = none
    ExternalValue = app
    Specs <- DuplicateSpecs
    PurgeModes = {FALSE, TRUE}
    AppKeys = {}
    BatchSize = 1
    CasMaxRetries = 2
    Faults = {"consul", "lostReply", "apiServer", "crash", "staleCache"}
    MaxEdits = 3
    MaxFaults = 1
INVARIANTS TypeOK PurgeLeavesNothing ValuesApplied
PROPERTIES DeletionCompletes Converges
CHECK_DEADLOCK FALSE
