\* Explicit names shared by two siblings and a resource of another namespace.
SPECIFICATION Spec
CONSTANTS
    a = a
    b = b
    c = c
    ns1 = ns1
    ns2 = ns2
    p = p
    q = q
    r = r
    jwt = jwt
    old = old
    CRs = {a, b, c}
    Namespace <- TwoNamespaces
    NoCR = NoCR
    NoMethod = NoMethod
    GlobalMethod = jwt
    LegacyMethods = {}
    OtherMethods = {jwt}
    Configs <- SharedConfigs
    WithID = {}
    Existing <- NothingExists
    Faults = {"transient"}
    MaxEdits = 4
    MaxFaults = 1
INVARIANTS TypeOK DeclaredKept StaleReleased LinksResolved
PROPERTIES OthersKept
SYMMETRY SiblingSymmetry
CHECK_DEADLOCK FALSE
