\* A shared policy whose entry sets the ID.
SPECIFICATION Spec
CONSTANTS
    a = a
    b = b
    c = c
    ns1 = ns1
    ns2 = ns2
    p = p
    q = q
    r = r
    jwt = jwt
    old = old
    CRs = {a, c}
    Namespace <- TwoNamespaces
    NoCR = NoCR
    NoMethod = NoMethod
    GlobalMethod = jwt
    LegacyMethods = {}
    OtherMethods = {jwt}
    Configs <- OnePolicy
    WithID <- PolicyID
    Existing <- SharedPolicy
    Faults = {}
    MaxEdits = 2
    MaxFaults = 0
PROPERTIES OthersKept
CHECK_DEADLOCK FALSE
