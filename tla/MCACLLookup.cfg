\* The look-up of a policy of another resource fails.
SPECIFICATION Spec
CONSTANTS
    a = a
    b = b
    c = c
    ns1 = ns1
    ns2 = ns2
    p = p
    q = q
    r = r
    jwt = jwt
    old = old
    CRs = {a, b}
    Namespace <- TwoNamespaces
    NoCR = NoCR
    NoMethod = NoMethod
    GlobalMethod = jwt
    LegacyMethods = {}
    OtherMethods = {jwt}
    Configs <- RoleAndPolicy
    WithID = {}
    Existing <- NothingExists
    Faults = {"lookup"}
    MaxEdits = 2
    MaxFaults = 1
INVARIANTS LinksResolved
CHECK_DEADLOCK FALSE
