\* One resource, with rules left under a legacy auth method, under every failure.
SPECIFICATION FairSpec
CONSTANTS
    a = a
    b = b
    c = c
    ns1 = ns1
    ns2 = ns2
    p = p
    q = q
    r = r
    jwt = jwt
    old = old
    CRs = {a}
    Namespace <- TwoNamespaces
    NoCR = NoCR
    NoMethod = NoMethod
    GlobalMethod = jwt
    LegacyMethods = {old}
    OtherMethods = {old}
    Configs <- FaultyConfigs
    WithID <- IDs
    Existing <- LegacyEntities
    Faults = {"transient", "lookup", "permanent", "lostReply", "apiServer", "crash", "staleCache"}
    MaxEdits = 3
    MaxFaults = 1
INVARIANTS DeclaredKept
PROPERTIES ReplacedBeforeRemoved DeletionCompletes Converges
CHECK_DEADLOCK FALSE
