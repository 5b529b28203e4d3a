\* Pods come and go while the job runs again and again.
SPECIFICATION FairSpec
CONSTANTS
    p1 = p1
    p2 = p2
    Pods = {p1, p2}
    NoPod = NoPod
    Others <- MCOthers
    LastOther = 3
    MaxTokens = 7
    MaxPodSteps = 9
    MaxFaults = 2
INVARIANTS TypeOK OtherTokensKept
PROPERTIES InUseKept StaleRemoved
