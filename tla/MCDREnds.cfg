\* Every mode and every failure: drFunction returns.
SPECIFICATION FairSpec
CONSTANTS
    s1 = s1
    s2 = s2
    Sites = {s1, s2}
    FirstActive = s1
    Modes = {"active", "standby", "disabled"}
    Faults = {"request", "lostReply", "rejected", "noAnswer", "task", "notReady", "crash", "daemonRestart"}
    MaxEdits = 2
    MaxWrites = 0
    MaxTasks = 2
    MaxFaults = 1
PROPERTIES SwitchEnds
CHECK_DEADLOCK FALSE
