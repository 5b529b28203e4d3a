\* The backup daemon restarts or refuses while it is asked to restore.
SPECIFICATION Spec
CONSTANTS
    s1 = s1
    s2 = s2
    Sites = {s1, s2}
    FirstActive = s1
    Modes = {"active", "standby"}
    Faults = {"rejected", "daemonRestart"}
    MaxEdits = 2
    MaxWrites = 1
    MaxTasks = 2
    MaxFaults = 1
PROPERTIES SwitchoverKeepsData
CHECK_DEADLOCK FALSE
