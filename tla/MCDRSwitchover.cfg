\* Switchovers and failovers while requests, tasks and the daemon itself fail.
SPECIFICATION Spec
CONSTANTS
    s1 = s1
    s2 = s2
    Sites = {s1, s2}
    FirstActive = s1
    Modes = {"active", "standby"}
    Faults = {"request", "lostReply", "task", "notReady", "crash"}
    MaxEdits = 3
    MaxWrites = 1
    MaxTasks = 2
    MaxFaults = 1
INVARIANTS TypeOK StandbyIsBackedUp
PROPERTIES SwitchoverKeepsData WritesKept
CHECK_DEADLOCK FALSE
