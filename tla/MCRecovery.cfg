CHECK_DEADLOCK FALSE
SPECIFICATION Spec
CONSTANTS
    Datacenters = {d1, d2}
    Local = d1
    d1 = d1
    t1 = t1
    d2 = d2
    ToBackup <- All
    ToRestore <- AllOrOther
    Servers = {s1}
    Tokens = {t1, t2}
    FirstToken = t1
    NoToken = NoToken
    EmptyToken = EmptyToken
    NoSnapshot = NoSnapshot
    CRs = {c1}
    MaxBackups = 1
    MaxRestores = 2
    MaxIncidents = 2

INVARIANTS TypeOK BackupOpens SecretOpens
PROPERTIES RestoreRecovers
