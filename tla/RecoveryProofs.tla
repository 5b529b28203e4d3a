--------------------------- MODULE RecoveryProofs ---------------------------
(***************************************************************************)
(* What the backup and restore scripts promise, for any number of          *)
(* datacenters, servers, tokens, resources, backups, restores and          *)
(* failures.                                                               *)
(***************************************************************************)
EXTENDS Recovery, TLAPS

\* The token of the data of folder b opens what it has so far.
OpenedBy(b, t) == \A d \in Saved(b) : b.snap[d].token = t

\* A backup in progress: all it took was opened by the token it will note,
\* and all it was to take is there when .token is.
BackupInProgress ==
    /\ task.pc \in {"snapshot", "token"} =>
        /\ task.kind = "backup"
        /\ task.folder # 0
        /\ Folder.want = Saved(Folder) \cup task.todo
        /\ OpenedBy(Folder, task.token)
    /\ task.pc = "snapshot" => Folder.token = NoToken
    /\ task.pc = "token" => task.todo = {}

\* A restore that puts snapshots into Consul was not refused, or it has no
\* token, like its backup, and its first request will be refused.
RestoreInProgress ==
    task.pc = "put" =>
        /\ task.kind = "restore"
        /\ task.folder # 0
        /\ task.skip \/ Folder.token # NoToken \/ (task.token = NoToken /\ task.todo # {})

\* From the secret on, the script works with the token of the secret; from
\* the first request Consul accepts on, this is the token of Consul.
RecoveryInProgress ==
    /\ task.pc \in {"restart", "tokens"} => task.token = secret
    /\ task.kind = "restore" /\ task.pc \in {"agents", "auth", "auth2", "nodes", "pods"} =>
        task.token = secret /\ consul[Local].token = secret

IInv ==
    /\ TypeOK
    /\ BackupOpens
    /\ BackupInProgress
    /\ RestoreInProgress
    /\ RecoveryInProgress
    /\ SecretOpens

\* The tasks of a daemon with n folders.
TaskSet(n) ==
    [kind : {"none", "backup", "restore", "hook"}, pc : Steps, folder : 0 .. n,
     token : Tokens \cup {NoToken, EmptyToken}, todo : SUBSET (Datacenters \cup Servers), skip : BOOLEAN]

\* TypeOK of the variables of the site, and of the others.
SiteTypes ==
    /\ cluster \in 1 .. 2
    /\ consul \in [Datacenters -> Data]
    /\ servers \in [Servers -> [up : BOOLEAN, known : BOOLEAN]]
    /\ secret \in Tokens \cup {EmptyToken}
    /\ backups \in Seq(Folders)
    /\ task \in TaskSet(Len(backups))
    /\ restores \in Nat /\ incidents \in Nat
    /\ operatorUp \in BOOLEAN

ProcessTypes ==
    /\ gen \in [CRs -> Nat]
    /\ op \in [token : Tokens \cup {EmptyToken}, queue : SUBSET CRs, ensured : BOOLEAN]

\* The conjuncts of IInv about the scripts.
ScriptInv ==
    /\ BackupOpens
    /\ BackupInProgress
    /\ RestoreInProgress
    /\ RecoveryInProgress
    /\ SecretOpens

-----------------------------------------------------------------------------
(* The values the actions build have their types.                          *)

\* A script that ends, well or not, leaves a task of its type.
LEMMA EndTypes ==
    ASSUME NEW n \in Nat, task \in TaskSet(n)
    PROVE  /\ NoTask \in TaskSet(n)
           /\ [NoTask EXCEPT !.kind = task.kind, !.pc = "failed"] \in TaskSet(n)
           /\ [NoTask EXCEPT !.kind = task.kind, !.skip = task.skip] \in TaskSet(n)
<1>1. task.kind \in {"none", "backup", "restore", "hook"} /\ task.skip \in BOOLEAN
  BY Zenon DEF TaskSet
<1>2. NoTask \in TaskSet(n)
  BY DEF TaskSet, NoTask, Steps
<1>3. [NoTask EXCEPT !.kind = task.kind, !.pc = "failed"] \in TaskSet(n)
  BY <1>1, <1>2, Zenon DEF TaskSet, Steps
<1>4. [NoTask EXCEPT !.kind = task.kind, !.skip = task.skip] \in TaskSet(n)
  BY <1>1, <1>2, Zenon DEF TaskSet
<1> QED
  BY <1>2, <1>3, <1>4, Zenon

\* Configuring an auth method keeps the type and the token of all data.
LEMMA ConfiguredTypes ==
    ASSUME consul \in [Datacenters -> Data], cluster \in 1 .. 2, NEW m \in Methods
    PROVE  /\ Configured(m) \in [Datacenters -> Data]
           /\ \A d \in Datacenters : Configured(m)[d].token = consul[d].token
<1>1. Local \in Datacenters /\ cluster \in 0 .. 2
  BY RestoreAssumption
<1>2. consul[Local] \in Data
  BY <1>1, Zenon
<1> DEFINE x == [consul[Local] EXCEPT !.methods[m] = cluster]
<1>3. x \in Data /\ x.token = consul[Local].token
  BY <1>1, <1>2, Zenon DEF Data
<1>4. Configured(m) = [consul EXCEPT ![Local] = x]
  BY Zenon DEF Configured
<1> HIDE DEF x
<1> QED
  BY <1>1, <1>3, <1>4, Zenon

\* The data of a fresh installation.
LEMMA FreshTypes ==
    ASSUME NEW t \in Tokens, NEW n \in 1 .. 2
    PROVE  Fresh(t, n) \in Data
BY DEF Fresh, Data

\* A change of one folder keeps the type of the folders.
LEMMA FolderTypes ==
    ASSUME backups \in Seq(Folders), NEW i \in 1 .. Len(backups), NEW f \in Folders
    PROVE  /\ [backups EXCEPT ![i] = f] \in Seq(Folders)
           /\ Len([backups EXCEPT ![i] = f]) = Len(backups)
OBVIOUS

\* The two halves are TypeOK.
LEMMA TypeHalves == TypeOK <=> SiteTypes /\ ProcessTypes
BY Zenon DEF TypeOK, SiteTypes, ProcessTypes, TaskSet

-----------------------------------------------------------------------------
(* The steps of the scripts keep the types.                                *)

LEMMA SiteStepTypes ==
    ASSUME SiteTypes, BackupInProgress, RestoreInProgress, SiteNext
    PROVE  SiteTypes'
<1> DEFINE n == Len(backups)
<1>a. n \in Nat
  BY DEF SiteTypes
<1>b. /\ cluster \in 1 .. 2
      /\ consul \in [Datacenters -> Data]
      /\ servers \in [Servers -> [up : BOOLEAN, known : BOOLEAN]]
      /\ secret \in Tokens \cup {EmptyToken}
      /\ backups \in Seq(Folders)
      /\ task \in TaskSet(n)
      /\ restores \in Nat /\ incidents \in Nat
      /\ operatorUp \in BOOLEAN
  BY Zenon DEF SiteTypes
<1>c. /\ task.todo \in SUBSET (Datacenters \cup Servers)
      /\ task.pc \in Steps
      /\ task.folder \in 0 .. n
      /\ task.token \in Tokens \cup {NoToken, EmptyToken}
  BY <1>b, Zenon DEF TaskSet
<1>g. AclToken \in Tokens \cup {NoToken}
  BY <1>b, Zenon DEF AclToken
<1>d. Incident => incidents' \in Nat
  BY <1>b DEF Incident
<1>e. Exit \/ Done => task' \in TaskSet(n)
  BY <1>a, <1>b, EndTypes, Zenon DEF Exit, Done
<1>f. \A pc \in Steps : GoTo(pc) => task' \in TaskSet(n)
  BY <1>b, Zenon DEF GoTo, TaskSet
<1>1. ASSUME NEW s \in Servers, ServerUp(s) \/ ServerStops(s) PROVE SiteTypes'
  BY <1>1, <1>b, <1>d, Zenon DEF ServerUp, ServerStops, SiteTypes
<1>2. ASSUME NEW s \in Servers, SetAgentToken(s) PROVE SiteTypes'
  <2>1. task' \in TaskSet(n)
    BY <1>2, <1>a, <1>b, <1>c, Zenon DEF SetAgentToken, TaskSet, Steps
  <2>2. servers' \in [Servers -> [up : BOOLEAN, known : BOOLEAN]]
    <3>1. /\ servers \in [Servers -> [up : BOOLEAN, known : BOOLEAN]]
          /\ [servers EXCEPT ![s] = [up |-> FALSE, known |-> TRUE]]
                \in [Servers -> [up : BOOLEAN, known : BOOLEAN]]
          /\ [servers EXCEPT ![s].known = TRUE] \in [Servers -> [up : BOOLEAN, known : BOOLEAN]]
      BY <1>b, Zenon
    <3>2. servers' \in {servers, [servers EXCEPT ![s] = [up |-> FALSE, known |-> TRUE]],
                        [servers EXCEPT ![s].known = TRUE]}
      BY <1>2, Zenon DEF SetAgentToken
    <3> QED
      BY <3>1, <3>2, Zenon
  <2>3. incidents' \in Nat
    BY <1>2, <1>b, <1>d, Zenon DEF SetAgentToken
  <2> QED
    BY <1>2, <1>b, <2>1, <2>2, <2>3, Zenon DEF SetAgentToken, SiteTypes
<1>3. CASE ScriptDies
  BY <1>3, <1>b, <1>d, <1>e, Zenon DEF ScriptDies, SiteTypes
<1>4. ASSUME NEW dcs \in ToBackup, StartBackup(dcs) PROVE SiteTypes'
  <2> DEFINE todo == IF dcs = {} THEN Datacenters ELSE dcs
             f == [want |-> todo, snap |-> NoSnapshots, token |-> NoToken]
  <2>1. todo \in SUBSET Datacenters
    BY RestoreAssumption, Zenon
  <2>2. f \in Folders
    BY <2>1, Zenon DEF Folders, NoSnapshots
  <2>3. backups' = Append(backups, f)
    BY <1>4, Zenon DEF StartBackup
  <2>4. backups' \in Seq(Folders) /\ Len(backups') = n + 1
    BY <2>2, <2>3, <1>b
  <2>5. task' = [kind |-> "backup", pc |-> "snapshot", folder |-> n + 1,
                 token |-> AclToken, todo |-> todo, skip |-> FALSE]
    BY <1>4, Zenon DEF StartBackup
  <2>6. task' \in TaskSet(n + 1)
    BY <2>1, <2>5, <1>a, <1>g DEF TaskSet, Steps
  <2> QED
    BY <1>4, <1>b, <2>4, <2>6, Zenon DEF StartBackup, SiteTypes
<1>5. ASSUME NEW d \in Datacenters, Snapshot(d) PROVE SiteTypes'
  <2>1. task.folder \in 1 .. n
    BY <1>5, <1>a, <1>c DEF Snapshot, BackupInProgress
  <2>2. [Folder EXCEPT !.snap[d] = consul[d]] \in Folders
    <3>1. Folder \in Folders
      BY <2>1, <1>b DEF Folder
    <3> QED
      BY <2>1, <3>1, <1>b, Zenon DEF Folders
  <2>3. backups' \in Seq(Folders) /\ Len(backups') = n
    BY <1>5, <1>b, <2>1, <2>2, FolderTypes, Zenon DEF Snapshot, Folder
  <2>4. task' \in TaskSet(n)
    BY <1>5, <1>b, <1>c, Zenon DEF Snapshot, TaskSet
  <2> QED
    BY <1>5, <1>b, <2>3, <2>4, Zenon DEF Snapshot, SiteTypes
<1>6. ASSUME NEW d \in Datacenters, PutSnapshot(d) PROVE SiteTypes'
  <2>1. task.folder \in 1 .. n
    BY <1>6, <1>a, <1>c DEF PutSnapshot, RestoreInProgress
  <2>2. Folder \in Folders
    BY <2>1, <1>b DEF Folder
  <2>3. Folder.snap[d] \in Data
    BY <2>2, <1>6, Zenon DEF Folders, PutSnapshot, Saved
  <2>4. task' \in TaskSet(n)
    BY <1>6, <1>b, <1>c, Zenon DEF PutSnapshot, TaskSet
  <2>5. servers' \in [Servers -> [up : BOOLEAN, known : BOOLEAN]]
    BY <1>6, <1>b, Zenon DEF PutSnapshot, Recognised
  <2> QED
    BY <1>6, <1>b, <2>3, <2>4, <2>5, Zenon DEF PutSnapshot, SiteTypes
<1>7. CASE CreateTokenFile \/ BackupToken
  <2>1. task.folder \in 1 .. n
    BY <1>7, <1>a, <1>c DEF CreateTokenFile, BackupToken, BackupInProgress
  <2>2. \A t \in {EmptyToken, task.token} : [Folder EXCEPT !.token = t] \in Folders
    <3>1. Folder \in Folders
      BY <2>1, <1>b DEF Folder
    <3> QED
      BY <3>1, <1>c, Zenon DEF Folders
  <2>3. PICK t \in {EmptyToken, task.token} :
            backups' = [backups EXCEPT ![task.folder] = [Folder EXCEPT !.token = t]]
    BY <1>7, Zenon DEF CreateTokenFile, BackupToken, Folder
  <2>4. backups' \in Seq(Folders) /\ Len(backups') = n
    <3> DEFINE f == [Folder EXCEPT !.token = t]
    <3>1. f \in Folders /\ backups' = [backups EXCEPT ![task.folder] = f]
      BY <2>2, <2>3, Zenon
    <3> HIDE DEF f
    <3> QED
      BY <1>b, <2>1, <3>1, FolderTypes, Zenon
  <2>5. task' \in TaskSet(n)
    BY <1>7, <1>e, <1>f, Zenon DEF CreateTokenFile, BackupToken, Steps
  <2> QED
    BY <1>7, <1>b, <2>4, <2>5, Zenon DEF CreateTokenFile, BackupToken, SiteTypes
<1>8. ASSUME NEW i \in 1 .. n, NEW dcs \in ToRestore, NEW skip \in BOOLEAN,
             StartRestore(i, dcs, skip)
      PROVE  SiteTypes'
  <2>1. Saved(backups[i]) \in SUBSET Datacenters /\ dcs \in SUBSET Datacenters
    BY RestoreAssumption, Zenon DEF Saved
  <2>2. task' \in TaskSet(n)
    BY <1>8, <1>a, <1>b, <1>g, <2>1 DEF StartRestore, TaskSet, Steps
  <2> QED
    BY <1>8, <1>b, <2>2 DEF StartRestore, SiteTypes
<1>9. CASE RequestFails
  BY <1>9, <1>b, <1>e, Zenon DEF RequestFails, SiteTypes
<1>10. CASE RestoreEnds
  BY <1>10, <1>b, <1>e, Zenon DEF RestoreEnds, SiteTypes
<1>11. CASE RestoreSecretData
  <2>1. task.folder \in 1 .. n
    BY <1>11, <1>a, <1>c DEF RestoreSecretData, RestoreInProgress
  <2>2. Folder.token \in Tokens \cup {EmptyToken}
    <3>1. Folder \in Folders
      BY <2>1, <1>b DEF Folder
    <3> QED
      BY <3>1, <1>11, Zenon DEF Folders, RestoreSecretData
  <2>3. task' \in TaskSet(n)
    BY <1>11, <1>b, <2>2, Zenon DEF RestoreSecretData, TaskSet, Steps
  <2> QED
    BY <1>11, <1>b, <2>2, <2>3, Zenon DEF RestoreSecretData, SiteTypes
<1>12. CASE RestartServers
  <2>1. servers' \in [Servers -> [up : BOOLEAN, known : BOOLEAN]]
    BY <1>12, <1>b, Zenon DEF RestartServers
  <2>2. task' \in TaskSet(n)
    BY <1>12, <1>f, Zenon DEF RestartServers, Steps
  <2> QED
    BY <1>12, <1>b, <2>1, <2>2, Zenon DEF RestartServers, SiteTypes
<1>13. CASE CalculateServerTokens
  <2>1. task' \in TaskSet(n)
    BY <1>13, <1>b, Zenon DEF CalculateServerTokens, TaskSet, Steps
  <2> QED
    BY <1>13, <1>b, <2>1, Zenon DEF CalculateServerTokens, SiteTypes
<1>14. CASE UpdateAuthMethod
  <2>1. consul' \in [Datacenters -> Data]
    BY <1>14, <1>b, ConfiguredTypes, Zenon DEF UpdateAuthMethod, Methods
  <2>2. task' \in TaskSet(n)
    BY <1>14, <1>e, <1>f, Zenon DEF UpdateAuthMethod, Steps
  <2> QED
    BY <1>14, <1>b, <2>1, <2>2, Zenon DEF UpdateAuthMethod, SiteTypes
<1>15. CASE RestartIncorrectServers
  <2>1. servers' \in [Servers -> [up : BOOLEAN, known : BOOLEAN]]
    BY <1>15, <1>b, Zenon DEF RestartIncorrectServers
  <2>2. task' \in TaskSet(n)
    BY <1>15, <1>f, Zenon DEF RestartIncorrectServers, Steps
  <2> QED
    BY <1>15, <1>b, <2>1, <2>2, Zenon DEF RestartIncorrectServers, SiteTypes
<1>16. CASE TimesOut
  BY <1>16, <1>b, <1>e, Zenon DEF TimesOut, SiteTypes
<1>17. CASE RestartPods
  BY <1>17, <1>b, <1>e, Zenon DEF RestartPods, SiteTypes
<1>18. CASE Reinstall
  <2>1. PICK t \in Tokens : secret' = t /\ consul' = [d \in Datacenters |-> Fresh(t, 2)]
    BY <1>18, Zenon DEF Reinstall
  <2>2. consul' \in [Datacenters -> Data]
    BY <2>1, FreshTypes
  <2>3. task' \in TaskSet(n)
    BY <1>18, <1>a, <1>b, EndTypes, Zenon DEF Reinstall
  <2>4. servers' \in [Servers -> [up : BOOLEAN, known : BOOLEAN]]
    BY <1>18, Zenon DEF Reinstall
  <2>5. /\ cluster' = 2 /\ operatorUp' = FALSE
        /\ UNCHANGED <<backups, restores, incidents>>
    BY <1>18, Zenon DEF Reinstall, NewSite
  <2> QED
    <3>1. cluster' \in 1 .. 2
      BY <2>5
    <3>2. operatorUp' \in BOOLEAN
      BY <2>5, Zenon
    <3> QED
      BY <1>b, <2>1, <2>2, <2>3, <2>4, <2>5, <3>1, <3>2, Zenon DEF SiteTypes
<1>19. CASE VeleroRestore
  <2>1. task' \in TaskSet(n)
    <3>1. task' = [kind |-> "hook", pc |-> "auth", folder |-> 0, token |-> AclToken,
                   todo |-> {}, skip |-> FALSE]
      BY <1>19, Zenon DEF VeleroRestore, NoTask
    <3> QED
      BY <3>1, <1>a, <1>g DEF TaskSet, Steps
  <2>2. servers' \in [Servers -> [up : BOOLEAN, known : BOOLEAN]]
    BY <1>19, <1>b, Zenon DEF VeleroRestore
  <2>3. /\ cluster' = 2 /\ operatorUp' = FALSE
        /\ UNCHANGED <<consul, secret, backups, restores, incidents>>
    BY <1>19, Zenon DEF VeleroRestore, NewSite
  <2> QED
    <3>1. cluster' \in 1 .. 2
      BY <2>3
    <3>2. operatorUp' \in BOOLEAN
      BY <2>3, Zenon
    <3> QED
      BY <1>b, <2>1, <2>2, <2>3, <3>1, <3>2, Zenon DEF SiteTypes
<1> QED
  BY SiteNext, <1>1, <1>2, <1>3, <1>4, <1>5, <1>6, <1>7, <1>8, <1>9, <1>10, <1>11, <1>12,
     <1>13, <1>14, <1>15, <1>16, <1>17, <1>18, <1>19, Zenon DEF SiteNext

-----------------------------------------------------------------------------
(* The steps of the scripts keep their promises.                           *)

\* A step that leaves the script, the folders, the secret and the token of
\* Consul alone.
LEMMA ScriptFrame ==
    ASSUME ScriptInv, UNCHANGED <<task, backups, secret>>,
           consul'[Local].token = consul[Local].token
    PROVE  ScriptInv'
<1>1. BackupOpens' /\ BackupInProgress' /\ RestoreInProgress'
  BY DEF ScriptInv, BackupOpens, BackupInProgress, RestoreInProgress, Folder, OpenedBy, Saved
<1>2. RecoveryInProgress' /\ SecretOpens'
  BY Zenon DEF ScriptInv, RecoveryInProgress, SecretOpens, Restored
<1> QED
  BY <1>1, <1>2, Zenon DEF ScriptInv

\* A step after which no script runs, and none has just recovered the ACLs.
LEMMA ScriptOver ==
    ASSUME BackupOpens, UNCHANGED backups,
           \/ task'.pc = "failed"
           \/ task'.pc = "done" /\ (task'.kind # "restore" \/ task'.skip)
    PROVE  ScriptInv'
<1>1. BackupOpens'
  BY Zenon DEF BackupOpens, Saved
<1>2. task'.pc \in {"done", "failed"}
  BY Zenon
<1>3. BackupInProgress' /\ RestoreInProgress' /\ RecoveryInProgress'
  BY <1>2, Zenon DEF BackupInProgress, RestoreInProgress, RecoveryInProgress
<1>4. SecretOpens'
  BY Zenon DEF SecretOpens, Restored
<1> QED
  BY <1>1, <1>3, <1>4, Zenon DEF ScriptInv

\* A step of the recovery, after the snapshots: no folder changes, and the
\* token is still the one of the secret and, from the first request on, of
\* Consul.
LEMMA ScriptGoesOn ==
    ASSUME BackupOpens, UNCHANGED backups,
           task'.pc \in {"restart", "tokens", "agents", "auth", "auth2", "nodes", "pods"},
           RecoveryInProgress'
    PROVE  ScriptInv'
<1>1. BackupOpens'
  BY Zenon DEF BackupOpens, Saved
<1>2. BackupInProgress' /\ RestoreInProgress' /\ SecretOpens'
  BY Zenon DEF BackupInProgress, RestoreInProgress, SecretOpens, Restored
<1> QED
  BY <1>1, <1>2, Zenon DEF ScriptInv

\* What a script that stops leaves behind.
LEMMA StopFields ==
    /\ Exit => task'.pc = "failed"
    /\ Done => task'.pc = "done" /\ task'.kind = task.kind /\ task'.skip = task.skip
BY Zenon DEF Exit, Done, NoTask

\* What GoTo changes.
LEMMA GoToFields ==
    ASSUME NEW n, task \in TaskSet(n), NEW pc, GoTo(pc)
    PROVE  task'.pc = pc /\ task'.kind = task.kind /\ task'.token = task.token
BY Zenon DEF GoTo, TaskSet

\* The steps of a backup.
LEMMA BackupSteps ==
    ASSUME SiteTypes, ScriptInv,
           \/ \E dcs \in ToBackup : StartBackup(dcs)
           \/ \E d \in Datacenters : Snapshot(d)
           \/ CreateTokenFile
           \/ BackupToken
    PROVE  ScriptInv'
<1> DEFINE n == Len(backups)
           f == task.folder
<1>a. /\ n \in Nat /\ backups \in Seq(Folders)
      /\ task \in TaskSet(n)
      /\ consul \in [Datacenters -> Data]
      /\ f \in 0 .. n
  BY DEF SiteTypes, TaskSet
<1>b. BackupOpens /\ BackupInProgress
  BY Zenon DEF ScriptInv
<1>1. ASSUME NEW dcs \in ToBackup, StartBackup(dcs) PROVE ScriptInv'
  <2> DEFINE todo == IF dcs = {} THEN Datacenters ELSE dcs
             b == [want |-> todo, snap |-> NoSnapshots, token |-> NoToken]
  <2>1. todo \in SUBSET Datacenters
    BY RestoreAssumption, Zenon
  <2>2. backups' = Append(backups, b)
    BY <1>1, Zenon DEF StartBackup
  <2>3. task' = [kind |-> "backup", pc |-> "snapshot", folder |-> n + 1,
                 token |-> AclToken, todo |-> todo, skip |-> FALSE]
    BY <1>1, Zenon DEF StartBackup
  <2>4. b \in Folders
    BY <2>1, Zenon DEF Folders, NoSnapshots
  <2> HIDE DEF b
  <2>5. /\ Len(backups') = n + 1
        /\ backups'[n + 1] = b
        /\ \A i \in 1 .. n : backups'[i] = backups[i]
    BY <2>2, <2>4, <1>a
  <2>6. b.token = NoToken /\ b.want = todo /\ Saved(b) = {}
    BY Zenon DEF b, Saved, NoSnapshots
  <2>7. BackupOpens'
    BY <1>a, <1>b, <2>5, <2>6 DEF BackupOpens, Saved
  <2>8. Folder' = b /\ task'.todo = todo
    BY <2>3, <2>5, Zenon DEF Folder
  <2>9. BackupInProgress'
    <3>1. task'.pc = "snapshot" /\ task'.kind = "backup" /\ task'.folder # 0
      BY <2>3, <1>a
    <3>2. Folder'.token = NoToken /\ Folder'.want = Saved(Folder') \cup task'.todo
      BY <2>6, <2>8, Zenon
    <3>3. OpenedBy(Folder', task'.token)
      BY <2>6, <2>8, Zenon DEF OpenedBy
    <3> QED
      BY <3>1, <3>2, <3>3, Zenon DEF BackupInProgress, OpenedBy, Saved
  <2>10. RestoreInProgress' /\ RecoveryInProgress' /\ SecretOpens'
    BY <2>3, Zenon DEF RestoreInProgress, RecoveryInProgress, SecretOpens, Restored
  <2> QED
    BY <2>7, <2>9, <2>10, Zenon DEF ScriptInv
<1>2. ASSUME NEW d \in Datacenters, Snapshot(d) PROVE ScriptInv'
  <2> DEFINE b == [Folder EXCEPT !.snap[d] = consul[d]]
  <2>1. /\ task.kind = "backup" /\ f # 0
        /\ Folder.token = NoToken
        /\ Folder.want = Saved(Folder) \cup task.todo
        /\ \A x \in Saved(Folder) : Folder.snap[x].token = task.token
    BY <1>2, <1>b, Zenon DEF Snapshot, BackupInProgress, OpenedBy
  <2>2. f \in 1 .. n
    BY <2>1, <1>a
  <2>3. Folder \in Folders
    BY <2>2, <1>a DEF Folder
  <2>4. consul[d] \in Data /\ consul[d] # NoSnapshot /\ consul[d].token = task.token
    BY <1>2, <1>a, RestoreAssumption, Zenon DEF Snapshot, Answers
  <2>5. /\ b \in Folders
        /\ b.token = Folder.token /\ b.want = Folder.want
        /\ b.snap[d] = consul[d]
        /\ \A x \in Datacenters \ {d} : b.snap[x] = Folder.snap[x]
    BY <2>3, <2>4, Zenon DEF Folders
  <2>6. Saved(b) = Saved(Folder) \cup {d}
    BY <2>4, <2>5, Zenon DEF Saved
  <2>7. /\ task'.pc = "snapshot" /\ task'.kind = task.kind /\ task'.folder = f
        /\ task'.token = task.token /\ task'.todo = task.todo \ {d}
    BY <1>2, <1>a, Zenon DEF Snapshot, TaskSet
  <2>8. backups' = [backups EXCEPT ![f] = b]
    BY <1>2, Zenon DEF Snapshot, Folder
  <2> HIDE DEF b
  <2>9. /\ Len(backups') = n
        /\ backups'[f] = b
        /\ \A i \in 1 .. n \ {f} : backups'[i] = backups[i]
    BY <1>a, <2>2, <2>8
  <2>10. BackupOpens'
    BY <1>a, <1>b, <2>1, <2>5, <2>9 DEF BackupOpens, Saved
  <2>11. Folder' = b
    BY <2>7, <2>9, Zenon DEF Folder
  <2>12. BackupInProgress'
    <3>1. task'.pc = "snapshot" /\ task'.kind = "backup" /\ task'.folder # 0
      BY <2>1, <2>7, Zenon
    <3>2. Folder'.token = NoToken
      BY <2>1, <2>5, <2>11, Zenon
    <3>3. d \in task.todo
      BY <1>2, Zenon DEF Snapshot
    <3>4. Folder'.want = Saved(Folder') \cup task'.todo
      BY <2>1, <2>5, <2>6, <2>7, <2>11, <3>3, Zenon
    <3>5. \A x \in Saved(b) : b.snap[x].token = task.token
      BY <2>1, <2>4, <2>5, <2>6, Zenon DEF Saved
    <3> QED
      BY <3>1, <3>2, <3>4, <3>5, <2>7, <2>11, Zenon DEF BackupInProgress, OpenedBy, Saved
  <2>13. RestoreInProgress' /\ RecoveryInProgress' /\ SecretOpens'
    BY <2>7, Zenon DEF RestoreInProgress, RecoveryInProgress, SecretOpens, Restored
  <2> QED
    BY <2>10, <2>12, <2>13, Zenon DEF ScriptInv
<1>3. CASE CreateTokenFile \/ BackupToken
  <2>1. /\ task.kind = "backup" /\ f # 0 /\ task.todo = {}
        /\ Folder.want = Saved(Folder) \cup task.todo
        /\ \A x \in Saved(Folder) : Folder.snap[x].token = task.token
    BY <1>3, <1>b, Zenon DEF CreateTokenFile, BackupToken, BackupInProgress, OpenedBy
  <2>2. f \in 1 .. n
    BY <2>1, <1>a
  <2>3. Folder \in Folders
    BY <2>2, <1>a DEF Folder
  <2>4. PICK t \in {EmptyToken, task.token} :
            /\ backups' = [backups EXCEPT ![f] = [Folder EXCEPT !.token = t]]
            /\ CreateTokenFile \/ BackupToken
    BY <1>3, Zenon DEF CreateTokenFile, BackupToken, Folder
  <2> DEFINE b == [Folder EXCEPT !.token = t]
  <2>5. b.token = t /\ b.want = Folder.want /\ b.snap = Folder.snap
    BY <2>3, Zenon DEF Folders
  <2>6. /\ Saved(b) = b.want
        /\ \A x \in b.want : b.snap[x].token = task.token
    BY <2>1, <2>5, Zenon DEF Saved
  <2>7. \A x \in b.want : b.token \in {b.snap[x].token, EmptyToken}
    BY <2>4, <2>5, <2>6, Zenon
  <2>8. backups' = [backups EXCEPT ![f] = b]
    BY <2>4, Zenon
  <2> HIDE DEF b
  <2>9. /\ Len(backups') = n
        /\ backups'[f] = b
        /\ \A i \in 1 .. n \ {f} : backups'[i] = backups[i]
    BY <1>a, <2>2, <2>8
  <2>10. BackupOpens'
    BY <1>a, <1>b, <2>6, <2>7, <2>9 DEF BackupOpens, Saved
  <2>11. CASE CreateTokenFile
    <3>1. /\ task'.pc = "token" /\ task'.kind = "backup" /\ task'.folder = f
          /\ task'.token = task.token /\ task'.todo = {}
      BY <1>a, <2>1, <2>11, Zenon DEF CreateTokenFile, GoTo, TaskSet
    <3>2. Folder' = b
      BY <2>9, <3>1, Zenon DEF Folder
    <3>3. BackupInProgress'
      BY <2>1, <2>6, <3>1, <3>2, Zenon DEF BackupInProgress, OpenedBy, Saved
    <3>4. RestoreInProgress' /\ RecoveryInProgress' /\ SecretOpens'
      BY <3>1, Zenon DEF RestoreInProgress, RecoveryInProgress, SecretOpens, Restored
    <3> QED
      BY <2>10, <3>3, <3>4, Zenon DEF ScriptInv
  <2>12. CASE BackupToken
    <3>1. task'.pc = "done" /\ task'.kind = "backup"
      BY <2>1, <2>12, StopFields, Zenon DEF BackupToken
    <3>2. BackupInProgress' /\ RestoreInProgress' /\ RecoveryInProgress' /\ SecretOpens'
      BY <3>1, Zenon DEF BackupInProgress, RestoreInProgress, RecoveryInProgress, SecretOpens, Restored
    <3> QED
      BY <2>10, <3>2, Zenon DEF ScriptInv
  <2> QED
    BY <2>4, <2>11, <2>12, Zenon
<1> QED
  BY <1>1, <1>2, <1>3, Zenon

\* The steps of restore.py up to the token secret.
LEMMA RestoreSteps ==
    ASSUME SiteTypes, ScriptInv,
           \/ \E i \in 1 .. Len(backups), dcs \in ToRestore, skip \in BOOLEAN :
                 StartRestore(i, dcs, skip)
           \/ \E d \in Datacenters : PutSnapshot(d)
           \/ RestoreEnds
           \/ RestoreSecretData
    PROVE  ScriptInv'
<1> DEFINE n == Len(backups)
<1>a. n \in Nat /\ task \in TaskSet(n) /\ consul \in [Datacenters -> Data]
  BY DEF SiteTypes
<1>b. BackupOpens /\ RestoreInProgress
  BY Zenon DEF ScriptInv
<1>1. ASSUME NEW i \in 1 .. n, NEW dcs \in ToRestore, NEW skip \in BOOLEAN,
             StartRestore(i, dcs, skip)
      PROVE  ScriptInv'
  <2>1. UNCHANGED backups /\ task'.kind = "restore" /\ task'.folder = i /\ task'.skip = skip
    BY <1>1, Zenon DEF StartRestore
  <2>2. CASE task'.pc = "failed"
    BY <1>b, <2>1, <2>2, ScriptOver, Zenon
  <2>3. CASE task'.pc # "failed"
    <3>1. /\ task'.pc = "put" /\ (skip \/ ~Mismatch(backups[i], AclToken))
          /\ task'.token = AclToken /\ task'.todo # {}
      BY <1>1, <2>3, Zenon DEF StartRestore
    <3>2. skip \/ backups[i].token # NoToken \/ (task'.token = NoToken /\ task'.todo # {})
      BY <3>1, Zenon DEF Mismatch
    <3>3. BackupOpens'
      BY <1>b, <2>1, Zenon DEF BackupOpens, Saved
    <3>4. RestoreInProgress'
      BY <2>1, <3>2 DEF RestoreInProgress, Folder
    <3>5. BackupInProgress' /\ RecoveryInProgress' /\ SecretOpens'
      BY <3>1, Zenon DEF BackupInProgress, RecoveryInProgress, SecretOpens, Restored
    <3> QED
      BY <3>3, <3>4, <3>5, Zenon DEF ScriptInv
  <2> QED
    BY <2>2, <2>3, Zenon
<1>2. ASSUME NEW d \in Datacenters, PutSnapshot(d) PROVE ScriptInv'
  <2>1. /\ UNCHANGED backups
        /\ task'.pc = "put" /\ task'.kind = task.kind /\ task'.folder = task.folder
        /\ task'.skip = task.skip
    BY <1>2, <1>a, Zenon DEF PutSnapshot, TaskSet
  <2>2. BackupOpens'
    BY <1>b, <2>1, Zenon DEF BackupOpens, Saved
  <2>3. RestoreInProgress'
    <3>1. consul[d].token \in Tokens /\ consul[d].token = task.token
      BY <1>2, <1>a, Zenon DEF PutSnapshot, Answers, Data
    <3>2. task.skip \/ Folder.token # NoToken
      BY <1>2, <1>b, <3>1, RestoreAssumption, Zenon DEF RestoreInProgress, PutSnapshot
    <3> QED
      BY <1>2, <1>b, <2>1, <3>2, Zenon DEF RestoreInProgress, PutSnapshot, Folder
  <2>4. BackupInProgress' /\ RecoveryInProgress' /\ SecretOpens'
    BY <2>1, Zenon DEF BackupInProgress, RecoveryInProgress, SecretOpens, Restored
  <2> QED
    BY <2>2, <2>3, <2>4, Zenon DEF ScriptInv
<1>3. CASE RestoreEnds
  <2>1. UNCHANGED backups /\ task'.pc = "done" /\ task'.skip = task.skip
    BY <1>3, StopFields, Zenon DEF RestoreEnds
  <2>2. task.skip
    BY <1>3, <1>b, Zenon DEF RestoreEnds, RestoreInProgress
  <2> QED
    BY <1>b, <2>1, <2>2, ScriptOver, Zenon
<1>4. CASE RestoreSecretData
  <2>1. UNCHANGED backups /\ task'.token = secret' /\ task'.pc \in {"restart", "tokens"}
    BY <1>4, <1>a, Zenon DEF RestoreSecretData, TaskSet
  <2>2. RecoveryInProgress'
    BY <2>1, Zenon DEF RecoveryInProgress
  <2> QED
    BY <1>b, <2>1, <2>2, ScriptGoesOn, Zenon
<1> QED
  BY <1>1, <1>2, <1>3, <1>4, Zenon

\* The steps of the recovery after the secret, and of the post-restore hook.
LEMMA RecoverySteps ==
    ASSUME SiteTypes, ScriptInv,
           \/ RestartServers
           \/ CalculateServerTokens
           \/ \E s \in Servers : SetAgentToken(s)
           \/ UpdateAuthMethod
           \/ RestartIncorrectServers
           \/ RestartPods
    PROVE  ScriptInv'
<1> DEFINE n == Len(backups)
<1>a. /\ task \in TaskSet(n) /\ cluster \in 1 .. 2
      /\ consul \in [Datacenters -> Data]
      /\ Local \in Datacenters
  BY RestoreAssumption, Zenon DEF SiteTypes
<1>b. BackupOpens /\ RecoveryInProgress
  BY Zenon DEF ScriptInv
<1>1. CASE RestartServers
  <2>1. UNCHANGED <<backups, secret>> /\ task'.pc = "tokens" /\ task'.token = task.token
    BY <1>1, <1>a, GoToFields, Zenon DEF RestartServers
  <2>2. RecoveryInProgress'
    BY <1>1, <1>b, <2>1, Zenon DEF RestartServers, RecoveryInProgress
  <2> QED
    BY <1>b, <2>1, <2>2, ScriptGoesOn, Zenon
<1>2. CASE CalculateServerTokens
  <2>1. UNCHANGED <<backups, secret, consul>> /\ task'.pc = "agents" /\ task'.token = task.token
    BY <1>2, <1>a, Zenon DEF CalculateServerTokens, TaskSet
  <2>2. task.token = secret /\ consul[Local].token = task.token
    BY <1>2, <1>b, Zenon DEF CalculateServerTokens, RecoveryInProgress, Answers
  <2>3. RecoveryInProgress'
    BY <2>1, <2>2, Zenon DEF RecoveryInProgress
  <2> QED
    BY <1>b, <2>1, <2>3, ScriptGoesOn, Zenon
<1>3. ASSUME NEW s \in Servers, SetAgentToken(s) PROVE ScriptInv'
  <2>1. /\ UNCHANGED <<backups, secret, consul>>
        /\ task'.pc \in {"agents", "auth"} /\ task'.kind = task.kind /\ task'.token = task.token
    BY <1>3, <1>a, Zenon DEF SetAgentToken, TaskSet
  <2>2. RecoveryInProgress'
    BY <1>3, <1>b, <2>1, Zenon DEF SetAgentToken, RecoveryInProgress
  <2> QED
    BY <1>b, <2>1, <2>2, ScriptGoesOn, Zenon
<1>4. CASE UpdateAuthMethod
  <2>1. UNCHANGED <<backups, secret>> /\ consul'[Local].token = consul[Local].token
    BY <1>4, <1>a, ConfiguredTypes, Zenon DEF UpdateAuthMethod, Methods
  <2>2. CASE Done /\ task.kind = "hook"
    BY <1>b, <2>1, <2>2, StopFields, ScriptOver, Zenon
  <2>3. CASE GoTo("auth2") \/ GoTo("nodes")
    <3>1. /\ task'.pc \in {"auth2", "nodes"} /\ task'.kind = task.kind
          /\ task'.token = task.token
      BY <1>a, <2>3, GoToFields, Zenon
    <3>2. RecoveryInProgress'
      BY <1>4, <1>b, <2>1, <3>1, Zenon DEF UpdateAuthMethod, RecoveryInProgress
    <3> QED
      BY <1>b, <2>1, <3>1, <3>2, ScriptGoesOn, Zenon
  <2> QED
    BY <1>4, <2>2, <2>3, Zenon DEF UpdateAuthMethod
<1>5. CASE RestartIncorrectServers
  <2>1. /\ UNCHANGED <<backups, secret, consul>>
        /\ task'.pc = "pods" /\ task'.kind = task.kind /\ task'.token = task.token
    BY <1>5, <1>a, GoToFields, Zenon DEF RestartIncorrectServers
  <2>2. RecoveryInProgress'
    BY <1>5, <1>b, <2>1, Zenon DEF RestartIncorrectServers, RecoveryInProgress
  <2> QED
    BY <1>b, <2>1, <2>2, ScriptGoesOn, Zenon
<1>6. CASE RestartPods
  <2>1. UNCHANGED <<backups, secret, consul>> /\ task'.pc = "done" /\ task'.kind = task.kind
    BY <1>6, StopFields, Zenon DEF RestartPods
  <2>2. task.pc = "pods"
    BY <1>6, Zenon DEF RestartPods
  <2>3. CASE task.kind = "restore"
    <3>1. SecretOpens'
      BY <1>b, <2>1, <2>2, <2>3, Zenon DEF RecoveryInProgress, SecretOpens
    <3>2. BackupOpens'
      BY <1>b, <2>1, Zenon DEF BackupOpens, Saved
    <3>3. BackupInProgress' /\ RestoreInProgress' /\ RecoveryInProgress'
      BY <2>1, Zenon DEF BackupInProgress, RestoreInProgress, RecoveryInProgress
    <3> QED
      BY <3>1, <3>2, <3>3, Zenon DEF ScriptInv
  <2>4. CASE task.kind # "restore"
    BY <1>b, <2>1, <2>4, ScriptOver, Zenon
  <2> QED
    BY <2>3, <2>4, Zenon
<1> QED
  BY <1>1, <1>2, <1>3, <1>4, <1>5, <1>6, Zenon

LEMMA SiteStepScripts ==
    ASSUME SiteTypes, ScriptInv, SiteNext
    PROVE  ScriptInv'
<1>a. BackupOpens
  BY Zenon DEF ScriptInv
<1>1. ASSUME NEW s \in Servers, ServerUp(s) \/ ServerStops(s) PROVE ScriptInv'
  BY <1>1, ScriptFrame, Zenon DEF ServerUp, ServerStops
<1>2. CASE ScriptDies \/ RequestFails \/ TimesOut
  <2>1. UNCHANGED backups /\ task'.pc = "failed"
    BY <1>2, StopFields, Zenon DEF ScriptDies, RequestFails, TimesOut
  <2> QED
    BY <1>a, <2>1, ScriptOver, Zenon
<1>3. CASE Reinstall
  <2>1. UNCHANGED backups /\ task'.pc = "done" /\ task'.kind = "none"
    BY <1>3, Zenon DEF Reinstall, NewSite, NoTask
  <2> QED
    BY <1>a, <2>1, ScriptOver, Zenon
<1>4. CASE VeleroRestore
  <2>1. UNCHANGED backups
    BY <1>4, Zenon DEF VeleroRestore, NewSite
  <2>2. task'.pc = "auth" /\ task'.kind = "hook"
    BY <1>4, Zenon DEF VeleroRestore, NoTask
  <2>3. RecoveryInProgress'
    BY <2>2, Zenon DEF RecoveryInProgress
  <2> QED
    BY <1>a, <2>1, <2>2, <2>3, ScriptGoesOn, Zenon
<1> QED
  BY SiteNext, <1>1, <1>2, <1>3, <1>4, BackupSteps, RestoreSteps, RecoverySteps, Zenon DEF SiteNext

-----------------------------------------------------------------------------
(* The operator and the users.                                             *)

\* The operator process, in every step.
LEMMA OpTypes ==
    ASSUME ProcessTypes, SiteTypes
    PROVE  /\ Starting \in [token : Tokens \cup {EmptyToken}, queue : SUBSET CRs, ensured : BOOLEAN]
           /\ Stopped \in [token : Tokens \cup {EmptyToken}, queue : SUBSET CRs, ensured : BOOLEAN]
           /\ \A c \in CRs : Enqueue(c) =>
                 op' \in [token : Tokens \cup {EmptyToken}, queue : SUBSET CRs, ensured : BOOLEAN]
<1> DEFINE Ops == [token : Tokens \cup {EmptyToken}, queue : SUBSET CRs, ensured : BOOLEAN]
<1>1. secret \in Tokens \cup {EmptyToken} /\ FirstToken \in Tokens
  BY RestoreAssumption, Zenon DEF SiteTypes
<1>2. Starting \in Ops
  BY <1>1, Zenon DEF Starting
<1>3. Stopped \in Ops
  BY <1>1, Zenon DEF Stopped
<1>4. ASSUME NEW c \in CRs, Enqueue(c) PROVE op' \in Ops
  BY <1>4, Zenon DEF Enqueue, ProcessTypes
<1> QED
  BY <1>2, <1>3, <1>4, Zenon

\* What the operator writes into Consul keeps its type and its token.
LEMMA AppliedTypes ==
    ASSUME SiteTypes, ProcessTypes, NEW c \in CRs,
           consul' = [consul EXCEPT ![Local].applied[c] = gen[c]]
    PROVE  /\ consul' \in [Datacenters -> Data]
           /\ consul'[Local].token = consul[Local].token
<1>1. consul \in [Datacenters -> Data] /\ Local \in Datacenters /\ gen[c] \in Nat
  BY RestoreAssumption, Zenon DEF SiteTypes, ProcessTypes
<1> DEFINE x == [consul[Local] EXCEPT !.applied[c] = gen[c]]
<1>2. x \in Data /\ x.token = consul[Local].token
  BY <1>1, Zenon DEF Data
<1>3. consul' = [consul EXCEPT ![Local] = x]
  BY Zenon
<1> HIDE DEF x
<1> QED
  BY <1>1, <1>2, <1>3, Zenon

\* The inductive step: one case per actor.
LEMMA InvStep == IInv /\ [Next]_vars => IInv'
<1> SUFFICES ASSUME IInv, [Next]_vars PROVE IInv'
  BY Zenon
<1>a. SiteTypes /\ ProcessTypes /\ ScriptInv
  BY TypeHalves, Zenon DEF IInv, ScriptInv
<1>b. BackupInProgress /\ RestoreInProgress
  BY <1>a, Zenon DEF ScriptInv
<1>c. SUFFICES SiteTypes' /\ ProcessTypes' /\ ScriptInv'
  <2>1. TypeOK' <=> SiteTypes' /\ ProcessTypes'
    BY Zenon DEF TypeOK, SiteTypes, ProcessTypes, TaskSet
  <2> QED
    BY <2>1, Zenon DEF IInv, ScriptInv
<1>1. CASE SiteStep
  <2>1. SiteTypes' /\ ScriptInv'
    BY <1>1, <1>a, <1>b, SiteStepTypes, SiteStepScripts, Zenon DEF SiteStep
  <2> QED
    BY <1>1, <1>a, <2>1, OpTypes, Zenon DEF SiteStep, ProcessTypes
<1>2. CASE OperatorStart
  <2>1. SiteTypes' /\ ScriptInv'
    BY <1>2, <1>a, ScriptFrame, Zenon DEF OperatorStart, SiteTypes
  <2> QED
    BY <1>2, <1>a, <2>1, OpTypes, Zenon DEF OperatorStart, ProcessTypes
<1>3. CASE OperatorStops
  <2>1. SiteTypes' /\ ScriptInv'
    <3>1. incidents' \in Nat
      BY <1>3, <1>a DEF OperatorStops, SiteTypes, Incident
    <3>2. operatorUp' \in BOOLEAN
      BY <1>3, Zenon DEF OperatorStops
    <3> QED
      BY <1>3, <1>a, <3>1, <3>2, ScriptFrame, Zenon DEF OperatorStops, SiteTypes
  <2> QED
    BY <1>3, <1>a, <2>1, OpTypes, Zenon DEF OperatorStops, ProcessTypes
<1>4. CASE EnsureApplicationsAuthMethod
  <2>1. consul' \in [Datacenters -> Data] /\ consul'[Local].token = consul[Local].token
    BY <1>4, <1>a, ConfiguredTypes, RestoreAssumption, Zenon
    DEF EnsureApplicationsAuthMethod, SiteTypes, Methods
  <2>2. SiteTypes' /\ ScriptInv'
    BY <1>4, <1>a, <2>1, ScriptFrame, Zenon DEF EnsureApplicationsAuthMethod, SiteTypes
  <2> QED
    BY <1>4, <1>a, <2>2, Zenon DEF EnsureApplicationsAuthMethod, ProcessTypes
<1>5. ASSUME NEW c \in CRs, Reconcile(c)
      PROVE  SiteTypes' /\ ProcessTypes' /\ ScriptInv'
  <2>1. consul' \in [Datacenters -> Data] /\ consul'[Local].token = consul[Local].token
    BY <1>5, <1>a, AppliedTypes, Zenon DEF Reconcile, SiteTypes
  <2>2. SiteTypes' /\ ScriptInv'
    BY <1>5, <1>a, <2>1, ScriptFrame, Zenon DEF Reconcile, SiteTypes
  <2> QED
    BY <1>5, <1>a, <2>2, Zenon DEF Reconcile, ProcessTypes
<1>6. ASSUME NEW c \in CRs, UserEdits(c)
      PROVE  SiteTypes' /\ ProcessTypes' /\ ScriptInv'
  <2>1. SiteTypes' /\ ScriptInv'
    BY <1>6, <1>a, ScriptFrame DEF UserEdits, SiteTypes, Incident
  <2>2. gen' \in [CRs -> Nat]
    BY <1>6, <1>a DEF UserEdits, ProcessTypes
  <2> QED
    BY <1>6, <1>a, <2>1, <2>2, OpTypes, Zenon DEF UserEdits, ProcessTypes
<1>7. CASE UNCHANGED vars
  <2>1. SiteTypes' /\ ScriptInv'
    BY <1>7, <1>a, ScriptFrame, Zenon DEF vars, siteVars, SiteTypes
  <2> QED
    BY <1>7, <1>a, <2>1, Zenon DEF vars, ProcessTypes
<1> QED
  BY <1>1, <1>2, <1>3, <1>4, <1>5, <1>6, <1>7, Zenon DEF Next, OperatorStep

LEMMA InitInv == Init => IInv
<1> SUFFICES ASSUME Init PROVE IInv
  BY Zenon
<1>1. SiteInit /\ gen = [c \in CRs |-> 1] /\ op = Starting
  BY Zenon DEF Init
<1>2. FirstToken \in Tokens /\ Local \in Datacenters
  BY RestoreAssumption, Zenon
<1>3. SiteTypes
  <2>1. consul \in [Datacenters -> Data]
    BY <1>1, <1>2, FreshTypes DEF SiteInit
  <2>2. backups = <<>> /\ backups \in Seq(Folders) /\ Len(backups) = 0
    BY <1>1 DEF SiteInit
  <2>3. task \in TaskSet(0)
    BY <1>1 DEF SiteInit, NoTask, TaskSet, Steps
  <2>4. servers \in [Servers -> [up : BOOLEAN, known : BOOLEAN]] /\ operatorUp \in BOOLEAN
    BY <1>1, Zenon DEF SiteInit
  <2>5. cluster \in 1 .. 2 /\ secret \in Tokens \cup {EmptyToken} /\ restores \in Nat /\ incidents \in Nat
    BY <1>1, <1>2 DEF SiteInit
  <2> QED
    BY <2>1, <2>2, <2>3, <2>4, <2>5, Zenon DEF SiteTypes
<1>4. ProcessTypes
  <2>1. gen \in [CRs -> Nat]
    BY <1>1
  <2>2. op \in [token : Tokens \cup {EmptyToken}, queue : SUBSET CRs, ensured : BOOLEAN]
    BY <1>1, <1>3, Zenon DEF Starting, SiteTypes
  <2> QED
    BY <2>1, <2>2, Zenon DEF ProcessTypes
<1>5. ScriptInv
  <2>1. backups = <<>> /\ task.pc = "done" /\ task.kind = "none"
    BY <1>1, Zenon DEF SiteInit, NoTask
  <2>2. BackupOpens
    BY <2>1 DEF BackupOpens
  <2> QED
    BY <2>1, <2>2, Zenon DEF ScriptInv, BackupInProgress, RestoreInProgress, RecoveryInProgress,
                      SecretOpens, Restored
<1> QED
  BY <1>3, <1>4, <1>5, TypeHalves, Zenon DEF IInv, ScriptInv

\* The inductive invariant of the recovery.
LEMMA Inductive == Spec => []IInv
BY InitInv, InvStep, PTL DEF Spec

-----------------------------------------------------------------------------
(* The theorems.                                                           *)

\* Every variable keeps its type, however many scripts die and whatever is
\* restored over whatever; in particular the secret holds a token or, after
\* the restore of an empty .token, nothing.
THEOREM RecoveryTypes == Spec => []TypeOK
<1>1. IInv => TypeOK
  BY Zenon DEF IInv
<1> QED
  BY <1>1, Inductive, PTL

\* A folder with a .token is a whole backup, and the token opens it if the
\* file is not empty: a backup.py that dies, or is refused by one of its
\* datacenters, leaves none.
THEOREM BackupsOpen == Spec => []BackupOpens
<1>1. IInv => BackupOpens
  BY Zenon DEF IInv
<1> QED
  BY <1>1, Inductive, PTL

\* A restore.py with ACL recovery ends well only with the token of the data
\* it restored in the secret, whatever folder, datacenters and token it was
\* started with and whatever failed before.
THEOREM SecretsOpen == Spec => []SecretOpens
<1>1. IInv => SecretOpens
  BY Zenon DEF IInv
<1> QED
  BY <1>1, Inductive, PTL
=============================================================================
