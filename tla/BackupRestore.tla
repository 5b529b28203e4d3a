--------------------------- MODULE BackupRestore ---------------------------
(***************************************************************************)
(* The scripts the backup daemon runs (backup-daemon/scripts): backup.py   *)
(* takes a snapshot of each datacenter and notes the bootstrap token;      *)
(* restore.py puts the snapshots back and recovers what does not fit the   *)
(* cluster any more: the token secret, the agent tokens of the servers,    *)
(* the Kubernetes auth methods and the pods that hold an old token;        *)
(* velero_utils.py updates the auth methods after a Velero restore.        *)
(*                                                                         *)
(* One action is one request, poll or command.  A script may die at any    *)
(* step; a request is refused if Consul has no leader or if the token is   *)
(* not the one its data was created with.                                  *)
(***************************************************************************)
EXTENDS Naturals, Sequences, FiniteSets

CONSTANTS
    Datacenters,
    Local,        \* the datacenter of this installation
    ToBackup,     \* sets of datacenters a backup may be asked for; {} means all
    ToRestore,    \* sets of datacenters a restore may be asked for; {} means all
    Servers,      \* Consul servers of the local datacenter
    Tokens,       \* bootstrap tokens
    FirstToken,   \* the token of the first installation
    NoToken,      \* no token: a folder without .token, a script without ACLs
    EmptyToken,   \* the content of an empty .token, or of an empty secret
    NoSnapshot,   \* no snapshot.gz of a datacenter
    CRs,          \* ConsulACL resources
    MaxBackups,   \* bound on backups
    MaxRestores,  \* bound on restores
    MaxIncidents  \* bound on failures and edits

\* connect and component are the Kubernetes auth methods, m2m is
\* applications-k8s-m2m; a method works for the cluster it was configured for.
Methods == {"connect", "component", "m2m"}

Data == [token : Tokens, home : 1 .. 2, methods : [Methods -> 0 .. 2], applied : [CRs -> Nat]]

ASSUME RestoreAssumption ==
    /\ Local \in Datacenters
    /\ IsFiniteSet(Datacenters)
    /\ ToBackup \cup ToRestore \subseteq SUBSET Datacenters
    /\ IsFiniteSet(Servers)
    /\ FirstToken \in Tokens
    /\ NoToken \notin Tokens
    /\ EmptyToken \notin Tokens \cup {NoToken}
    /\ NoSnapshot \notin Data
    /\ MaxBackups \in Nat
    /\ MaxRestores \in Nat
    /\ MaxIncidents \in Nat

VARIABLES
    cluster,     \* which Kubernetes installation this is; 2 after a disaster
    consul,      \* what the Consul servers of a datacenter hold
    servers,     \* the server pods
    secret,      \* the bootstrap token secret
    backups,     \* backup folders
    task,        \* the script that runs
    restores,    \* number of restores so far
    operatorUp,  \* the pod of the ACL configurator operator
    incidents

siteVars == <<cluster, consul, servers, secret, backups, task, restores, operatorUp, incidents>>

\* The data of a fresh installation.
Fresh(t, n) ==
    [token |-> t, home |-> n,
     methods |-> [m \in Methods |-> IF m = "m2m" THEN 0 ELSE n],
     applied |-> [c \in CRs |-> 0]]

NoTask == [kind |-> "none", pc |-> "done", folder |-> 0, token |-> NoToken,
           todo |-> {}, skip |-> FALSE]

SiteInit ==
    /\ cluster = 1
    /\ secret = FirstToken
    /\ consul = [d \in Datacenters |-> Fresh(FirstToken, 1)]
    /\ servers = [s \in Servers |-> [up |-> TRUE, known |-> TRUE]]
    /\ backups = <<>>
    /\ task = NoTask
    /\ restores = 0
    /\ operatorUp = TRUE
    /\ incidents = 0

-----------------------------------------------------------------------------
(* Consul and Kubernetes, as the scripts see them.                         *)

Leader == 2 * Cardinality({s \in Servers : servers[s].up}) > Cardinality(Servers)

\* A request with token t for datacenter d is accepted.
Answers(d, t) == Leader /\ consul[d].token = t

Incident ==
    /\ incidents < MaxIncidents
    /\ incidents' = incidents + 1

\* A server pod is up again.
ServerUp(s) ==
    /\ ~servers[s].up
    /\ servers' = [servers EXCEPT ![s].up = TRUE]
    /\ UNCHANGED <<cluster, consul, secret, backups, task, restores, operatorUp, incidents>>

\* A server pod is lost.
ServerStops(s) ==
    /\ servers[s].up
    /\ Incident
    /\ servers' = [servers EXCEPT ![s].up = FALSE]
    /\ UNCHANGED <<cluster, consul, secret, backups, task, restores, operatorUp>>

-----------------------------------------------------------------------------
(* backup.py, and what the scripts have in common.                         *)

\* The token file of the daemon.  The kubelet updates it some time after the
\* secret; a script that starts in between has its requests refused.  An
\* empty file counts as an installation without ACLs.
AclToken == IF secret = EmptyToken THEN NoToken ELSE secret

Running == task.pc \notin {"done", "failed"}

\* sys.exit(1), or an exception.
Exit == task' = [NoTask EXCEPT !.kind = task.kind, !.pc = "failed"]

GoTo(pc) == task' = [task EXCEPT !.pc = pc]

\* The script ends well.
Done == task' = [NoTask EXCEPT !.kind = task.kind, !.skip = task.skip]

\* An exception, or the daemon's pod is stopped.
ScriptDies ==
    /\ Running
    /\ Incident
    /\ Exit
    /\ UNCHANGED <<cluster, consul, servers, secret, backups, restores, operatorUp>>

NoSnapshots == [d \in Datacenters |-> NoSnapshot]

\* Mutant of StartBackup: the token is noted before the snapshots are taken.
TokenFirst(dcs) ==
    LET todo == IF dcs = {} THEN Datacenters ELSE dcs
    IN  /\ ~Running
        /\ Len(backups) < MaxBackups
        /\ backups' = Append(backups, [want |-> todo, snap |-> NoSnapshots, token |-> AclToken])
        /\ task' = [kind |-> "backup", pc |-> "snapshot", folder |-> Len(backups) + 1,
                    token |-> AclToken, todo |-> todo, skip |-> FALSE]
        /\ UNCHANGED <<cluster, consul, servers, secret, restores, operatorUp, incidents>>

StartBackup(dcs) ==
    LET todo == IF dcs = {} THEN Datacenters ELSE dcs
    IN  /\ ~Running
        /\ Len(backups) < MaxBackups
        /\ backups' = Append(backups, [want |-> todo, snap |-> NoSnapshots, token |-> NoToken])
        /\ task' = [kind |-> "backup", pc |-> "snapshot", folder |-> Len(backups) + 1,
                    token |-> AclToken, todo |-> todo, skip |-> FALSE]
        /\ UNCHANGED <<cluster, consul, servers, secret, restores, operatorUp, incidents>>

Folder == backups[task.folder]

\* The datacenters a folder has a snapshot of.
Saved(b) == {d \in Datacenters : b.snap[d] # NoSnapshot}

Snapshot(d) ==
    /\ task.pc = "snapshot"
    /\ d \in task.todo
    /\ Answers(d, task.token)
    /\ backups' = [backups EXCEPT ![task.folder].snap[d] = consul[d]]
    /\ task' = [task EXCEPT !.todo = @ \ {d}]
    /\ UNCHANGED <<cluster, consul, servers, secret, restores, operatorUp, incidents>>

\* backup_acl_token, the last steps of a backup: .token is created, and then
\* written.
CreateTokenFile ==
    /\ task.pc = "snapshot"
    /\ task.todo = {}
    /\ task.token # NoToken
    /\ backups' = [backups EXCEPT ![task.folder].token = EmptyToken]
    /\ GoTo("token")
    /\ UNCHANGED <<cluster, consul, servers, secret, restores, operatorUp, incidents>>

BackupToken ==
    /\ task.pc = "token"
    /\ backups' = [backups EXCEPT ![task.folder].token = task.token]
    /\ Done
    /\ UNCHANGED <<cluster, consul, servers, secret, restores, operatorUp, incidents>>

-----------------------------------------------------------------------------
(* restore.py.                                                             *)

\* The backup was taken with ACLs and the installation has none, or the
\* other way round (or the backup did not get as far as its token).
Mismatch(b, t) == (b.token = NoToken) # (t = NoToken)

\* dcs are the datacenters of the request; none means all the folder has.
StartRestore(i, dcs, skip) ==
    LET todo == IF dcs = {} THEN Saved(backups[i]) ELSE dcs
        refused == (~skip /\ Mismatch(backups[i], AclToken)) \/ todo = {}
    IN  /\ ~Running
        /\ restores < MaxRestores
        /\ restores' = restores + 1
        /\ task' = [kind |-> "restore", pc |-> IF refused THEN "failed" ELSE "put",
                    folder |-> i, token |-> AclToken,
                    todo |-> IF refused THEN {} ELSE todo, skip |-> skip]
        /\ UNCHANGED <<cluster, consul, servers, secret, backups, operatorUp, incidents>>

\* The servers of another installation are unknown to the data of this one:
\* their agent tokens are not in it.
Recognised(d, x) ==
    [s \in Servers |-> [servers[s] EXCEPT !.known = @ /\ (d = Local => x.home = cluster)]]

PutSnapshot(d) ==
    /\ task.pc = "put"
    /\ d \in task.todo \cap Saved(Folder)
    /\ Answers(d, task.token)
    /\ consul' = [consul EXCEPT ![d] = Folder.snap[d]]
    /\ servers' = Recognised(d, Folder.snap[d])
    /\ task' = [task EXCEPT !.todo = @ \ {d}]
    /\ UNCHANGED <<cluster, secret, backups, restores, operatorUp, incidents>>

\* A snapshot request is refused, or a snapshot to restore is not there.
RequestFails ==
    /\ task.pc \in {"snapshot", "put"}
    /\ \E d \in task.todo :
        ~(Answers(d, task.token) /\ (task.pc = "put" => d \in Saved(Folder)))
    /\ Exit
    /\ UNCHANGED <<cluster, consul, servers, secret, backups, restores, operatorUp, incidents>>

\* All snapshots are in place, and security is not recovered.
RestoreEnds ==
    /\ task.pc = "put"
    /\ task.todo = {}
    /\ task.skip \/ Folder.token = NoToken
    /\ Done
    /\ UNCHANGED <<cluster, consul, servers, secret, backups, restores, operatorUp, incidents>>

\* Mutant of RestoreSecretData: the old secret is kept.
SecretKept ==
    /\ task.pc = "put"
    /\ task.todo = {}
    /\ ~task.skip /\ Folder.token # NoToken
    /\ secret' = secret
    /\ task' = [task EXCEPT !.token = Folder.token,
                            !.pc = IF Folder.token \in {secret, EmptyToken}
                                    THEN "tokens" ELSE "restart"]
    /\ UNCHANGED <<cluster, consul, servers, backups, restores, operatorUp, incidents>>

\* Mutant of RestoreSecretData: skip_acl_recovery is not asked.
SecretAlways ==
    /\ task.pc = "put"
    /\ task.todo = {}
    /\ secret' = Folder.token
    /\ task' = [task EXCEPT !.token = Folder.token,
                            !.pc = IF Folder.token \in {secret, EmptyToken}
                                    THEN "tokens" ELSE "restart"]
    /\ UNCHANGED <<cluster, consul, servers, backups, restores, operatorUp, incidents>>

\* The secret gets the token of the backup, which the later requests use.
\* recover_consul restarts the servers only if it is told a new token, and an
\* empty one is none.
RestoreSecretData ==
    /\ task.pc = "put"
    /\ task.todo = {}
    /\ ~task.skip /\ Folder.token # NoToken
    /\ secret' = Folder.token
    /\ task' = [task EXCEPT !.token = Folder.token,
                            !.pc = IF Folder.token \in {secret, EmptyToken}
                                    THEN "tokens" ELSE "restart"]
    /\ UNCHANGED <<cluster, consul, servers, backups, restores, operatorUp, incidents>>

RestartServers ==
    /\ task.pc = "restart"
    /\ servers' = [s \in Servers |-> [servers[s] EXCEPT !.up = FALSE]]
    /\ GoTo("tokens")
    /\ UNCHANGED <<cluster, consul, secret, backups, restores, operatorUp, incidents>>

\* check_consul_leader and the poll that follows it are one wait here.
\* The tokens are listed; a token that a server needs and is not there is created.
CalculateServerTokens ==
    /\ task.pc = "tokens"
    /\ Answers(Local, task.token)
    /\ task' = [task EXCEPT !.pc = "agents", !.todo = Servers]
    /\ UNCHANGED <<cluster, consul, servers, secret, backups, restores, operatorUp, incidents>>

\* set-agent-token and leave on server s; an error of either is only logged.
SetAgentToken(s) ==
    /\ task.pc = "agents"
    /\ s \in task.todo
    /\ task' = [task EXCEPT !.todo = @ \ {s}, !.pc = IF task.todo = {s} THEN "auth" ELSE @]
    /\ \/ /\ Leader /\ servers[s].up
          /\ servers' = [servers EXCEPT ![s] = [up |-> FALSE, known |-> TRUE]]
          /\ UNCHANGED incidents
       \/ /\ Leader /\ servers[s].up
          /\ Incident
          /\ servers' \in {servers, [servers EXCEPT ![s].known = TRUE]}
       \/ /\ ~(Leader /\ servers[s].up)
          /\ UNCHANGED <<servers, incidents>>
    /\ UNCHANGED <<cluster, consul, secret, backups, restores, operatorUp>>

Configured(m) == [consul EXCEPT ![Local].methods[m] = cluster]

\* The second method follows the first; a post-restore hook ends with it.
UpdateAuthMethod ==
    /\ task.pc \in {"auth", "auth2"}
    /\ Answers(Local, task.token)
    /\ \/ /\ task.pc = "auth"
          /\ consul' = Configured("connect")
          /\ GoTo("auth2")
       \/ /\ task.pc = "auth2"
          /\ consul' = Configured("component")
          /\ IF task.kind = "hook" THEN Done ELSE GoTo("nodes")
    /\ UNCHANGED <<cluster, servers, secret, backups, restores, operatorUp, incidents>>

\* A server the catalog does not have with its address is restarted.
RestartIncorrectServers ==
    /\ task.pc = "nodes"
    /\ Answers(Local, task.token)
    /\ servers' = [s \in Servers |-> [servers[s] EXCEPT !.up = @ /\ servers[s].known]]
    /\ GoTo("pods")
    /\ UNCHANGED <<cluster, consul, secret, backups, restores, operatorUp, incidents>>

\* A poll ends without success, or the nodes cannot be read.
TimesOut ==
    /\ \/ task.pc = "pods" /\ ~Leader
       \/ task.pc \in {"tokens", "auth", "auth2", "nodes"} /\ ~Answers(Local, task.token)
    /\ Exit
    /\ UNCHANGED <<cluster, consul, servers, secret, backups, restores, operatorUp, incidents>>

\* Mutant of RestartPods: the pods with restore-policy keep running.
PodsKept ==
    /\ task.pc = "pods"
    /\ Leader
    /\ Done
    /\ UNCHANGED <<cluster, consul, servers, secret, backups, restores, operatorUp, incidents>>

\* The pods with restore-policy: restart are deleted, the operator's among them.
RestartPods ==
    /\ task.pc = "pods"
    /\ Leader
    /\ operatorUp' = FALSE
    /\ Done
    /\ UNCHANGED <<cluster, consul, servers, secret, backups, restores, incidents>>

-----------------------------------------------------------------------------
(* Disasters: the installation is replaced once.                           *)

NewSite ==
    /\ cluster = 1
    /\ cluster' = 2
    /\ operatorUp' = FALSE
    /\ UNCHANGED <<backups, restores, incidents>>

\* Consul is installed anew, without its data, and makes a new token.
Reinstall ==
    /\ NewSite
    /\ \E t \in Tokens \ {consul[Local].token} :
        /\ secret' = t
        /\ consul' = [d \in Datacenters |-> Fresh(t, 2)]
    /\ servers' = [s \in Servers |-> [up |-> TRUE, known |-> TRUE]]
    /\ task' = NoTask

\* Velero brings the volumes and the secret back in another cluster, and
\* runs post_restore of velero_utils.py.
VeleroRestore ==
    /\ NewSite
    /\ servers' = [s \in Servers |-> [up |-> FALSE, known |-> servers[s].known]]
    /\ task' = [NoTask EXCEPT !.kind = "hook", !.pc = "auth", !.token = AclToken]
    /\ UNCHANGED <<consul, secret>>

SiteNext ==
    \/ \E s \in Servers : ServerUp(s) \/ ServerStops(s) \/ SetAgentToken(s)
    \/ ScriptDies
    \/ \E dcs \in ToBackup : StartBackup(dcs)
    \/ \E d \in Datacenters : Snapshot(d) \/ PutSnapshot(d)
    \/ CreateTokenFile
    \/ BackupToken
    \/ \E i \in 1 .. Len(backups), dcs \in ToRestore, skip \in BOOLEAN :
          StartRestore(i, dcs, skip)
    \/ RequestFails
    \/ RestoreEnds
    \/ RestoreSecretData
    \/ RestartServers
    \/ CalculateServerTokens
    \/ UpdateAuthMethod
    \/ RestartIncorrectServers
    \/ TimesOut
    \/ RestartPods
    \/ Reinstall
    \/ VeleroRestore
=============================================================================
