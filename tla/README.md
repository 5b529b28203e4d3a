# A formal model of qubership-consul

TLA+ modules for the programs of this repository that change shared state: the
ConsulKV and ConsulACL controllers of the ACL configurator operator, the disaster
recovery daemon, the backup and restore scripts, and the remove-tokens job. TLC checks them on small instances; TLAPS proves the main safety
properties of each of them for every value of the constants.

Paths below are relative to `src/`; `operator/` stands for
`acl-configurator/consul-acl-configurator-operator/`.

## 1. The system

| Part | Source | State it changes | Module |
|---|---|---|---|
| ConsulKV controller | `operator/controllers/consulkv_controller.go` | Consul KV store (value and `Flags`), finalizer and status of ConsulKV resources | `ConsulKV` |
| ConsulACL controller | `operator/controllers/consulacl_controller.go` | ACL policies, roles, binding rules (with the owner list in the description), finalizer and status of ConsulACL resources | `ConsulACL` |
| Updates of custom resources | `operator/util/cr_updater.go` | custom resources, with conflicts and retries | `KubeAPI` and both controllers |
| Applications auth method | `consulacl_controller.go`, `EnsureApplicationsAuthMethodWithRetry` | one auth method | `EnsureAuthMethod` of `ConsulACL`, `EnsureApplicationsAuthMethod` of `Recovery` |
| Operator start-up, ownership of resources | `operator/main.go`, `operator/controllers/ownership.go` | none of its own | `OperatorScope`; the process is part of `Recovery` |
| REST trigger | `acl-configurator/rest-acl-configurator/cmd/main.go` | none: every update it sends is answered with 404 | not modelled, see section 5 |
| Disaster recovery daemon | `disaster-recovery/main.go`, `clients/` | mode and status in the config map, replicas of the backup daemon, backup and restore tasks | `DisasterRecovery` |
| Remove-tokens job | `remove-tokens/remove-tokens.go` | ACL tokens of client pods | `RemoveTokens` |
| Backup and restore scripts | `backup-daemon/scripts/` | snapshots, bootstrap token secret, pods | `BackupRestore`; one task of the backup daemon in `DisasterRecovery` |
| Helm chart, CRD tools, tests | `charts/`, `operator/api`, `integration-tests/` | none at run time | not modelled |

How the parts interact:

- Users write custom resources. A controller learns of them through its informer
  cache, and writes to Consul and back to the status of the resource. The cache may
  lag behind the API server, also behind the controller's own status update.
- Several operators (one per site or namespace set) share one Consul KV store. They
  meet only in the `Flags` of a key and in Consul's check-and-set.
- Applications use the same KV store and do not know about `Flags`.
- The sites of a disaster recovery scheme share only the storage of the backups.
- A restore replaces the data of Consul, its tokens included, under the operator, which
  read its token when it started.
- The remove-tokens job and the client pods meet only in the list of tokens.

What is hard here: several writers on one counter; a read and a write with other
requests in between; batches of which some commit; a commit whose record in the
status is lost; caches that lag; deletions driven by owner lists; polls that end
in a timeout; requests that are sent again after a lost reply. `PROJECT.json` lists
each hazard with its line and the properties that cover it.

## 2. The modules

`KubeAPI` is what a controller sees of Kubernetes: the stored resources (`api`), the
informer cache (`view`), the work queue with the predicates of `SetupWithManager`,
and the bounds on user steps (`edits`) and failures (`faults`). `Publish` is a
write to the API server, `Deliver` the watch event that brings the cache up to
date. With `"staleCache"` not in `Faults`, cache and server are always equal.
`UpToDate` stands for the fresh read and the update of `updateWithRetry`: both go
through the same cache, so an update conflicts while the cache lags.

`ConsulKV` splits a reconcile at each request: `Start`, `AddFinalizer`, then for
each transaction `OpenChunk`, one `ReadKey` per key, and `Commit` or `Reject`
(`applyKVEntries`, `writeKVChunk`, `deleteKVBatch`, `deleteKVChunk`), then
`UpdateStatus`. Deletion goes through the same chunks and ends in
`RemoveFinalizer`, or in `UpdatePartial` when only some keys were released;
`PurgeKey` and `PurgeTree` are `deleteKVTree`. Failures are actions of their own:
`RequestFails`, `ReplyLost`, `UpdateFails`, `PurgeFails`, `Crash`. The abstractions
are:

- a chunk is any set of at most `BatchSize` keys, which covers every order of entries;
- `ModifyIndex` is only ever compared for equality, so `stale[c]` holds the keys
  whose index moved since the reconcile of `c` read them;
- the status entries of one key are one record; `dup` says that a "skipped" entry of
  the same key comes first;
- whether a key is a prefix of another one is the constant `Tree`.

`ConsulACL` goes through the stages of `applyACL` (policies, roles, rules, legacy
rules, stale rules, roles and policies, status) and of `deleteAclEntities`. Within a
stage the entities are handled one by one: `ApplyEntity`, `ApplyFails`,
`ReleaseEntity`; `LeaveStage` goes on and `StageFails` is an error that ends the
stage. Leader election and one worker leave one reconcile at a time, and no other
program writes these entities, so the read and the write of one entity are one
step. A description is the set of namespaces it lists. Users, the cache, the
start-up task and restarts interleave with all steps. An entry that sets an ID
(`WithID`) is written by the ID: the entity must exist, and the answer for an ID that
Consul does not know has status 500, which `isRetryable` takes for a transient failure.
The ID is the one of the entity with the name of the entry.

`DisasterRecovery` is `drFunction` on two sites, one action per request or poll:
`CheckReady`, `Scale`, `WaitScale`, `PostBackup`, `WaitBackup`, `PostRestore`,
`NothingToRestore`, `WaitRestore`, `CheckReadyAgain`, `TimesOut`, `StepFails`, and
`NoAnswer`, a request to the backup daemon that never returns.
External parts, modelled from how the code uses them, are the controller that calls
`drFunction` and reports (`Start`, `Report`), the deployment (`FollowScale`) and the
backup daemon (`RunTask`, `DaemonRestart`, `ScheduledBackup`). The data of a site is
the set of the writes it contains; a snapshot copies it, and a restore replaces it. No
code keeps clients from writing, and a standby site accepts them as well
(`docs/public/disaster-recovery.md`, line 269), so `Put` writes to any site at any time.
`due` is a history variable: what a site held in service when it was switched. A 404 for
an unknown restore counts as completed only if its body can be parsed; `TimesOut` is the
other case. Users follow the documented procedure
(`docs/public/disaster-recovery.md`): one switch after the other, and a site becomes
active when the other one is out of service (`Switch`), unless the other one is lost
(`Failover`).

`RemoveTokens` is one run of the job after the other: `WaitForLeader`,
`GetLiveConsulPods`, `FetchConsulTokens`, one `DeleteToken` per token, `EndJob`. Pods
initialise, log in (several times if a later init container fails), run and stop at
any moment. The number of a token is both its accessor and its creation time.

`KeyOwnership` is the abstract specification of `ConsulKV`: a resource joins or leaves the
owners of some keys in one step, and there are no counters, batches or reconciles.
`ConsulKV` implements it with the owners of a key mapped to the resources that hold it
(`Holders`), a commit counting at once; `ImplementsOwnership` is the property.

`OperatorScope` has the ownership predicate of the controllers and the cache filter of
`main.go`; the ConsulKV runs take the assignment of resources to operators from it.
`OwnedBy` gives each resource one operator. That is what the code does with strict
validation, or for a resource that names its operator (theorem `SingleOwner`). Otherwise
every operator that watches the namespace processes the resource
(`docs/public/acl-configurator.md`, line 173); two operators on one resource are not
modelled.

`BackupRestore` is the two scripts and the Velero hook, one action per request, poll or
command: `StartBackup`, `Snapshot`, `CreateTokenFile`, `BackupToken`; `StartRestore`,
`PutSnapshot`, `RestoreSecretData`, `RestartServers`, `CalculateServerTokens`,
`SetAgentToken`, `UpdateAuthMethod`, `RestartIncorrectServers`, `RestartPods`.
`RequestFails`, `TimesOut` and `ScriptDies` are their failures; servers stop and come back;
once the installation is replaced (`Reinstall`, `VeleroRestore`). `.token` is created and
then written, as `open` and `write` do; a script that dies in between leaves an empty file
(`EmptyToken`), which `restore.py` takes for a token and writes into the secret, and an
empty secret looks to the scripts like an installation without ACLs. `Recovery` composes
the scripts with the operator process and the users, who edit resources. The abstractions
are:

- the installation has ACLs, and there is one disaster;
- the token file of the backup daemon follows the secret at once (a script that starts
  before it does has its requests refused);
- `check_consul_leader` and the poll that follows it are one wait;
- the data of a datacenter is its token, the cluster it was created in, the cluster each
  auth method is configured for, and the generation applied of each resource;
- a reconciliation is one step; its requests are in `ConsulACL`.

`MC…` modules and `.cfg` files are the instances for TLC. `ConsulKVTypes`,
`ConsulKVInvariants`, `ConsulKVProofs`, `ConsulACLInvariant`, `ConsulACLProofs`,
`DisasterRecoveryProofs`, `RecoveryProofs` and `RemoveTokensProofs` hold the proofs; the two
theorems on `OperatorScope` are in `ConsulKVInvariants`. An operator commented as
"Mutant of X" is a plausible bug: put in place of X it breaks the property
`PROJECT.json` names, which shows that the property depends on that piece of code.

## 3. What is checked

| Run | Instance | Properties |
|---|---|---|
| `kv_two_operators` | two operators with one resource each, a shared key, an application on that key, 4 user steps, 1 failed request | `RefCountExact`, `ExternalKeysKept`, `DecrementKeepsValue`, `OwnedUntilReleased`, `ImplementsOwnership` |
| `kv_all_faults` | one resource that may declare a key twice, with and without purge, batches of one key, 3 user steps, 1 failure of any kind | `ValuesApplied`, `PurgeLeavesNothing`, `DeletionCompletes`, `Converges`, `TypeOK` |
| `acl_shared` | two siblings and a resource of another namespace, explicit names, a broken configuration, 4 user steps, 1 failure | `DeclaredKept`, `StaleReleased`, `LinksResolved`, `OthersKept`, `TypeOK` |
| `acl_all_faults` | one resource, prefixed and explicit names, entries with an ID that Consul knows or not, legacy rules, 3 user steps, 1 failure of any kind | `ReplacedBeforeRemoved`, `DeclaredKept`, `DeletionCompletes`, `Converges` |
| `dr_switchover` | two sites, modes active and standby, 3 requests, 1 write, 1 failure | `StandbyIsBackedUp`, `SwitchoverKeepsData`, `WritesKept`, `TypeOK` |
| `dr_ends` | two sites, all modes, 2 requests, 1 failure of any kind | `SwitchEnds` |
| `recovery` | two datacenters, one server, one resource, two tokens, 1 backup, 2 restores, 2 failures or edits | `BackupOpens`, `SecretOpens`, `RestoreRecovers`, `TypeOK` |
| `remove_tokens` | two pods, tokens of others, 9 pod steps, 2 failures | `InUseKept`, `OtherTokensKept`, `StaleRemoved`, `TypeOK` |
| `kv_stale_cache`, `acl_policy_id`, `acl_lookup`, `dr_restore_lost` | disagreements, see section 5 | one each |

In words:

- **Counter of owners.** At every step of every reconcile, `Flags` of a key is the
  number of resources that own it, counting a commit from the moment it happens. A
  key goes with its last owner and not before.
- **Keys of applications** survive reconciles and deletions without purge.
- **No lost value.** A decrement writes back the value it has read; the check-and-set
  makes sure this never undoes a newer value.
- **A status keeps the mark of an owned key** until the counter was decremented, so a
  failed release is tried again.
- **A purge that is reported done** left nothing of the keys in the status.
- **Declared ACL entities stay.** What a settled resource declares is in Consul with
  its namespace as an owner, whatever siblings and other namespaces do. Only a
  reconcile of a namespace takes that namespace off an owner list.
- **What is no longer declared is released**, unless a sibling still declares it.
- **No gap in the migration** of binding rules: an old rule goes only when the new one
  is in place.
- **A site that reports standby has a backup of all it held when it was switched**, and
  it is the one the other site finds; a site that becomes active in a switchover holds
  all of this; no late restore overwrites writes to an active site. What clients write
  after the switch was requested, or to a standby site, is in the backup only if the
  snapshot happens to contain it: nothing is claimed for it, and the next restore may
  take it away.
- **Reported values are there.** When the operator has settled a resource with success,
  each key holds the last value declared for it, also if it is declared twice.
- **A backup with a token file is whole**, and the token opens every snapshot in it,
  unless the file is empty.
- **A restore that ends well recovers.** The secret has the token of the data, and without
  another script or disaster the auth methods, the operator and every declaration come
  back in line with the cluster.
- **Remove-tokens** keeps the token in use by each pod it found running, although
  pods are listed before tokens; it keeps all tokens of others; and when pods come to
  rest only one token per running pod is left.
- **Progress.** Deletions complete, statuses converge, every switch ends in `done` or
  `failed`, whatever finite number of failures happens. The exceptions come from the
  code: a resource with an ID that Consul does not know is reported as failed and tried
  again for ever, and a switch whose request to the backup daemon is never answered stays
  `running` until the pod is restarted.

### Bounds

Two resources are enough for a conflict on a shared key, and four user steps for two
creations followed by two edits, deletions or application writes. One failure is
placed at every possible step. `kv_two_operators` has batches of two keys, so an apply
is one transaction followed by one for removed keys; `kv_all_faults` has batches of
one key, so that a later batch fails after an earlier one. The theorems on the counter
hold for every batch size. Three ACL resources are the least that have both a sibling
and a stranger. `acl_shared` uses the symmetry of the two siblings; its properties are
invariants and an action property, for which this is sound. No liveness run uses
symmetry. `MaxTasks` bounds the tasks of a backup daemon; a full list looks to
`drFunction` like a daemon that does not answer, which is a case the code has anyway.
In `recovery` the second datacenter is for a restore that names only the other one, and the
second restore for one that follows a failed one. It has a single server and backups of all
datacenters: servers that stop one by one and backups of some datacenters are in the
theorems on `Recovery` only. `MaxIncidents` is shared by failures and edits. In
`dr_switchover` a single write is enough to be lost or kept; the order of several is in the
theorems. `MaxTokens` and `MaxPodSteps` allow two logins for each pod and restarts of both.

Deadlock checking is off in all runs but `remove_tokens`: controllers and the daemon
come to rest when users do. The job, in contrast, is started for ever.

### Fairness

- `ConsulKV`, `ConsulACL`: weak fairness of `Start` (the work queue hands out every
  item; an error of `Reconcile` puts it back), of the steps of a reconcile (each is a
  request with a result) and of `Sync` (a watch delivers in the end). In `ConsulACL`
  also of `EnsureAuthMethod`, which the start-up task retries without a limit.
  Fairness of a step as a whole does not forbid its failing variants; these end
  because `MaxFaults` bounds them.
- `DisasterRecovery`: weak fairness of `DrStep` only. The polls of `drFunction` have a
  timeout, so nothing is assumed of the deployment or of the tasks of the backup daemon.
  The timeout is only looked at between two requests: the HTTP client has none
  (`clients/rest_client.go`, line 39) and the conditions of the polls ignore their context.
  A request to the backup daemon that is never answered is therefore a step of its own
  (`NoAnswer`) into a state that no step of `drFunction` leaves, and `SwitchEnds` excepts
  it. Requests to the Kubernetes API are assumed to return.
- `Recovery`: weak fairness of pods that come up again (`ServerUp`, `OperatorStart`) and of the
  work of the operator (`EnsureApplicationsAuthMethod`, which is retried without a limit, and
  `Reconcile`). Nothing is assumed of scripts and users.
- `RemoveTokens`: weak fairness of the job (the CronJob schedules it again and forbids
  concurrent runs) and of the election of a leader.

## 4. What is proved

| Theorem | Module | Statement |
|---|---|---|
| `TypeCorrect` | `ConsulKVTypes` | `Spec => []TypeOK`, under all kinds of failure |
| `PurgeComplete` | `ConsulKVInvariants` | if one operator has all resources and applications write no keys, `Spec => []PurgeLeavesNothing`, under all kinds of failure |
| `ReportedIsApplied` | `ConsulKVInvariants` | if a resource has the store to itself, `Spec => []ValuesApplied`, under all kinds of failure |
| `RefCount` | `ConsulKVProofs` | under `Recorded`, `Spec => []RefCountExact` |
| `ExternalKeys` | `ConsulKVProofs` | under `Recorded`, `Spec => []ExternalKeysKept` |
| `Refinement` | `ConsulKVProofs` | under `Recorded`, `Spec => ImplementsOwnership` |
| `ValuesKept`, `MarksKept` | `ConsulKVProofs` | under `Recorded`, `Spec => DecrementKeepsValue`, `Spec => OwnedUntilReleased` |
| `NothingMissed`, `SingleOwner` | `ConsulKVInvariants` | the cache hides nothing an operator for all namespaces owns; with strict validation, or a named operator, at most one reconciles a resource |
| `ACLTypes` | `ConsulACLInvariant` | `Spec => []TypeOK` |
| `OwnersKept`, `DeclaredStays` | `ConsulACLProofs` | if no policy entry has an `ID` (`PoliciesRead`), `Spec => OthersKept`, `Spec => []DeclaredKept` |
| `NothingStale`, `LegacyReplaced` | `ConsulACLProofs` | `Spec => []StaleReleased`, `Spec => ReplacedBeforeRemoved` |
| `LinksHold` | `ConsulACLProofs` | if no look-up fails, `Spec => []LinksResolved` |
| `DisasterRecoveryTypes` | `DisasterRecoveryProofs` | `Spec => []TypeOK` |
| `StandbySites` | `DisasterRecoveryProofs` | without the mode disabled and without refused requests, `Spec => []StandbyIsBackedUp` |
| `WritesStay` | `DisasterRecoveryProofs` | without the mode disabled and without refused requests, `Spec => WritesKept` |
| `SwitchoverMovesData` | `DisasterRecoveryProofs` | with two sites, without the mode disabled, refused requests and restarts of the backup daemon, `Spec => SwitchoverKeepsData` |
| `RecoveryTypes`, `BackupsOpen`, `SecretsOpen` | `RecoveryProofs` | `Spec => []TypeOK`, `[]BackupOpens`, `[]SecretOpens` |
| `JobTypes` | `RemoveTokensProofs` | `Spec => []TypeOK` |
| `OthersSafe` | `RemoveTokensProofs` | `Spec => []OtherTokensKept` |
| `RunningPodsSafe` | `RemoveTokensProofs` | `Spec => InUseKept` |

They hold for any number of operators, resources, keys, namespaces, sites, datacenters,
servers, pods and tokens, any batch size and any number of retries and failures. They rest
on the named assumptions on the constants in the modules.

`Recorded` says what the counter needs: requests to Consul may fail, but a commit is
recorded (no lost reply, crash, failed status update or lagging cache), nothing is
purged, and no resource declares a key twice. Each of these is needed: section 5 and
the notes of the hazards say how the counter goes wrong without it.

`RefCountExact` is not inductive. The proof uses `RefCountInv`, which adds, for each
resource:

- `Phases`: the sets of keys still to do, in the open chunk, committed and released are
  disjoint and belong to the phase of the reconcile, so that a key is counted once;
- `Current`: the status a reconcile started from is still the stored one, since nobody
  else writes it and the finalizer keeps the resource;
- `ReadsValid`: what was read of a key that is not stale is what the store holds, which
  is what a successful check-and-set gives;

and `StoreValid`: an absent key has counter 0. `CommitKey` and `CommitStep` are the heart
of the proof: a transaction adds or removes the resource from the holders of a key
exactly when it increments or decrements the counter. For all other steps the holders
do not change, the one to look at being `UpdateStatus`, which moves what was committed
from the reconcile to the status (`StatusStep`). `ExternalKeys` adds that the keys of
applications are present with counter 0.

`PurgeLeavesNothing` and `ValuesApplied` are about what the store holds after a long
sequence of requests, so their invariants follow one reconcile through it, with every kind
of failure. `PurgeInv` says that the reconciles of an operator take turns and that, while
`deleteKVTree` goes through the status (`Purging`), every key it is done with is gone with its
tree, unless an error was noted; the key between its `Delete` and the deletion of its tree is
gone already, unless it ends with "/", in which case the tree has it. `ValueInv` has four
parts: the cache is never ahead of the API server, and has the same specification for the same
generation (`InStep`); a reconcile works on the cached generation, or another one is queued
(`Fresh`); the keys committed so far hold their last declared values, and the removal of other
keys does not touch them (`Written`); and once the operator is done, the values are those of
the stored specification (`Done`). A status update reports success for the generation it finds
in the API server, not for the one that was applied; `Fresh` is why this is right whenever the
operator has come to rest. The assumptions are needed, as TLC shows: a second operator or an
application writes under a tree that is being purged, and a second resource or an application
writes another value to a key.

For the job, `JobInv` adds `Numbered` (client tokens are numbered after those of others
and up to `created`, and the token a pod uses is the latest that names it) and `Selected`
(what is chosen for deletion are client tokens that existed when they were listed, and
none that a pod found running uses). A login after the list creates a token newer than
anything chosen, which is why both survive the steps of pods.

The refinement uses `RefCountInv` as well: a key is external in `KeyOwnership` exactly if it
is in the store with counter 0 (`ExternalCounter`), a commit is a `Declare` or a `Release`,
and every other step of a reconcile is a stutter. `MarksKept` adds `KeptInv`: a key that was
owned before and is written again is still owned.

For `ConsulACL`, `IInv` adds to the types:

- `OneAtATime`: one reconcile at a time, so that nobody else writes the entities meanwhile;
- `OwnersFit`: an entity with owners exists, and one with a prefix has no foreign owner;
- `CacheFits`, `Current`, `SiblingsListed`: the cache holds an earlier version with the
  configuration of its generation; a reconcile works on the cached configuration and keeps
  what cached siblings declare, or another reconcile is queued. This is why a lagging cache
  delays `DeclaredKept` and does not break it;
- `Progress`: what is left in a stage (`TodoFits`), what was applied and is in Consul
  (`ApplyFits`), and that no stale entity was overlooked (`StaleFits`).

`ConsulACLInvariant` proves it for every step; the theorems in `ConsulACLProofs` use it.
`DeclaredStays` and `LinksHold` add `QuietKept` and `LinksFit` to it. Their assumptions are
needed: the runs `acl_policy_id` and `acl_lookup` violate `OthersKept` and `LinksResolved`
without them.

For `DisasterRecovery`, the inductive invariant is built in three layers on `IInv`: the types,
`OwnFolders` (the backups of a site go to its own folders) and `Control` (which values of the
config map, of the replicas and of the backup daemon go with each step of a call).

- `WriteInv`, for `WritesStay`: a task restores a folder of another region (`RestoreFolders`);
  the restore a call waits for is the last one, and once it has ended none is left, not even
  one of an earlier call (`NoneLeft`).
- `BackupInv`, for `StandbySites`: a site with something due still holds it, and no restore
  is left that would replace it (`DueHeld`); from the backup that the call waits for on, every
  complete backup of the site contains what is due (`LastBackup`, with `From`), and so it does
  when the site is down or about to go down (`Backups`). Writes only add to the data, which is
  why they can come at any time.
- `SwitchInv`, for `SwitchoverMovesData`: the sites behind a switchover have nothing due or are
  still in standby (`BehindSettled`), so the folder chosen for the restore contains what is due
  to them, and from the end of the restore on so does the site (`Restored`).

Refused requests are excluded because the code takes the name of the task from the body of
whatever answer it gets, and restarts of the backup daemon because a restore it has forgotten
counts as completed: the run `dr_restore_lost` shows the second. With a third site the latest
backup of another region may be the one of a site that has nothing due.

For `Recovery`, `BackupInProgress` says that all snapshots so far were opened by the token the
script will write and that none is missing when `.token` is created, `RestoreInProgress` that
a restore was not refused, or that it has no token and its first request will be, and
`RecoveryInProgress` that from `RestoreSecretData` on the script works with the token of the
secret, which is the token of Consul from the first accepted request on.

Only model-checked: the liveness properties `DeletionCompletes`, `Converges`, `SwitchEnds`,
`RestoreRecovers` and `StaleRemoved` (fairness is out of the prover's
reach). Every invariant and action property of the passing runs is also a theorem, some
under the assumptions of the table.

## 5. Where code and documentation disagree

Each is a run in which TLC finds the violation; `PROJECT.json` quotes the lines.

- `kv_stale_cache`: a key is recorded as owned by a status update after the commit. If the
  resource is deleted meanwhile and the cache lags, the update conflicts, the reconcile of the
  deletion finds no owned key to release, and the key stays with `Flags=1`. A longer way to
  the same end is a new generation that is reconciled before the cache has the last status:
  the resource is then counted twice.
- `acl_policy_id`: a policy entry with an `ID` is written without being read, and the
  other namespaces disappear from the owner list.
- `acl_lookup`: a failed look-up of a policy counts as an absent policy; the role is
  written without the link and the apply succeeds.
- `dr_restore_lost`: a restore task the backup daemon does not know counts as completed,
  and a refused request as accepted; a switchover is reported done without the data.

Other behaviour worth knowing, described in the notes of the hazards and not checked by
a run: a key declared twice is not released when it is removed; a restore that stops between
a snapshot with another token and the secret leaves a token that opens nothing; the restore
of a backup with an empty `.token` empties the secret and fails; the REST service updates a
namespaced resource without its namespace, so that no request to `/reconcile` has anything
reconciled (`docs/public/acl-configurator.md`, lines 270-278, say it does), and it writes
the body before the status code, which is therefore 200 in every case; a site that is
switched back after a failed switchover restores an older backup of the other region; a
purge deletes keys that were removed from the resource before; releases are repeated when the update after them
fails; a second attempt of the switch from disabled to active restores a backup; a token
of a pod that is still pending is deleted; entities stay when `explicitName` is switched
off, or when the resource is deleted before the stale clean-up ran.

## 6. What is not modelled

- Texts: messages, status details, JSON of configurations, descriptions.
- The revocation of the tokens of a role that is deleted (the code ignores its result), selectors
  of binding rules and the content of rules.
- The comparison of the auth method's configuration and the detection of the issuer.
- Leader election and the cache of controller-runtime, beyond what `KubeAPI` says of them.
- Consul itself, beyond transactions with check-and-set, the ACL requests and deletion of
  links with their policy.
- Time: a poll whose condition does not hold may time out at any moment.
- The REST service, whose requests change no state.
- Two operators that process one resource.
- A snapshot file that is cut off while it is written, and installations without ACLs.
- The effect of a restored snapshot on the ConsulKV counters: the marks in the statuses are
  not part of the snapshot.
- The Helm chart, the CRD tools and the tests: templates, generated code, no state.

## 7. Plan

Left, in the order of importance:

1. `ConsulKV` composed with a restore, where counters in the snapshot and marks in the
   statuses no longer agree.
2. The mode disabled of the disaster recovery daemon, beyond termination.
3. Runs for the behaviour listed at the end of section 5.
