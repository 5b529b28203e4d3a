-------------------------- MODULE DisasterRecovery --------------------------
(***************************************************************************)
(* The disaster recovery daemon (disaster-recovery/main.go and clients/):  *)
(* the switch of a Consul cluster between the modes active, standby and    *)
(* disabled.  Two sites, each with its own daemon and backup daemon, share *)
(* the storage of the backups.                                             *)
(*                                                                         *)
(* External parts, modelled from their use by drFunction: the controller   *)
(* that calls it (it hands over the config map as it was, reports running, *)
(* then done or failed), the deployment of the backup daemon, and the      *)
(* backup daemon itself, which runs its tasks one after the other.         *)
(*                                                                         *)
(* The data of a site is the set of the writes it contains.  No code keeps *)
(* applications from writing, so they write to any site at any time, also  *)
(* while a snapshot is taken or restored.  Time is not modelled: a poll    *)
(* whose condition does not hold may time out.                             *)
(***************************************************************************)
EXTENDS Naturals, Sequences, FiniteSetsExt

CONSTANTS
    Sites,       \* the sites, which are the regions too
    FirstActive, \* the site installed in active mode
    Modes,       \* the modes users switch to
    Faults,      \* which kinds of failure happen
    MaxEdits,    \* bound on the requests of users
    MaxWrites,   \* bound on the writes of applications
    MaxTasks,    \* bound on the tasks of a backup daemon
    MaxFaults    \* bound on the failures

FaultKinds == {"request", "lostReply", "rejected", "noAnswer", "task", "notReady", "crash",
               "daemonRestart"}

ASSUME ConstantsAssumption ==
    /\ FirstActive \in Sites
    /\ Modes \subseteq {"active", "standby", "disabled"}
    /\ Faults \subseteq FaultKinds
    /\ {MaxEdits, MaxWrites, MaxTasks, MaxFaults} \subseteq Nat

VARIABLES
    cm,       \* the config map of a site: requested mode and reported status
    queue,    \* sites whose controller has an event to handle
    work,     \* the call of drFunction in progress
    daemon,   \* the deployment of the backup daemon
    tasks,    \* the tasks of the backup daemon; the position is the identifier
    backups,  \* the backups in the shared storage, oldest first
    data,     \* the data of a site
    serving,  \* sites that reported active and were not switched since
    due,      \* history: what a site held in service when it was switched
    writes,   \* writes of applications so far
    edits,    \* requests of users so far
    faults    \* failures so far

vars == <<cm, queue, work, daemon, tasks, backups, data, serving, due, writes, edits, faults>>

\* No call in progress; behind is a history of the sites that reported standby
\* when the call began.
Idle == [pc |-> "idle", mode |-> "none", from |-> "none", noWait |-> FALSE, job |-> 0,
         behind |-> {}]

Standby == {s \in Sites : cm[s].smode = "standby" /\ cm[s].status = "done"}

Init ==
    /\ cm = [s \in Sites |-> LET m == IF s = FirstActive THEN "active" ELSE "standby" IN
                [mode |-> m, smode |-> m, status |-> "done", noWait |-> FALSE]]
    /\ queue = {}
    /\ work = [s \in Sites |-> Idle]
    /\ daemon = [s \in Sites |-> [replicas |-> IF s = FirstActive THEN 1 ELSE 0,
                                  up |-> s = FirstActive]]
    /\ tasks = [s \in Sites |-> <<>>]
    /\ backups = <<>>
    /\ data = [s \in Sites |-> {}]
    /\ serving = {FirstActive}
    /\ due = [s \in Sites |-> {}]
    /\ writes = 0
    /\ edits = 0
    /\ faults = 0

Fault(kind) ==
    /\ kind \in Faults
    /\ faults < MaxFaults
    /\ faults' = faults + 1

-----------------------------------------------------------------------------
(* The backup daemon.                                                      *)

Queued(s) == {i \in DOMAIN tasks[s] : tasks[s][i].status = "queued"}

Room(s) == Len(tasks[s]) < MaxTasks

Accept(s, kind, vault) ==
    tasks' = [tasks EXCEPT ![s] = Append(@, [kind |-> kind, vault |-> vault, status |-> "queued"])]

AcceptBackup(s) ==
    /\ backups' = Append(backups, [site |-> s, data |-> {}, valid |-> FALSE])
    /\ Accept(s, "backup", Len(backups) + 1)

\* getLastFullBackup: the latest valid backup of another region.
Restorable(s) == {i \in DOMAIN backups : backups[i].valid /\ backups[i].site # s}

\* Mutant of LastFullBackup: the list is not reversed.
FirstFullBackup(s) == Min(Restorable(s))

LastFullBackup(s) == Max(Restorable(s))

\* The oldest task ends; a snapshot is taken or restored in one request.
RunTask(s) ==
    /\ daemon[s].up
    /\ Queued(s) # {}
    /\ LET i == Min(Queued(s))
           t == tasks[s][i] IN
       \/ /\ tasks' = [tasks EXCEPT ![s][i].status = "successful"]
          /\ IF t.kind = "backup"
             THEN /\ backups' = [backups EXCEPT ![t.vault].data = data[s], ![t.vault].valid = TRUE]
                  /\ data' = data
             ELSE data' = [data EXCEPT ![s] = backups[t.vault].data] /\ backups' = backups
          /\ faults' = faults
       \/ /\ Fault("task")
          /\ tasks' = [tasks EXCEPT ![s][i].status = "failed"]
          /\ UNCHANGED <<backups, data>>
    /\ UNCHANGED <<cm, queue, work, daemon, serving, due, writes, edits>>

Forget(s) ==
    tasks' = [tasks EXCEPT ![s] = [i \in DOMAIN @ |-> [@[i] EXCEPT !.status = "unknown"]]]

\* A restarted daemon does not know the tasks it had accepted.
DaemonRestart(s) ==
    /\ daemon[s].up
    /\ Fault("daemonRestart")
    /\ Forget(s)
    /\ UNCHANGED <<cm, queue, work, daemon, backups, data, serving, due, writes, edits>>

\* The deployment follows its number of replicas.
FollowScale(s) ==
    /\ daemon[s].up # (daemon[s].replicas = 1)
    /\ daemon' = [daemon EXCEPT ![s].up = ~@]
    /\ Forget(s)
    /\ UNCHANGED <<cm, queue, work, backups, data, serving, due, writes, edits, faults>>

\* The schedule of the backup daemon.
ScheduledBackup(s) ==
    /\ daemon[s].up
    /\ Room(s)
    /\ AcceptBackup(s)
    /\ UNCHANGED <<cm, queue, work, daemon, data, serving, due, writes, edits, faults>>

-----------------------------------------------------------------------------
(* drFunction.                                                             *)

Needed(c) ==
    \/ c.smode # "none" /\ c.smode # c.mode
    \/ c.status \in {"running", "failed"}

\* The controller hands over the config map and reports running.
Start(s) ==
    LET c == cm[s] IN
    /\ s \in queue
    /\ work[s].pc = "idle"
    /\ queue' = queue \ {s}
    /\ IF Needed(c)
       THEN /\ cm' = [cm EXCEPT ![s].smode = c.mode, ![s].status = "running"]
            /\ work' = [work EXCEPT ![s] = [pc |-> "ready", mode |-> c.mode, from |-> c.smode,
                                            noWait |-> c.noWait, job |-> 0,
                                            behind |-> Standby \ {s}]]
       ELSE /\ cm' = [cm EXCEPT ![s].smode = c.mode, ![s].status = "done"]
            /\ work' = work
    /\ UNCHANGED <<daemon, tasks, backups, data, serving, due, writes, edits, faults>>

\* drFunction returns and the controller reports the outcome.
Report(s, status) ==
    /\ work' = [work EXCEPT ![s] = Idle]
    /\ cm' = [cm EXCEPT ![s].smode = work[s].mode, ![s].status = status]
    /\ serving' = IF status = "done" /\ work[s].mode = "active" /\ cm[s].mode = "active"
                  THEN serving \cup {s} ELSE serving

\* Mutant of Continue: the end of drFunction is not reported.
Unreported(s, pc) == work' = [work EXCEPT ![s].pc = pc] /\ UNCHANGED <<cm, serving>>

\* On to pc, or done.
Continue(s, pc) ==
    IF pc = "done" THEN Report(s, "done")
    ELSE work' = [work EXCEPT ![s].pc = pc] /\ UNCHANGED <<cm, serving>>

\* CheckStatefulSetReadiness, then the branch for the requested mode.
CheckReady(s) ==
    /\ work[s].pc = "ready"
    /\ Continue(s, CASE work[s].mode = "active" -> "scaleUp"
                     [] work[s].mode = "disabled" -> "scaleDown"
                     [] work[s].mode = "standby" ->
                          IF daemon[s].replicas = 1 THEN "backup" ELSE "done")
    /\ UNCHANGED <<queue, daemon, tasks, backups, data, due, writes, edits, faults>>

\* scaleDeployment.
Scale(s) ==
    /\ work[s].pc \in {"scaleUp", "scaleDown"}
    /\ LET up == work[s].pc = "scaleUp" IN
       /\ daemon' = [daemon EXCEPT ![s].replicas = IF up THEN 1 ELSE 0]
       /\ \/ Continue(s, IF up THEN "waitUp" ELSE "waitDown") /\ faults' = faults
          \/ Report(s, "failed") /\ Fault("lostReply")
    /\ UNCHANGED <<queue, tasks, backups, data, due, writes, edits>>

\* CheckDeploymentReadiness.
ScaleDone(s) == daemon[s].up = (daemon[s].replicas = 1)

WaitScale(s) ==
    /\ work[s].pc \in {"waitUp", "waitDown"}
    /\ ScaleDone(s)
    /\ Continue(s, IF work[s].pc = "waitUp" /\ work[s].from # "disabled" THEN "restore" ELSE "done")
    /\ UNCHANGED <<queue, daemon, tasks, backups, data, due, writes, edits, faults>>

\* PerformBackup: a request whose reply is lost is sent again.  A refused one is
\* taken for accepted: only status codes from 500 on are errors.
PostBackup(s) ==
    /\ work[s].pc = "backup"
    /\ \/ /\ daemon[s].up /\ Room(s) /\ AcceptBackup(s) /\ faults' = faults
          /\ work' = [work EXCEPT ![s].pc = "waitBackup", ![s].job = Len(tasks[s]) + 1]
       \/ daemon[s].up /\ Room(s) /\ AcceptBackup(s) /\ Fault("lostReply") /\ work' = work
       \/ /\ daemon[s].up /\ Fault("rejected")
          /\ work' = [work EXCEPT ![s].pc = "waitBackup", ![s].job = 0]
          /\ UNCHANGED <<tasks, backups>>
    /\ UNCHANGED <<cm, queue, daemon, data, serving, due, writes, edits>>

\* getStatus.
JobStatus(s) ==
    IF work[s].job \in DOMAIN tasks[s] THEN tasks[s][work[s].job].status ELSE "unknown"

\* Mutant of BackupDone: an accepted backup is taken for a completed one.
BackupAccepted(s) == daemon[s].up

\* CheckBackupStatus.
BackupDone(s) == daemon[s].up /\ JobStatus(s) = "successful"

WaitBackup(s) ==
    /\ work[s].pc = "waitBackup"
    /\ BackupDone(s)
    /\ Continue(s, "scaleDown")
    /\ UNCHANGED <<queue, daemon, tasks, backups, data, due, writes, edits, faults>>

\* RestoreLastFullBackup.
PostRestore(s) ==
    /\ work[s].pc = "restore"
    /\ daemon[s].up
    /\ Restorable(s) # {}
    /\ \/ /\ Room(s) /\ Accept(s, "restore", LastFullBackup(s)) /\ faults' = faults
          /\ work' = [work EXCEPT ![s].pc = "waitRestore", ![s].job = Len(tasks[s]) + 1]
       \/ Room(s) /\ Accept(s, "restore", LastFullBackup(s)) /\ Fault("lostReply") /\ work' = work
       \/ /\ Fault("rejected")
          /\ work' = [work EXCEPT ![s].pc = "waitRestore", ![s].job = 0]
          /\ tasks' = tasks
    /\ UNCHANGED <<cm, queue, daemon, backups, data, serving, due, writes, edits>>

NothingToRestore(s) ==
    /\ work[s].pc = "restore"
    /\ daemon[s].up
    /\ Restorable(s) = {}
    /\ work[s].noWait
    /\ Continue(s, "done")
    /\ UNCHANGED <<queue, daemon, tasks, backups, data, due, writes, edits, faults>>

\* Mutant of RestoreDone: an accepted restore is taken for a completed one.
RestoreAccepted(s) == daemon[s].up

\* CheckRestoreStatus: an unknown task counts as completed.
RestoreDone(s) == daemon[s].up /\ JobStatus(s) \in {"successful", "unknown"}

WaitRestore(s) ==
    /\ work[s].pc = "waitRestore"
    /\ RestoreDone(s)
    /\ Continue(s, "readyAgain")
    /\ UNCHANGED <<queue, daemon, tasks, backups, data, due, writes, edits, faults>>

CheckReadyAgain(s) ==
    /\ work[s].pc = "readyAgain"
    /\ Continue(s, "done")
    /\ UNCHANGED <<queue, daemon, tasks, backups, data, due, writes, edits, faults>>

\* Mutant of TimesOut: the status of a task is polled without a timeout.
WaitsForTasks(s) ==
    /\ \/ work[s].pc \in {"waitUp", "waitDown"} /\ ~ScaleDone(s)
       \/ work[s].pc = "backup" /\ (~daemon[s].up \/ ~Room(s))
       \/ /\ work[s].pc = "restore"
          /\ ~daemon[s].up \/ ~Room(s) \/ (Restorable(s) = {} /\ ~work[s].noWait)
    /\ Report(s, "failed")
    /\ UNCHANGED <<queue, daemon, tasks, backups, data, due, writes, edits, faults>>

\* A poll whose condition does not hold runs into its timeout; the answer for an
\* unknown task may be one that getStatus can not parse.
TimesOut(s) ==
    /\ \/ work[s].pc \in {"waitUp", "waitDown"} /\ ~ScaleDone(s)
       \/ work[s].pc = "backup" /\ (~daemon[s].up \/ ~Room(s))
       \/ work[s].pc = "waitBackup" /\ ~BackupDone(s)
       \/ /\ work[s].pc = "restore"
          /\ ~daemon[s].up \/ ~Room(s) \/ (Restorable(s) = {} /\ ~work[s].noWait)
       \/ work[s].pc = "waitRestore" /\ (~RestoreDone(s) \/ JobStatus(s) = "unknown")
    /\ Report(s, "failed")
    /\ UNCHANGED <<queue, daemon, tasks, backups, data, due, writes, edits, faults>>

\* SendRequest: the client has no timeout and the polls ignore their context, so
\* a request to the backup daemon that is never answered holds drFunction until
\* the pod is restarted.  The daemon may have accepted the task.
NoAnswer(s) ==
    /\ work[s].pc \in {"backup", "waitBackup", "restore", "waitRestore"}
    /\ Fault("noAnswer")
    /\ work' = [work EXCEPT ![s].pc = "hung"]
    /\ \/ UNCHANGED <<tasks, backups>>
       \/ work[s].pc = "backup" /\ daemon[s].up /\ Room(s) /\ AcceptBackup(s)
       \/ /\ work[s].pc = "restore" /\ daemon[s].up /\ Room(s) /\ Restorable(s) # {}
          /\ Accept(s, "restore", LastFullBackup(s)) /\ UNCHANGED backups
    /\ UNCHANGED <<cm, queue, daemon, data, serving, due, writes, edits>>

\* Servers that do not become ready, and requests that keep failing.
StepFails(s) ==
    /\ work[s].pc \notin {"idle", "hung"}
    /\ \/ work[s].pc \in {"ready", "readyAgain"} /\ Fault("notReady")
       \/ work[s].pc # "readyAgain" /\ Fault("request")
    /\ Report(s, "failed")
    /\ UNCHANGED <<queue, daemon, tasks, backups, data, due, writes, edits>>

-----------------------------------------------------------------------------
(* Surroundings.                                                           *)

\* The daemon restarts and sees its config map again.
Crash(s) ==
    /\ Fault("crash")
    /\ work' = [work EXCEPT ![s] = Idle]
    /\ queue' = queue \cup {s}
    /\ UNCHANGED <<cm, daemon, tasks, backups, data, serving, due, writes, edits>>

AtRest == queue = {} /\ \A s \in Sites : work[s].pc = "idle"

\* What s holds is due at the site that takes over, if s was in service; a site
\* that becomes active itself is given the data of another one.
Post(s, m, noWait) ==
    /\ edits < MaxEdits
    /\ edits' = edits + 1
    /\ cm' = [cm EXCEPT ![s].mode = m, ![s].noWait = noWait]
    /\ queue' = queue \cup {s}
    /\ serving' = serving \ {s}
    /\ due' = [due EXCEPT ![s] = IF s \in serving THEN data[s]
                                ELSE IF m = "active" THEN {} ELSE @]
    /\ UNCHANGED <<work, daemon, tasks, backups, data, writes, faults>>

\* The documented procedure: one step after the other, and a site becomes active
\* when the others are out of service.  A failed step is posted again.
Switch(s, m) ==
    /\ AtRest
    /\ cm[s].smode # m \/ cm[s].status = "failed"
    /\ m = "active" => \A t \in Sites \ {s} : cm[t].smode # "active" /\ cm[t].status = "done"
    /\ Post(s, m, FALSE)

\* The other site is lost.
Failover(s) ==
    /\ AtRest
    /\ cm[s].smode # "active"
    /\ Post(s, "active", TRUE)

\* An application writes to a site, whatever its mode.
Put(s) ==
    /\ writes < MaxWrites
    /\ writes' = writes + 1
    /\ data' = [data EXCEPT ![s] = @ \cup {writes'}]
    /\ UNCHANGED <<cm, queue, work, daemon, tasks, backups, serving, due, edits, faults>>

-----------------------------------------------------------------------------
DrStep(s) ==
    \/ Start(s) \/ CheckReady(s) \/ Scale(s) \/ WaitScale(s) \/ PostBackup(s) \/ WaitBackup(s)
    \/ PostRestore(s) \/ NothingToRestore(s) \/ WaitRestore(s) \/ CheckReadyAgain(s)
    \/ TimesOut(s) \/ NoAnswer(s) \/ StepFails(s)

Next ==
    \E s \in Sites :
        \/ DrStep(s)
        \/ RunTask(s) \/ DaemonRestart(s) \/ FollowScale(s) \/ ScheduledBackup(s)
        \/ Crash(s) \/ Put(s) \/ Failover(s)
        \/ \E m \in Modes : Switch(s, m)

Spec == Init /\ [][Next]_vars

\* A call of drFunction whose requests are answered goes on: each of its polls ends
\* or times out.  Nothing drives on a call that is hung.
FairSpec == Spec /\ \A s \in Sites : WF_vars(DrStep(s))

-----------------------------------------------------------------------------
AllModes == {"none", "active", "standby", "disabled"}

\* The type invariant of the two sites and their shared storage.
TypeOK ==
    /\ cm \in [Sites -> [mode : AllModes, smode : AllModes, noWait : BOOLEAN,
                         status : {"running", "done", "failed"}]]
    /\ queue \subseteq Sites
    /\ work \in [Sites -> [pc : {"idle", "ready", "scaleUp", "scaleDown", "waitUp", "waitDown",
                                 "backup", "waitBackup", "restore", "waitRestore", "readyAgain",
                                 "hung"},
                           mode : AllModes, from : AllModes, noWait : BOOLEAN, job : Nat,
                           behind : SUBSET Sites]]
    /\ daemon \in [Sites -> [replicas : {0, 1}, up : BOOLEAN]]
    /\ tasks \in [Sites -> Seq([kind : {"backup", "restore"}, vault : 1 .. Len(backups),
                                status : {"queued", "successful", "failed", "unknown"}])]
    /\ backups \in Seq([site : Sites, data : SUBSET Nat, valid : BOOLEAN])
    /\ data \in [Sites -> SUBSET Nat]
    /\ serving \subseteq Sites
    /\ due \in [Sites -> SUBSET Nat]
    /\ {writes, edits, faults} \subseteq Nat

Valid(s) == {i \in DOMAIN backups : backups[i].valid /\ backups[i].site = s}

\* The backups of s from some one on, and so the latest, have what is due.
BackedUp(s) ==
    \/ due[s] = {}
    \/ \E i \in Valid(s) : \A j \in Valid(s) : j >= i => due[s] \subseteq backups[j].data

\* PerformBackup, CheckBackupStatus and the retry after a failure: when a site
\* reports standby, the backup that getLastFullBackup finds has all that the site
\* held when it was switched.  Later writes are in a backup only by chance.
StandbyIsBackedUp == \A s \in Standby : BackedUp(s)

\* A switchover: the site that reports active holds all that the sites held, when
\* they were switched, that reported standby before.
SwitchoverKeepsData ==
    [][\A s \in Sites :
         (/\ work[s].pc # "idle" /\ work[s].mode = "active" /\ ~work[s].noWait
          /\ cm'[s].status = "done")
            => \A t \in work[s].behind : due[t] \subseteq data'[s]]_vars

\* No restore is left behind that would overwrite what applications write to an
\* active site, however often drFunction was called before.
WritesKept ==
    [][\A s \in serving : data[s] \subseteq data'[s]]_vars

\* A switch ends in done or failed, unless the backup daemon leaves a request
\* without an answer.
SwitchEnds ==
    \A s \in Sites :
        (cm[s].status = "running") ~> (cm[s].status # "running" \/ work[s].pc = "hung")
=============================================================================
