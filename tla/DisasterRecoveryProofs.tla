----------------------- MODULE DisasterRecoveryProofs -----------------------
(***************************************************************************)
(* Disaster recovery for any number of switches, writes, tasks and         *)
(* failures, as long as nobody uses the mode disabled (which scales the    *)
(* backup daemon down without a backup, and standby then finds nothing to  *)
(* do) and no request is refused.  What is written to an active site       *)
(* stays; a site that reports standby has a backup of what it held when it *)
(* was switched; and if the backup daemon forgets no task, a switchover    *)
(* between two sites brings all of that to the other one.  Applications    *)
(* write to every site all the time.                                       *)
(***************************************************************************)
EXTENDS DisasterRecovery, WellFoundedInduction, TLAPS

\* No restore waits for the backup daemon of s.
NoRestore(s) ==
    \A i \in DOMAIN tasks[s] : tasks[s][i].status = "queued" => tasks[s][i].kind = "backup"

\* The backups of a site go to its own folders.
OwnFolders(s) ==
    \A i \in DOMAIN tasks[s] :
        tasks[s][i].kind = "backup" => backups[tasks[s][i].vault].site = s

UpSteps == {"scaleUp", "waitUp", "restore", "waitRestore", "readyAgain"}

RestoreSteps == {"restore", "waitRestore", "readyAgain"}

DownSteps == {"backup", "waitBackup", "scaleDown", "waitDown"}

\* How the call of drFunction, the config map and the deployment fit together.
Control(s) ==
    /\ cm[s].mode \in {"active", "standby"} /\ cm[s].smode \in {"active", "standby"}
    /\ cm[s].mode = "active" => due[s] = {}
    /\ work[s].pc # "idle" => /\ cm[s].status = "running"
                              /\ work[s].mode = cm[s].mode
    /\ work[s].pc \in UpSteps => work[s].mode = "active"
    /\ work[s].pc \in DownSteps => work[s].mode = "standby"
    /\ work[s].pc \in UpSteps \ {"scaleUp"} => daemon[s].replicas = 1
    /\ work[s].pc \in RestoreSteps => daemon[s].up
    /\ work[s].pc = "waitDown" => daemon[s].replicas = 0
    /\ s \in serving => /\ work[s].pc = "idle"
                        /\ cm[s].mode = "active" /\ cm[s].smode = "active"
                        /\ cm[s].status = "done"
                        /\ daemon[s].replicas = 1
    /\ cm[s].smode = "standby" /\ cm[s].status = "done" => daemon[s].replicas = 0

\* What holds of a site in every step of drFunction.
SiteInv(s) == OwnFolders(s) /\ Control(s)

\* The inductive invariant.
IInv == TypeOK /\ \A s \in Sites : SiteInv(s)

-----------------------------------------------------------------------------
(* Minimum and maximum.                                                    *)

\* A set of numbers that is not empty has a minimum.
LEMMA MinMember ==
    ASSUME NEW S \in SUBSET Nat, S # {}
    PROVE  Min(S) \in S /\ \A y \in S : Min(S) =< y
<1> DEFINE R == OpToRel(<, Nat)
<1>1. IsWellFoundedOn(R, Nat)
  BY NatLessThanWellFounded, Zenon
<1>2. \A x, y \in Nat : x < y => <<x, y>> \in R
  BY Zenon DEF OpToRel
<1> HIDE DEF R
<1>3. PICK x \in S : \A y \in S : <<y, x>> \notin R
  BY <1>1, WFMin, Zenon
<1>4. ASSUME NEW y \in S PROVE x =< y
  <2>1. x \in Nat /\ y \in Nat
    BY Zenon
  <2>2. ~(y < x)
    BY <1>2, <1>3, <2>1, Zenon
  <2> QED
    BY <2>1, <2>2
<1> QED
  BY <1>4, Zenon DEF Min

\* A bounded one has a maximum too.
LEMMA MaxMember ==
    ASSUME NEW n \in Nat, NEW S \in SUBSET (0 .. n), S # {}
    PROVE  Max(S) \in S /\ \A y \in S : Max(S) >= y
<1> DEFINE T == {n - y : y \in S}
<1>1. \A y \in S : y \in Nat /\ y =< n
  OBVIOUS
<1>2. T # {}
  BY Zenon
<1>3. T \in SUBSET Nat
  BY <1>1
<1>4. Min(T) \in T /\ \A z \in T : Min(T) =< z
  <2> HIDE DEF T
  <2> QED
    BY <1>2, <1>3, MinMember, Zenon
<1>5. PICK x \in S : Min(T) = n - x
  BY <1>4, Zenon
<1>6. ASSUME NEW y \in S PROVE x >= y
  <2>1. n - y \in T
    BY Zenon
  <2>2. n - x =< n - y
    BY <2>1, <1>4, <1>5, Zenon
  <2> QED
    BY <2>2, <1>1
<1> QED
  BY <1>6, Zenon DEF Max

-----------------------------------------------------------------------------
(* Types.                                                                  *)

States ==
    [mode : AllModes, smode : AllModes, noWait : BOOLEAN, status : {"running", "done", "failed"}]

Pcs == {"idle", "ready", "scaleUp", "scaleDown", "waitUp", "waitDown",
        "backup", "waitBackup", "restore", "waitRestore", "readyAgain", "hung"}

Works ==
    [pc : Pcs, mode : AllModes, from : AllModes, noWait : BOOLEAN, job : Nat,
     behind : SUBSET Sites]

Jobs(n) ==
    [kind : {"backup", "restore"}, vault : 1 .. n,
     status : {"queued", "successful", "failed", "unknown"}]

Vaults == [site : Sites, data : SUBSET Nat, valid : BOOLEAN]

\* TypeOK with its sets named.
Types ==
    /\ cm \in [Sites -> States]
    /\ queue \in SUBSET Sites
    /\ work \in [Sites -> Works]
    /\ daemon \in [Sites -> [replicas : {0, 1}, up : BOOLEAN]]
    /\ tasks \in [Sites -> Seq(Jobs(Len(backups)))]
    /\ backups \in Seq(Vaults)
    /\ data \in [Sites -> SUBSET Nat]
    /\ serving \in SUBSET Sites
    /\ due \in [Sites -> SUBSET Nat]
    /\ writes \in Nat /\ edits \in Nat /\ faults \in Nat

LEMMA TypesAre == TypeOK <=> Types
BY Zenon DEF TypeOK, Types, States, Pcs, Works, Jobs, Vaults

\* A request always names a mode, and so does a call of drFunction.
ModeKnown ==
    \A s \in Sites : /\ cm[s].mode # "none"
                     /\ work[s].pc # "idle" => work[s].mode # "none"

\* The end of drFunction.
LEMMA ReportTypes ==
    ASSUME Types, NEW s \in Sites, NEW status \in {"running", "done", "failed"},
           Report(s, status)
    PROVE  /\ cm' \in [Sites -> States]
           /\ work' \in [Sites -> Works]
           /\ serving' \in SUBSET Sites
           /\ \A t \in Sites \ {s} : cm'[t] = cm[t] /\ work'[t] = work[t]
           /\ work'[s] = Idle
           /\ cm'[s].mode = cm[s].mode /\ cm'[s].smode = work[s].mode /\ cm'[s].status = status
<1>1. work \in [Sites -> Works] /\ cm \in [Sites -> States] /\ serving \in SUBSET Sites
  BY Zenon DEF Types
<1>2. Idle \in Works
  BY Zenon DEF Idle, Works, Pcs, AllModes
<1>3. work' = [work EXCEPT ![s] = Idle]
  BY Zenon DEF Report
<1>4. cm' = [cm EXCEPT ![s].smode = work[s].mode, ![s].status = status]
  BY Zenon DEF Report
<1>5. work[s].mode \in AllModes
  BY <1>1, Zenon DEF Works
<1>6. cm' \in [Sites -> States]
  BY <1>1, <1>4, <1>5, Zenon DEF States
<1>7. cm'[s].mode = cm[s].mode /\ cm'[s].smode = work[s].mode /\ cm'[s].status = status
  BY <1>1, <1>4, Zenon DEF States
<1>8. \A t \in Sites \ {s} : cm'[t] = cm[t] /\ work'[t] = work[t]
  BY <1>1, <1>3, <1>4, Zenon
<1>9. serving' \in SUBSET Sites
  BY <1>1, Zenon DEF Report
<1> QED
  BY <1>1, <1>2, <1>3, <1>6, <1>7, <1>8, <1>9, Zenon

\* A step of drFunction that goes on at pc.
LEMMA GoOnTypes ==
    ASSUME Types, NEW s \in Sites, NEW pc \in Pcs, work' = [work EXCEPT ![s].pc = pc]
    PROVE  /\ work' \in [Sites -> Works]
           /\ \A t \in Sites \ {s} : work'[t] = work[t]
           /\ work'[s].pc = pc /\ work'[s].mode = work[s].mode /\ work'[s].job = work[s].job
<1>1. work \in [Sites -> Works]
  BY Zenon DEF Types
<1> QED
  BY <1>1 DEF Works

\* A task is asked for; j is its identifier.
LEMMA AskedTypes ==
    ASSUME Types, NEW s \in Sites, NEW pc \in Pcs, NEW j \in Nat,
           work' = [work EXCEPT ![s].pc = pc, ![s].job = j]
    PROVE  /\ work' \in [Sites -> Works]
           /\ \A t \in Sites \ {s} : work'[t] = work[t]
           /\ work'[s].pc = pc /\ work'[s].mode = work[s].mode /\ work'[s].job = j
<1> DEFINE w == [work[s] EXCEPT !.pc = pc, !.job = j]
<1>1. work \in [Sites -> Works] /\ work[s] \in Works
  BY Zenon DEF Types
<1>2. w \in Works /\ w.pc = pc /\ w.mode = work[s].mode /\ w.job = j
  BY <1>1, Zenon DEF Works
<1>3. work' = [work EXCEPT ![s] = w]
  BY Zenon
<1> HIDE DEF w
<1> QED
  BY <1>1, <1>2, <1>3, Zenon

\* The controller writes the config map at the start of a call.
LEMMA StatusTypes ==
    ASSUME Types, NEW s \in Sites, NEW x \in {"running", "done", "failed"},
           cm' = [cm EXCEPT ![s].smode = cm[s].mode, ![s].status = x]
    PROVE  /\ cm' \in [Sites -> States]
           /\ \A t \in Sites \ {s} : cm'[t] = cm[t]
           /\ cm'[s].mode = cm[s].mode /\ cm'[s].smode = cm[s].mode /\ cm'[s].status = x
<1> DEFINE c == [cm[s] EXCEPT !.smode = cm[s].mode, !.status = x]
<1>1. cm \in [Sites -> States] /\ cm[s] \in States
  BY Zenon DEF Types
<1>2. c \in States /\ c.mode = cm[s].mode /\ c.smode = cm[s].mode /\ c.status = x
  BY <1>1, Zenon DEF States
<1>3. cm' = [cm EXCEPT ![s] = c]
  BY Zenon
<1> HIDE DEF c
<1> QED
  BY <1>1, <1>2, <1>3, Zenon

\* Folders of a longer list: all tasks keep their type.
LEMMA JobsGrow ==
    ASSUME NEW n \in Nat, NEW T \in [Sites -> Seq(Jobs(n))]
    PROVE  T \in [Sites -> Seq(Jobs(n + 1))]
<1>1. Jobs(n) \subseteq Jobs(n + 1)
  BY DEF Jobs
<1>2. \A s \in Sites : T[s] \in Seq(Jobs(n + 1))
  <2> TAKE s \in Sites
  <2>1. T[s] \in Seq(Jobs(n))
    BY Zenon
  <2>2. \A i \in 1 .. Len(T[s]) : T[s][i] \in Jobs(n + 1)
    BY <1>1, <2>1
  <2> QED
    BY <2>1, <2>2
<1> QED
  BY <1>2, Zenon

\* A task of a daemon with m backups is appended.
LEMMA AcceptTypes ==
    ASSUME NEW m \in Nat, tasks \in [Sites -> Seq(Jobs(m))], NEW s \in Sites,
           NEW kind \in {"backup", "restore"}, NEW vault \in 1 .. m, Accept(s, kind, vault)
    PROVE  /\ tasks' \in [Sites -> Seq(Jobs(m))]
           /\ \A t \in Sites \ {s} : tasks'[t] = tasks[t]
           /\ Len(tasks'[s]) = Len(tasks[s]) + 1
           /\ \A i \in DOMAIN tasks[s] : tasks'[s][i] = tasks[s][i]
           /\ tasks'[s][Len(tasks[s]) + 1] =
                 [kind |-> kind, vault |-> vault, status |-> "queued"]
<1> DEFINE job == [kind |-> kind, vault |-> vault, status |-> "queued"]
<1>1. job \in Jobs(m)
  BY Zenon DEF Jobs
<1>2. tasks' = [tasks EXCEPT ![s] = Append(tasks[s], job)]
  BY Zenon DEF Accept
<1>3. tasks[s] \in Seq(Jobs(m))
  BY Zenon
<1> HIDE DEF job
<1>4. /\ Append(tasks[s], job) \in Seq(Jobs(m))
      /\ Len(Append(tasks[s], job)) = Len(tasks[s]) + 1
      /\ \A i \in DOMAIN tasks[s] : Append(tasks[s], job)[i] = tasks[s][i]
      /\ Append(tasks[s], job)[Len(tasks[s]) + 1] = job
  BY <1>1, <1>3
<1>5. tasks' \in [Sites -> Seq(Jobs(m))]
  BY <1>2, <1>4, Zenon
<1>6. tasks'[s] = Append(tasks[s], job) /\ \A t \in Sites \ {s} : tasks'[t] = tasks[t]
  BY <1>2, Zenon
<1> QED
  BY <1>4, <1>5, <1>6, Zenon DEF job

\* A backup is accepted: its folder is new.
LEMMA AcceptBackupTypes ==
    ASSUME Types, NEW s \in Sites, AcceptBackup(s)
    PROVE  /\ backups' \in Seq(Vaults) /\ Len(backups') = Len(backups) + 1
           /\ \A i \in DOMAIN backups : backups'[i] = backups[i]
           /\ backups'[Len(backups) + 1].site = s
           /\ tasks' \in [Sites -> Seq(Jobs(Len(backups')))]
           /\ \A t \in Sites \ {s} : tasks'[t] = tasks[t]
           /\ Len(tasks'[s]) = Len(tasks[s]) + 1
           /\ \A i \in DOMAIN tasks[s] : tasks'[s][i] = tasks[s][i]
           /\ tasks'[s][Len(tasks[s]) + 1] =
                 [kind |-> "backup", vault |-> Len(backups) + 1, status |-> "queued"]
<1> DEFINE v == [site |-> s, data |-> {}, valid |-> FALSE]
           m == Len(backups) + 1
<1>1. backups \in Seq(Vaults) /\ m \in Nat /\ m \in 1 .. m
  BY DEF Types
<1>2. v \in Vaults /\ v.site = s
  BY Zenon DEF Vaults
<1>3. backups' = Append(backups, v) /\ Accept(s, "backup", m)
  BY Zenon DEF AcceptBackup
<1> HIDE DEF v
<1>4. /\ backups' \in Seq(Vaults) /\ Len(backups') = m
      /\ \A i \in DOMAIN backups : backups'[i] = backups[i]
      /\ backups'[m] = v
  BY <1>1, <1>2, <1>3
<1>5. tasks \in [Sites -> Seq(Jobs(m))]
  <2>1. Len(backups) \in Nat /\ tasks \in [Sites -> Seq(Jobs(Len(backups)))]
    BY <1>1 DEF Types
  <2> QED
    BY <2>1, JobsGrow, Zenon
<1> QED
  BY <1>1, <1>2, <1>3, <1>4, <1>5, AcceptTypes, Zenon

\* The status of one task, or of all, changes.
LEMMA JobTypes ==
    ASSUME Types, NEW s \in Sites, NEW status \in {"queued", "successful", "failed", "unknown"},
           NEW i \in DOMAIN tasks[s], tasks' = [tasks EXCEPT ![s][i].status = status]
    PROVE  /\ tasks' \in [Sites -> Seq(Jobs(Len(backups)))]
           /\ \A t \in Sites \ {s} : tasks'[t] = tasks[t]
           /\ DOMAIN tasks'[s] = DOMAIN tasks[s]
           /\ \A j \in DOMAIN tasks[s] \ {i} : tasks'[s][j] = tasks[s][j]
           /\ tasks'[s][i] = [tasks[s][i] EXCEPT !.status = status]
<1> DEFINE J == Jobs(Len(backups))
           x == [tasks[s][i] EXCEPT !.status = status]
<1>1. tasks \in [Sites -> Seq(J)]
  BY Zenon DEF Types
<1>2. tasks[s] \in Seq(J) /\ i \in 1 .. Len(tasks[s]) /\ tasks[s][i] \in J
  BY <1>1
<1>3. x \in J
  BY <1>2, Zenon DEF Jobs
<1>4. tasks' = [tasks EXCEPT ![s] = [tasks[s] EXCEPT ![i] = x]]
  BY Zenon
<1> HIDE DEF x, J
<1>5. /\ [tasks[s] EXCEPT ![i] = x] \in Seq(J)
      /\ DOMAIN [tasks[s] EXCEPT ![i] = x] = DOMAIN tasks[s]
      /\ [tasks[s] EXCEPT ![i] = x][i] = x
      /\ \A j \in DOMAIN tasks[s] \ {i} : [tasks[s] EXCEPT ![i] = x][j] = tasks[s][j]
  BY <1>2, <1>3
<1> QED
  BY <1>1, <1>4, <1>5, Zenon DEF x, J

LEMMA ForgetTypes ==
    ASSUME Types, NEW s \in Sites, Forget(s)
    PROVE  /\ tasks' \in [Sites -> Seq(Jobs(Len(backups)))]
           /\ \A t \in Sites \ {s} : tasks'[t] = tasks[t]
           /\ DOMAIN tasks'[s] = DOMAIN tasks[s]
           /\ \A j \in DOMAIN tasks[s] :
                 /\ tasks'[s][j].status = "unknown" /\ tasks'[s][j].kind = tasks[s][j].kind
                 /\ tasks'[s][j].vault = tasks[s][j].vault
<1> DEFINE J == Jobs(Len(backups))
           q == [j \in DOMAIN tasks[s] |-> [tasks[s][j] EXCEPT !.status = "unknown"]]
<1>1. tasks \in [Sites -> Seq(J)]
  BY Zenon DEF Types
<1> HIDE DEF J
<1>2. /\ tasks[s] \in Seq(J) /\ DOMAIN tasks[s] = 1 .. Len(tasks[s]) /\ Len(tasks[s]) \in Nat
      /\ \A j \in DOMAIN tasks[s] : tasks[s][j] \in J
  BY <1>1
<1>3. \A j \in DOMAIN tasks[s] :
         /\ [tasks[s][j] EXCEPT !.status = "unknown"] \in J
         /\ q[j].status = "unknown"
         /\ q[j].kind = tasks[s][j].kind /\ q[j].vault = tasks[s][j].vault
  <2> TAKE j \in DOMAIN tasks[s]
  <2>1. tasks[s][j] \in J
    BY <1>2, Zenon
  <2>2. q[j] = [tasks[s][j] EXCEPT !.status = "unknown"]
    BY Zenon
  <2> HIDE DEF q
  <2> QED
    BY <2>1, <2>2, Zenon DEF J, Jobs
<1>4. q \in [1 .. Len(tasks[s]) -> J]
  BY <1>2, <1>3, Zenon
<1>5. q \in Seq(J)
  BY <1>2, <1>4
<1>6. tasks' = [tasks EXCEPT ![s] = q]
  BY Zenon DEF Forget
<1>7. DOMAIN q = DOMAIN tasks[s]
  BY Zenon
<1> HIDE DEF q
<1> QED
  BY <1>1, <1>3, <1>5, <1>6, <1>7, Zenon DEF J

\* What every step of a call of drFunction but the first does to the call.
LEMMA CallTypes ==
    ASSUME Types, ModeKnown, NEW s \in Sites, work[s].pc # "idle",
           \/ \E pc \in Pcs \cup {"done"} : Continue(s, pc)
           \/ Report(s, "failed")
    PROVE  /\ cm' \in [Sites -> States]
           /\ work' \in [Sites -> Works]
           /\ serving' \in SUBSET Sites
           /\ ModeKnown'
<1>a. cm \in [Sites -> States] /\ serving \in SUBSET Sites
  BY Zenon DEF Types
<1>1. ASSUME NEW status \in {"done", "failed"}, Report(s, status)
      PROVE  /\ cm' \in [Sites -> States]
             /\ work' \in [Sites -> Works]
             /\ serving' \in SUBSET Sites
             /\ ModeKnown'
  <2>1. /\ cm' \in [Sites -> States] /\ work' \in [Sites -> Works] /\ serving' \in SUBSET Sites
        /\ \A t \in Sites \ {s} : cm'[t] = cm[t] /\ work'[t] = work[t]
        /\ work'[s] = Idle /\ cm'[s].mode = cm[s].mode
    BY <1>1, ReportTypes, Zenon
  <2>2. ModeKnown'
    BY <2>1 DEF ModeKnown, Idle
  <2> QED
    BY <2>1, <2>2, Zenon
<1>2. ASSUME NEW pc \in Pcs, work' = [work EXCEPT ![s].pc = pc], UNCHANGED <<cm, serving>>
      PROVE  /\ cm' \in [Sites -> States]
             /\ work' \in [Sites -> Works]
             /\ serving' \in SUBSET Sites
             /\ ModeKnown'
  <2>1. /\ work' \in [Sites -> Works]
        /\ \A t \in Sites \ {s} : work'[t] = work[t]
        /\ work'[s].mode = work[s].mode
    BY <1>2, GoOnTypes, Zenon
  <2>2. ModeKnown'
    BY <1>2, <2>1, Zenon DEF ModeKnown
  <2> QED
    BY <1>2, <1>a, <2>1, <2>2, Zenon
<1> QED
  BY <1>1, <1>2, Zenon DEF Continue, Pcs

\* Every fault is counted.
LEMMA FaultTypes == ASSUME Types, NEW kind, Fault(kind) PROVE faults' \in Nat
BY DEF Types, Fault

\* getLastFullBackup finds a folder, the latest one.
LEMMA RestorableTypes ==
    ASSUME Types, NEW s \in Sites, Restorable(s) # {}
    PROVE  /\ LastFullBackup(s) \in 1 .. Len(backups)
           /\ LastFullBackup(s) \in Restorable(s)
           /\ \A j \in Restorable(s) : LastFullBackup(s) >= j
<1>1. backups \in Seq(Vaults) /\ Len(backups) \in Nat /\ DOMAIN backups = 1 .. Len(backups)
  BY DEF Types
<1>2. Restorable(s) \in SUBSET (0 .. Len(backups))
  BY <1>1 DEF Restorable
<1>3. LastFullBackup(s) \in Restorable(s) /\ \A j \in Restorable(s) : LastFullBackup(s) >= j
  BY <1>1, <1>2, MaxMember, Zenon DEF LastFullBackup
<1>4. LastFullBackup(s) \in 1 .. Len(backups)
  BY <1>1, <1>3, Zenon DEF Restorable
<1> QED
  BY <1>3, <1>4, Zenon

\* The steps of drFunction keep the types.
LEMMA DrStepTypes ==
    ASSUME Types, ModeKnown, NEW s \in Sites, DrStep(s)
    PROVE  Types' /\ ModeKnown'
<1> DEFINE n == Len(backups)
<1>a. /\ cm \in [Sites -> States]
      /\ queue \in SUBSET Sites
      /\ work \in [Sites -> Works]
      /\ daemon \in [Sites -> [replicas : {0, 1}, up : BOOLEAN]]
      /\ tasks \in [Sites -> Seq(Jobs(n))]
      /\ backups \in Seq(Vaults) /\ n \in Nat
      /\ data \in [Sites -> SUBSET Nat]
      /\ serving \in SUBSET Sites
      /\ due \in [Sites -> SUBSET Nat]
      /\ writes \in Nat /\ edits \in Nat /\ faults \in Nat
  BY DEF Types
<1> DEFINE Call == /\ cm' \in [Sites -> States]
                   /\ work' \in [Sites -> Works]
                   /\ serving' \in SUBSET Sites
                   /\ ModeKnown'
<1>1. CASE Start(s)
  <2>1. cm[s] \in States /\ cm[s].mode # "none" /\ Standby \ {s} \in SUBSET Sites
    BY <1>a, Zenon DEF ModeKnown, Standby
  <2>2. cm[s].mode \in AllModes /\ cm[s].smode \in AllModes /\ cm[s].noWait \in BOOLEAN
    BY <2>1, Zenon DEF States
  <2>3. cm' \in [Sites -> States] /\ \A t \in Sites : cm'[t].mode = cm[t].mode
    <3>1. \E x \in {"running", "done"} : cm' = [cm EXCEPT ![s].smode = cm[s].mode, ![s].status = x]
      BY <1>1, Zenon DEF Start
    <3>2. /\ cm' \in [Sites -> States]
          /\ \A t \in Sites \ {s} : cm'[t] = cm[t]
          /\ cm'[s].mode = cm[s].mode
      BY <3>1, StatusTypes, Zenon
    <3> QED
      BY <3>2, Zenon
  <2>4. CASE ~Needed(cm[s])
    <3>1. work' = work
      BY <1>1, <2>4, Zenon DEF Start
    <3>2. ModeKnown'
      BY <2>3, <3>1, Zenon DEF ModeKnown
    <3> QED
      BY <1>1, <1>a, <2>3, <3>1, <3>2, Zenon DEF Start, Types
  <2>5. CASE Needed(cm[s])
    <3> DEFINE w == [pc |-> "ready", mode |-> cm[s].mode, from |-> cm[s].smode,
                     noWait |-> cm[s].noWait, job |-> 0, behind |-> Standby \ {s}]
    <3>1. work' = [work EXCEPT ![s] = w]
      BY <1>1, <2>5, Zenon DEF Start
    <3>2. w \in Works /\ w.mode # "none"
      BY <2>1, <2>2, Zenon DEF Works, Pcs
    <3> HIDE DEF w
    <3>3. work' \in [Sites -> Works]
      BY <1>a, <3>1, <3>2, Zenon
    <3>4. ModeKnown'
      BY <1>a, <2>3, <3>1, <3>2, Zenon DEF ModeKnown
    <3> QED
      BY <1>1, <1>a, <2>3, <3>3, <3>4, Zenon DEF Start, Types
  <2> QED
    BY <2>4, <2>5, Zenon
<1>2. CASE CheckReady(s)
  <2>1. work[s].mode \in {"active", "standby", "disabled"} /\ work[s].pc = "ready"
    BY <1>2, <1>a, Zenon DEF CheckReady, ModeKnown, Works, AllModes
  <2>2. \E pc \in Pcs \cup {"done"} : Continue(s, pc)
    <3>1. PICK pc \in {"scaleUp", "scaleDown", "backup", "done"} : Continue(s, pc)
      BY <1>2, <2>1, Zenon DEF CheckReady
    <3> QED
      BY <3>1, Zenon DEF Pcs
  <2>3. Call
    BY <2>1, <2>2, CallTypes, Zenon
  <2> QED
    BY <1>2, <1>a, <2>3, Zenon DEF CheckReady, Types
<1>3. CASE Scale(s)
  <2>1. \/ \E pc \in Pcs \cup {"done"} : Continue(s, pc)
        \/ Report(s, "failed")
    BY <1>3, Zenon DEF Scale, Pcs
  <2>2. work[s].pc # "idle"
    BY <1>3, Zenon DEF Scale
  <2>3. Call
    BY <2>1, <2>2, CallTypes, Zenon
  <2>4. daemon' \in [Sites -> [replicas : {0, 1}, up : BOOLEAN]]
    BY <1>3, <1>a, Zenon DEF Scale
  <2>5. faults' \in Nat
    BY <1>3, <1>a, FaultTypes, Zenon DEF Scale
  <2> QED
    BY <1>3, <1>a, <2>3, <2>4, <2>5, Zenon DEF Scale, Types
<1>4. CASE WaitScale(s) \/ WaitBackup(s) \/ NothingToRestore(s) \/ WaitRestore(s)
           \/ CheckReadyAgain(s)
  <2>1. work[s].pc # "idle" /\ \E pc \in Pcs \cup {"done"} : Continue(s, pc)
    BY <1>4, Zenon DEF WaitScale, WaitBackup, NothingToRestore, WaitRestore, CheckReadyAgain, Pcs
  <2>2. Call
    BY <2>1, CallTypes, Zenon
  <2>3. UNCHANGED <<queue, daemon, tasks, backups, data, due, writes, edits, faults>>
    BY <1>4, Zenon DEF WaitScale, WaitBackup, NothingToRestore, WaitRestore, CheckReadyAgain
  <2> QED
    BY <1>a, <2>2, <2>3, Zenon DEF Types
<1>5. CASE TimesOut(s)
  <2>1. work[s].pc # "idle" /\ Report(s, "failed")
    BY <1>5, Zenon DEF TimesOut
  <2>2. Call
    BY <2>1, CallTypes, Zenon
  <2> QED
    BY <1>5, <1>a, <2>2, Zenon DEF TimesOut, Types
<1>6. CASE StepFails(s)
  <2>1. work[s].pc # "idle" /\ Report(s, "failed") /\ faults' \in Nat
    BY <1>6, FaultTypes, Zenon DEF StepFails
  <2>2. Call
    BY <2>1, CallTypes, Zenon
  <2> QED
    BY <1>6, <1>a, <2>1, <2>2, Zenon DEF StepFails, Types
<1>7. CASE PostBackup(s)
  <2>1. backups' \in Seq(Vaults) /\ tasks' \in [Sites -> Seq(Jobs(Len(backups')))]
    BY <1>7, <1>a, AcceptBackupTypes, Zenon DEF PostBackup
  <2>2. work' \in [Sites -> Works] /\ ModeKnown'
    <3>1. Len(tasks[s]) + 1 \in Nat
      BY <1>a
    <3>2. work' = work \/ \E j \in Nat : work' = [work EXCEPT ![s].pc = "waitBackup", ![s].job = j]
      BY <1>7, <3>1, Zenon DEF PostBackup
    <3>3. work' \in [Sites -> Works]
      BY <1>a, <3>2, AskedTypes, Zenon DEF Pcs
    <3>4. work'[s].mode = work[s].mode /\ \A t \in Sites \ {s} : work'[t] = work[t]
      BY <1>a, <3>2, AskedTypes, Zenon DEF Pcs
    <3>5. UNCHANGED cm /\ work[s].mode # "none"
      BY <1>7, Zenon DEF PostBackup, ModeKnown
    <3> QED
      BY <3>3, <3>4, <3>5, Zenon DEF ModeKnown
  <2>3. faults' \in Nat
    BY <1>7, <1>a, FaultTypes, Zenon DEF PostBackup
  <2> QED
    BY <1>7, <1>a, <2>1, <2>2, <2>3, Zenon DEF PostBackup, Types
<1>8. CASE PostRestore(s)
  <2>1. LastFullBackup(s) \in 1 .. n
    BY <1>8, RestorableTypes, Zenon DEF PostRestore
  <2>2. tasks' \in [Sites -> Seq(Jobs(n))] /\ UNCHANGED backups
    BY <1>8, <1>a, <2>1, AcceptTypes, Zenon DEF PostRestore
  <2>3. work' \in [Sites -> Works] /\ ModeKnown'
    <3>1. Len(tasks[s]) + 1 \in Nat
      BY <1>a
    <3>2. work' = work \/ \E j \in Nat : work' = [work EXCEPT ![s].pc = "waitRestore", ![s].job = j]
      BY <1>8, <3>1, Zenon DEF PostRestore
    <3>3. work' \in [Sites -> Works]
      BY <1>a, <3>2, AskedTypes, Zenon DEF Pcs
    <3>4. work'[s].mode = work[s].mode /\ \A t \in Sites \ {s} : work'[t] = work[t]
      BY <1>a, <3>2, AskedTypes, Zenon DEF Pcs
    <3>5. UNCHANGED cm /\ work[s].mode # "none"
      BY <1>8, Zenon DEF PostRestore, ModeKnown
    <3> QED
      BY <3>3, <3>4, <3>5, Zenon DEF ModeKnown
  <2>4. faults' \in Nat
    BY <1>8, <1>a, FaultTypes, Zenon DEF PostRestore
  <2> QED
    BY <1>8, <1>a, <2>2, <2>3, <2>4, Zenon DEF PostRestore, Types
<1>9. CASE NoAnswer(s)
  <2>1. work' = [work EXCEPT ![s].pc = "hung"] /\ UNCHANGED <<cm, serving>> /\ work[s].pc # "idle"
    BY <1>9, Zenon DEF NoAnswer
  <2>2. Continue(s, "hung") /\ "hung" \in Pcs
    BY <2>1, Zenon DEF Continue, Pcs
  <2>3. Call
    BY <2>1, <2>2, CallTypes, Zenon
  <2>4. backups' \in Seq(Vaults) /\ tasks' \in [Sites -> Seq(Jobs(Len(backups')))]
    <3>1. CASE UNCHANGED <<tasks, backups>>
      BY <1>a, <3>1, Zenon
    <3>2. CASE AcceptBackup(s)
      BY <3>2, AcceptBackupTypes, Zenon
    <3>3. CASE /\ Restorable(s) # {} /\ Accept(s, "restore", LastFullBackup(s))
               /\ UNCHANGED backups
      <4>1. LastFullBackup(s) \in 1 .. n
        BY <1>a, <3>3, RestorableTypes, Zenon
      <4> QED
        BY <1>a, <3>3, <4>1, AcceptTypes, Zenon
    <3> QED
      BY <1>9, <3>1, <3>2, <3>3, Zenon DEF NoAnswer
  <2>5. faults' \in Nat
    BY <1>9, FaultTypes, Zenon DEF NoAnswer
  <2> QED
    BY <1>9, <1>a, <2>3, <2>4, <2>5, Zenon DEF NoAnswer, Types
<1> QED
  BY <1>1, <1>2, <1>3, <1>4, <1>5, <1>6, <1>7, <1>8, <1>9, Zenon DEF DrStep

\* The backup daemon takes the oldest task.
LEMMA QueueHead ==
    ASSUME Types, NEW s \in Sites, Queued(s) # {}
    PROVE  /\ Min(Queued(s)) \in DOMAIN tasks[s]
           /\ tasks[s][Min(Queued(s))].status = "queued"
           /\ \A j \in DOMAIN tasks[s] : tasks[s][j].status = "queued" => Min(Queued(s)) =< j
<1>1. tasks[s] \in Seq(Jobs(Len(backups)))
  BY Zenon DEF Types
<1>2. Queued(s) \in SUBSET Nat
  BY <1>1 DEF Queued
<1>3. Min(Queued(s)) \in Queued(s) /\ \A j \in Queued(s) : Min(Queued(s)) =< j
  BY <1>2, MinMember, Zenon
<1> HIDE <1>2
<1> QED
  BY <1>3, Zenon DEF Queued

\* One element of a sequence changes.
LEMMA ElementChanged ==
    ASSUME NEW S, NEW q \in Seq(S), NEW i \in 1 .. Len(q), NEW x \in S
    PROVE  [q EXCEPT ![i] = x] \in Seq(S) /\ Len([q EXCEPT ![i] = x]) = Len(q)
OBVIOUS

\* A backup is completed in its folder.
LEMMA VaultTypes ==
    ASSUME Types, NEW v \in DOMAIN backups, NEW x \in SUBSET Nat,
           backups' = [backups EXCEPT ![v].data = x, ![v].valid = TRUE]
    PROVE  /\ backups' \in Seq(Vaults) /\ Len(backups') = Len(backups)
           /\ DOMAIN backups' = DOMAIN backups
           /\ \A i \in DOMAIN backups \ {v} : backups'[i] = backups[i]
           /\ backups'[v].site = backups[v].site
           /\ backups'[v].data = x /\ backups'[v].valid
<1> DEFINE b == [backups[v] EXCEPT !.data = x, !.valid = TRUE]
<1>1. backups \in Seq(Vaults) /\ v \in 1 .. Len(backups) /\ backups[v] \in Vaults
  BY DEF Types
<1>2. b \in Vaults /\ b.site = backups[v].site /\ b.data = x
  BY <1>1, Zenon DEF Vaults
<1>3. b.valid = TRUE
  BY <1>1, Zenon DEF Vaults
<1>4. backups' = [backups EXCEPT ![v] = b]
  BY <1>1, Zenon
<1> HIDE DEF b
<1>5. /\ backups' \in Seq(Vaults) /\ Len(backups') = Len(backups)
      /\ DOMAIN backups' = DOMAIN backups
      /\ backups'[v] = b
      /\ \A i \in DOMAIN backups \ {v} : backups'[i] = backups[i]
  <2>1. backups' \in Seq(Vaults) /\ Len(backups') = Len(backups)
    <3>1. \A q \in Seq(Vaults), i \in Nat, y \in Vaults : i \in 1 .. Len(q) =>
             [q EXCEPT ![i] = y] \in Seq(Vaults) /\ Len([q EXCEPT ![i] = y]) = Len(q)
      BY ElementChanged
    <3>2. /\ [backups EXCEPT ![v] = b] \in Seq(Vaults)
          /\ Len([backups EXCEPT ![v] = b]) = Len(backups)
      BY <1>1, <1>2, <3>1
    <3> QED
      BY <1>4, <3>2, Zenon
  <2>2. DOMAIN backups' = DOMAIN backups
    BY <1>4, Zenon
  <2>3. backups'[v] = b /\ \A i \in DOMAIN backups \ {v} : backups'[i] = backups[i]
    BY <1>1, <1>4, Zenon
  <2> QED
    BY <2>1, <2>2, <2>3, Zenon
<1> QED
  BY <1>2, <1>3, <1>5, Zenon

\* The backup daemon, its deployment, the users and the applications keep
\* the types.
LEMMA OtherStepTypes ==
    ASSUME Types, ModeKnown, NEW s \in Sites,
           \/ RunTask(s) \/ DaemonRestart(s) \/ FollowScale(s) \/ ScheduledBackup(s)
           \/ Crash(s) \/ Put(s) \/ Failover(s)
           \/ \E m \in Modes : Switch(s, m)
    PROVE  Types' /\ ModeKnown'
<1> DEFINE n == Len(backups)
<1>a. /\ cm \in [Sites -> States]
      /\ queue \in SUBSET Sites
      /\ work \in [Sites -> Works]
      /\ daemon \in [Sites -> [replicas : {0, 1}, up : BOOLEAN]]
      /\ tasks \in [Sites -> Seq(Jobs(n))]
      /\ backups \in Seq(Vaults) /\ n \in Nat
      /\ data \in [Sites -> SUBSET Nat]
      /\ serving \in SUBSET Sites
      /\ due \in [Sites -> SUBSET Nat]
      /\ writes \in Nat /\ edits \in Nat /\ faults \in Nat
  BY DEF Types
<1>b. UNCHANGED <<cm, work>> => ModeKnown'
  BY Zenon DEF ModeKnown
<1>1. CASE RunTask(s)
  <2> DEFINE i == Min(Queued(s))
             t == tasks[s][i]
  <2>1. i \in DOMAIN tasks[s]
    BY <1>1, QueueHead, Zenon DEF RunTask
  <2>2. t \in Jobs(n)
    BY <1>a, <2>1
  <2>3. t.vault \in DOMAIN backups /\ data[s] \in SUBSET Nat
    BY <1>a, <2>2 DEF Jobs
  <2>4. backups[t.vault].data \in SUBSET Nat
    <3>1. \A v \in DOMAIN backups : backups[v] \in Vaults
      BY <1>a
    <3> QED
      BY <2>3, <3>1, Zenon DEF Vaults
  <2> HIDE DEF i, t
  <2>5. tasks' \in [Sites -> Seq(Jobs(n))]
    BY <1>1, <2>1, JobTypes, Zenon DEF RunTask, i
  <2>6. \/ backups' = backups
        \/ backups' = [backups EXCEPT ![t.vault].data = data[s], ![t.vault].valid = TRUE]
    BY <1>1, Zenon DEF RunTask, i, t
  <2>7. backups' \in Seq(Vaults) /\ Len(backups') = n
    BY <1>a, <2>3, <2>6, VaultTypes, Zenon
  <2>8. data' = data \/ data' = [data EXCEPT ![s] = backups[t.vault].data]
    BY <1>1, Zenon DEF RunTask, i, t
  <2>9. data' \in [Sites -> SUBSET Nat]
    BY <1>a, <2>4, <2>8, ZenonT(30)
  <2>10. faults' \in Nat
    BY <1>1, <1>a, FaultTypes, Zenon DEF RunTask
  <2> QED
    BY <1>1, <1>a, <1>b, <2>5, <2>7, <2>9, <2>10, Zenon DEF RunTask, Types
<1>2. CASE DaemonRestart(s)
  <2>1. tasks' \in [Sites -> Seq(Jobs(n))] /\ faults' \in Nat
    BY <1>2, ForgetTypes, FaultTypes, Zenon DEF DaemonRestart
  <2> QED
    BY <1>2, <1>a, <1>b, <2>1, Zenon DEF DaemonRestart, Types
<1>3. CASE FollowScale(s)
  <2>1. tasks' \in [Sites -> Seq(Jobs(n))]
    BY <1>3, ForgetTypes, Zenon DEF FollowScale
  <2>2. daemon' \in [Sites -> [replicas : {0, 1}, up : BOOLEAN]]
    BY <1>3, <1>a, Zenon DEF FollowScale
  <2> QED
    BY <1>3, <1>a, <1>b, <2>1, <2>2, Zenon DEF FollowScale, Types
<1>4. CASE ScheduledBackup(s)
  <2>1. backups' \in Seq(Vaults) /\ tasks' \in [Sites -> Seq(Jobs(Len(backups')))]
    BY <1>4, AcceptBackupTypes, Zenon DEF ScheduledBackup
  <2> QED
    BY <1>4, <1>a, <1>b, <2>1, Zenon DEF ScheduledBackup, Types
<1>5. CASE Crash(s)
  <2>1. Idle \in Works /\ Idle.pc = "idle"
    BY Zenon DEF Idle, Works, Pcs, AllModes
  <2>2. work' = [work EXCEPT ![s] = Idle] /\ queue' = queue \cup {s} /\ UNCHANGED cm
    BY <1>5, Zenon DEF Crash
  <2>3. work' \in [Sites -> Works] /\ ModeKnown'
    BY <1>a, <2>1, <2>2, Zenon DEF ModeKnown
  <2>4. faults' \in Nat
    BY <1>5, FaultTypes, Zenon DEF Crash
  <2> QED
    BY <1>5, <1>a, <2>2, <2>3, <2>4, Zenon DEF Crash, Types
<1>6. CASE Put(s)
  <2>1. writes' \in Nat
    BY <1>6, <1>a DEF Put
  <2>2. data' = [data EXCEPT ![s] = data[s] \cup {writes'}]
    BY <1>6, Zenon DEF Put
  <2>3. data[s] \cup {writes'} \in SUBSET Nat
    BY <1>a, <2>1, Zenon
  <2>4. data' \in [Sites -> SUBSET Nat]
    BY <1>a, <2>2, <2>3, Zenon
  <2> QED
    BY <1>6, <1>a, <1>b, <2>1, <2>4, Zenon DEF Put, Types
<1>7. ASSUME NEW m \in {"active", "standby", "disabled"}, NEW noWait \in BOOLEAN,
             Post(s, m, noWait)
      PROVE  Types' /\ ModeKnown'
  <2>1. cm' = [cm EXCEPT ![s] = [cm[s] EXCEPT !.mode = m, !.noWait = noWait]]
    BY <1>7, <1>a, Zenon DEF Post
  <2>2. [cm[s] EXCEPT !.mode = m, !.noWait = noWait] \in States
    <3>1. cm[s] \in States
      BY <1>a, Zenon
    <3> QED
      BY <3>1, Zenon DEF States, AllModes
  <2>3. cm' \in [Sites -> States] /\ cm'[s].mode = m /\ \A t \in Sites \ {s} : cm'[t] = cm[t]
    BY <1>a, <2>1, <2>2, Zenon DEF States
  <2>4. UNCHANGED work
    BY <1>7, Zenon DEF Post
  <2>5. ModeKnown'
    BY <2>3, <2>4, Zenon DEF ModeKnown
  <2>6. edits' \in Nat /\ queue' \in SUBSET Sites /\ serving' \in SUBSET Sites
    BY <1>7, <1>a DEF Post
  <2>7. due' \in [Sites -> SUBSET Nat]
    <3>1. PICK x \in SUBSET Nat : due' = [due EXCEPT ![s] = x]
      BY <1>7, <1>a, Zenon DEF Post
    <3> QED
      BY <1>a, <3>1, Zenon
  <2> QED
    BY <1>7, <1>a, <2>3, <2>5, <2>6, <2>7, Zenon DEF Post, Types
<1>8. CASE Failover(s)
  BY <1>7, <1>8, Zenon DEF Failover
<1>9. CASE \E m \in Modes : Switch(s, m)
  BY <1>7, <1>9, ConstantsAssumption, Zenon DEF Switch
<1> QED
  BY <1>1, <1>2, <1>3, <1>4, <1>5, <1>6, <1>8, <1>9, Zenon

LEMMA InitTypes == Init => Types /\ ModeKnown
<1> SUFFICES ASSUME Init PROVE Types /\ ModeKnown
  BY Zenon
<1>1. cm \in [Sites -> States] /\ work \in [Sites -> Works] /\ ModeKnown
  <2>1. \A s \in Sites : /\ cm[s] \in States /\ cm[s].mode # "none"
                         /\ work[s] = Idle
    BY Zenon DEF Init, States, AllModes
  <2>2. Idle \in Works /\ Idle.pc = "idle"
    BY Zenon DEF Idle, Works, Pcs, AllModes
  <2>3. ModeKnown
    BY <2>1, <2>2, Zenon DEF ModeKnown
  <2>4. cm \in [Sites -> States]
    BY Zenon DEF Init, States, AllModes
  <2>5. work \in [Sites -> Works]
    BY <2>2, Zenon DEF Init
  <2> QED
    BY <2>3, <2>4, <2>5, Zenon
<1>2. daemon \in [Sites -> [replicas : {0, 1}, up : BOOLEAN]]
  BY Zenon DEF Init
<1>3. backups \in Seq(Vaults) /\ tasks \in [Sites -> Seq(Jobs(Len(backups)))]
  BY DEF Init
<1>4. /\ queue \in SUBSET Sites /\ serving \in SUBSET Sites
      /\ data \in [Sites -> SUBSET Nat] /\ due \in [Sites -> SUBSET Nat]
      /\ writes \in Nat /\ edits \in Nat /\ faults \in Nat
  BY ConstantsAssumption, Zenon DEF Init
<1> QED
  BY <1>1, <1>2, <1>3, <1>4, Zenon DEF Types

LEMMA TypesStep == Types /\ ModeKnown /\ [Next]_vars => Types' /\ ModeKnown'
<1> SUFFICES ASSUME Types, ModeKnown, [Next]_vars PROVE Types' /\ ModeKnown'
  BY Zenon
<1>1. CASE Next
  <2>1. PICK s \in Sites :
           \/ DrStep(s)
           \/ RunTask(s) \/ DaemonRestart(s) \/ FollowScale(s) \/ ScheduledBackup(s)
           \/ Crash(s) \/ Put(s) \/ Failover(s)
           \/ \E m \in Modes : Switch(s, m)
    BY <1>1, Zenon DEF Next
  <2> QED
    BY <2>1, DrStepTypes, OtherStepTypes, Zenon
<1>2. CASE UNCHANGED vars
  BY <1>2, Zenon DEF vars, Types, ModeKnown
<1> QED
  BY <1>1, <1>2, Zenon

\* Every variable keeps its type, for any number of sites and failures: in
\* particular every task, however late it runs, names a folder that exists.
THEOREM DisasterRecoveryTypes == Spec => []TypeOK
<1>1. Types => TypeOK
  BY TypesAre, Zenon
<1> QED
  BY <1>1, InitTypes, TypesStep, PTL DEF Spec

-----------------------------------------------------------------------------
(* How the calls of drFunction, the config maps and the deployments fit.   *)

\* The storage only grows as far as site t is concerned: folders stay, keep
\* their site, and those of t keep what they hold.
Grows(t) ==
    \A i \in DOMAIN backups :
        /\ i \in DOMAIN backups'
        /\ backups'[i].site = backups[i].site
        /\ backups[i].site = t => backups'[i] = backups[i]

\* Site t when the step is one of another site.
LEMMA OtherSite ==
    ASSUME Types, NEW t \in Sites, SiteInv(t), Grows(t),
           cm'[t] = cm[t], work'[t] = work[t], daemon'[t] = daemon[t],
           tasks'[t] = tasks[t], due'[t] = due[t], t \in serving' => t \in serving
    PROVE  SiteInv(t)'
<1>1. \A i \in DOMAIN tasks[t] : tasks[t][i].vault \in DOMAIN backups
  <2>1. tasks[t] \in Seq(Jobs(Len(backups))) /\ backups \in Seq(Vaults)
    BY Zenon DEF Types
  <2>2. \A i \in DOMAIN tasks[t] : tasks[t][i] \in Jobs(Len(backups))
    BY <2>1
  <2>3. DOMAIN backups = 1 .. Len(backups)
    BY <2>1
  <2> QED
    BY <2>2, <2>3, Zenon DEF Jobs
<1>2. OwnFolders(t)'
  BY <1>1 DEF SiteInv, OwnFolders, Grows
<1>3. Control(t)'
  BY Zenon DEF SiteInv, Control
<1> QED
  BY <1>2, <1>3, Zenon DEF SiteInv

\* A step of site s that leaves tasks and storage alone: the control must fit.
LEMMA ControlStep ==
    ASSUME NEW s \in Sites, SiteInv(s), UNCHANGED <<tasks, backups>>, Control(s)'
    PROVE  SiteInv(s)'
<1>1. OwnFolders(s)'
  BY Zenon DEF SiteInv, OwnFolders
<1> QED
  BY <1>1, Zenon DEF SiteInv

\* drFunction ends in site s.
LEMMA ReportControl ==
    ASSUME Types, NEW s \in Sites, Control(s), work[s].pc # "idle", UNCHANGED <<daemon, due>>,
           NEW status \in {"done", "failed"}, Report(s, status),
           status = "done" => IF work[s].mode = "active" THEN daemon[s].replicas = 1
                              ELSE daemon[s].replicas = 0
    PROVE  Control(s)' /\ work'[s].pc = "idle"
<1>1. /\ work'[s] = Idle
      /\ cm'[s].mode = cm[s].mode /\ cm'[s].smode = work[s].mode /\ cm'[s].status = status
  BY ReportTypes, Zenon
<1>2. work'[s].pc = "idle"
  BY <1>1 DEF Idle
<1>3. cm[s].mode \in {"active", "standby"} /\ work[s].mode = cm[s].mode
  BY Zenon DEF Control
<1>4. s \notin serving
  BY Zenon DEF Control
<1>5. s \in serving' => status = "done" /\ work[s].mode = "active" /\ cm[s].mode = "active"
  BY <1>4, Zenon DEF Report
<1> QED
  BY <1>1, <1>2, <1>3, <1>5, Zenon DEF Control, UpSteps, RestoreSteps, DownSteps

\* drFunction goes on in site s.
LEMMA GoOnControl ==
    ASSUME Types, NEW s \in Sites, Control(s), work[s].pc # "idle", NEW pc \in Pcs,
           work' = [work EXCEPT ![s].pc = pc], UNCHANGED <<cm, serving, due>>,
           pc \in UpSteps => work[s].mode = "active",
           pc \in DownSteps => work[s].mode = "standby",
           pc \in UpSteps \ {"scaleUp"} => daemon'[s].replicas = 1,
           pc \in RestoreSteps => daemon'[s].up,
           pc = "waitDown" => daemon'[s].replicas = 0
    PROVE  Control(s)' /\ work'[s].pc = pc
<1>1. work'[s].pc = pc /\ work'[s].mode = work[s].mode
  BY GoOnTypes, Zenon
<1>2. s \notin serving /\ cm[s].status = "running"
  BY Zenon DEF Control
<1> QED
  BY <1>1, <1>2, Zenon DEF Control

\* The steps of drFunction that ask the backup daemon for nothing.
LEMMA CallSteps ==
    ASSUME Types, NEW s \in Sites, SiteInv(s),
           \/ Start(s) \/ CheckReady(s) \/ Scale(s) \/ WaitScale(s) \/ WaitBackup(s)
           \/ NothingToRestore(s) \/ WaitRestore(s) \/ CheckReadyAgain(s)
           \/ TimesOut(s) \/ StepFails(s)
    PROVE  SiteInv(s)'
<1>a. Control(s)
  BY Zenon DEF SiteInv
<1>b. /\ daemon \in [Sites -> [replicas : {0, 1}, up : BOOLEAN]]
      /\ work \in [Sites -> Works]
      /\ daemon[s].replicas \in {0, 1}
  BY Zenon DEF Types
<1>1. CASE Start(s)
  <2>1. UNCHANGED <<daemon, tasks, backups, due, serving>> /\ work[s].pc = "idle"
    BY <1>1, Zenon DEF Start
  <2>2. CASE ~Needed(cm[s])
    <3>1. cm' = [cm EXCEPT ![s].smode = cm[s].mode, ![s].status = "done"] /\ work' = work
      BY <1>1, <2>2, Zenon DEF Start
    <3>2. cm'[s].mode = cm[s].mode /\ cm'[s].smode = cm[s].mode /\ cm'[s].status = "done"
      BY <3>1, StatusTypes, Zenon
    <3>3. cm[s].smode = cm[s].mode /\ cm[s].status = "done"
      <4>1. cm[s].status \in {"running", "done", "failed"} /\ cm[s].smode # "none"
        BY <1>a, Zenon DEF Types, States, Control
      <4> QED
        BY <2>2, <4>1, Zenon DEF Needed
    <3>4. Control(s)'
      BY <1>a, <2>1, <3>1, <3>2, <3>3, Zenon DEF Control
    <3> QED
      BY <1>a, <2>1, <3>1, <3>4, ControlStep, Zenon
  <2>3. CASE Needed(cm[s])
    <3>1. /\ cm' = [cm EXCEPT ![s].smode = cm[s].mode, ![s].status = "running"]
          /\ work' = [work EXCEPT ![s] = [pc |-> "ready", mode |-> cm[s].mode,
                                          from |-> cm[s].smode, noWait |-> cm[s].noWait,
                                          job |-> 0, behind |-> Standby \ {s}]]
      BY <1>1, <2>3, Zenon DEF Start
    <3>2. cm'[s].mode = cm[s].mode /\ cm'[s].smode = cm[s].mode /\ cm'[s].status = "running"
      BY <3>1, StatusTypes, Zenon
    <3>3. work'[s].pc = "ready" /\ work'[s].mode = cm[s].mode
      BY <1>b, <3>1, Zenon
    <3>4. s \notin serving
      BY <1>a, <2>3, Zenon DEF Control, Needed
    <3>5. Control(s)'
      BY <1>a, <2>1, <3>2, <3>3, <3>4, Zenon DEF Control, UpSteps, RestoreSteps, DownSteps
    <3> QED
      BY <1>a, <2>1, <3>3, <3>5, ControlStep, Zenon
  <2> QED
    BY <2>2, <2>3, Zenon
<1>2. CASE CheckReady(s)
  <2>1. UNCHANGED <<daemon, tasks, backups, due>> /\ work[s].pc = "ready"
    BY <1>2, Zenon DEF CheckReady
  <2>2. work[s].mode \in {"active", "standby"}
    BY <1>a, <2>1, Zenon DEF Control
  <2>3. CASE work[s].mode = "active"
    <3>1. Continue(s, "scaleUp")
      BY <1>2, <2>3, Zenon DEF CheckReady
    <3>2. work' = [work EXCEPT ![s].pc = "scaleUp"] /\ UNCHANGED <<cm, serving>>
      BY <3>1, Zenon DEF Continue
    <3>3. Control(s)' /\ work'[s].pc = "scaleUp"
      BY <1>a, <2>1, <2>3, <3>2, GoOnControl, Zenon DEF Pcs, UpSteps, RestoreSteps, DownSteps
    <3> QED
      BY <1>a, <2>1, <3>3, ControlStep, Zenon
  <2>4. CASE work[s].mode = "standby" /\ daemon[s].replicas = 1
    <3>1. Continue(s, "backup")
      BY <1>2, <2>4, Zenon DEF CheckReady
    <3>2. work' = [work EXCEPT ![s].pc = "backup"] /\ UNCHANGED <<cm, serving>>
      BY <3>1, Zenon DEF Continue
    <3>3. Control(s)' /\ work'[s].pc = "backup"
      BY <1>a, <2>1, <2>4, <3>2, GoOnControl, Zenon DEF Pcs, UpSteps, RestoreSteps, DownSteps
    <3> QED
      BY <1>a, <2>1, <3>3, ControlStep, Zenon
  <2>5. CASE work[s].mode = "standby" /\ daemon[s].replicas # 1
    <3>1. Continue(s, "done") /\ daemon[s].replicas = 0
      BY <1>2, <1>b, <2>5, Zenon DEF CheckReady
    <3>2. Report(s, "done")
      BY <3>1, Zenon DEF Continue
    <3>3. Control(s)' /\ work'[s].pc = "idle"
      BY <1>a, <2>1, <2>5, <3>1, <3>2, ReportControl, Zenon
    <3> QED
      BY <1>a, <2>1, <3>3, ControlStep, Zenon
  <2> QED
    BY <2>2, <2>3, <2>4, <2>5, Zenon
<1>3. CASE Scale(s)
  <2>1. UNCHANGED <<tasks, backups, due>> /\ work[s].pc \in {"scaleUp", "scaleDown"}
    BY <1>3, Zenon DEF Scale
  <2>2. daemon'[s].replicas = IF work[s].pc = "scaleUp" THEN 1 ELSE 0
    BY <1>3, <1>b, Zenon DEF Scale
  <2>4. CASE Report(s, "failed")
    <3>1. /\ work'[s] = Idle
          /\ cm'[s].mode = cm[s].mode /\ cm'[s].smode = work[s].mode /\ cm'[s].status = "failed"
      BY <2>4, ReportTypes, Zenon
    <3>2. s \notin serving' /\ work'[s].pc = "idle"
      BY <1>a, <2>1, <2>4, <3>1 DEF Control, Report, Idle
    <3>3. Control(s)'
      BY <1>a, <2>1, <3>1, <3>2, Zenon DEF Control, UpSteps, RestoreSteps, DownSteps
    <3> QED
      BY <2>1, <3>2, <3>3, ControlStep, Zenon
  <2>5. CASE work[s].pc = "scaleUp" /\ Continue(s, "waitUp")
    <3>1. work' = [work EXCEPT ![s].pc = "waitUp"] /\ UNCHANGED <<cm, serving>>
      BY <2>5, Zenon DEF Continue
    <3>2. work[s].mode = "active"
      BY <1>a, <2>5, Zenon DEF Control, UpSteps
    <3>3. Control(s)' /\ work'[s].pc = "waitUp"
      BY <1>a, <2>1, <2>2, <2>5, <3>1, <3>2, GoOnControl, Zenon
         DEF Pcs, UpSteps, RestoreSteps, DownSteps
    <3> QED
      BY <2>1, <3>3, ControlStep, Zenon
  <2>6. CASE work[s].pc = "scaleDown" /\ Continue(s, "waitDown")
    <3>1. work' = [work EXCEPT ![s].pc = "waitDown"] /\ UNCHANGED <<cm, serving>>
      BY <2>6, Zenon DEF Continue
    <3>2. work[s].mode = "standby"
      BY <1>a, <2>6, Zenon DEF Control, DownSteps
    <3>3. Control(s)' /\ work'[s].pc = "waitDown"
      BY <1>a, <2>1, <2>2, <2>6, <3>1, <3>2, GoOnControl, Zenon
         DEF Pcs, UpSteps, RestoreSteps, DownSteps
    <3> QED
      BY <2>1, <3>3, ControlStep, Zenon
  <2> QED
    BY <1>3, <2>1, <2>4, <2>5, <2>6, Zenon DEF Scale
<1>4. CASE WaitScale(s)
  <2>1. UNCHANGED <<daemon, tasks, backups, due>> /\ work[s].pc \in {"waitUp", "waitDown"}
    BY <1>4, Zenon DEF WaitScale
  <2>2. CASE Continue(s, "restore") /\ work[s].pc = "waitUp"
    <3>1. work' = [work EXCEPT ![s].pc = "restore"] /\ UNCHANGED <<cm, serving>>
      BY <2>2, Zenon DEF Continue
    <3>2. work[s].mode = "active" /\ daemon[s].replicas = 1 /\ daemon[s].up
      BY <1>4, <1>a, <2>2, Zenon DEF Control, UpSteps, WaitScale, ScaleDone
    <3>3. Control(s)' /\ work'[s].pc = "restore"
      BY <1>a, <2>1, <3>1, <3>2, GoOnControl, Zenon DEF Pcs, UpSteps, RestoreSteps, DownSteps
    <3> QED
      BY <1>a, <2>1, <3>3, ControlStep, Zenon
  <2>3. CASE Continue(s, "done")
    <3>1. Report(s, "done")
      BY <2>3, Zenon DEF Continue
    <3>2. IF work[s].mode = "active" THEN daemon[s].replicas = 1 ELSE daemon[s].replicas = 0
      BY <1>a, <2>1, Zenon DEF Control, UpSteps, RestoreSteps, DownSteps
    <3>3. Control(s)' /\ work'[s].pc = "idle"
      BY <1>a, <2>1, <3>1, <3>2, ReportControl, Zenon
    <3> QED
      BY <1>a, <2>1, <3>3, ControlStep, Zenon
  <2> QED
    BY <1>4, <2>1, <2>2, <2>3, Zenon DEF WaitScale
<1>5. CASE WaitBackup(s)
  <2>1. /\ UNCHANGED <<daemon, tasks, backups, due>> /\ work[s].pc = "waitBackup"
        /\ JobStatus(s) = "successful" /\ Continue(s, "scaleDown")
    BY <1>5, Zenon DEF WaitBackup, BackupDone
  <2>3. work' = [work EXCEPT ![s].pc = "scaleDown"] /\ UNCHANGED <<cm, serving>>
    BY <2>1, Zenon DEF Continue
  <2>4. work[s].mode = "standby"
    BY <1>a, <2>1, Zenon DEF Control, DownSteps
  <2>5. Control(s)' /\ work'[s].pc = "scaleDown"
    BY <1>a, <2>1, <2>3, <2>4, GoOnControl, Zenon DEF Pcs, UpSteps, RestoreSteps, DownSteps
  <2> QED
    BY <2>1, <2>5, ControlStep, Zenon
<1>6. CASE WaitRestore(s)
  <2>1. /\ UNCHANGED <<daemon, tasks, backups, due>> /\ work[s].pc = "waitRestore"
        /\ Continue(s, "readyAgain")
    BY <1>6, Zenon DEF WaitRestore
  <2>2. work' = [work EXCEPT ![s].pc = "readyAgain"] /\ UNCHANGED <<cm, serving>>
    BY <2>1, Zenon DEF Continue
  <2>3. work[s].mode = "active" /\ daemon[s].replicas = 1 /\ daemon[s].up
    BY <1>a, <2>1, Zenon DEF Control, UpSteps, RestoreSteps
  <2>4. Control(s)' /\ work'[s].pc = "readyAgain"
    BY <1>a, <2>1, <2>2, <2>3, GoOnControl, Zenon DEF Pcs, UpSteps, RestoreSteps, DownSteps
  <2> QED
    BY <1>a, <2>1, <2>4, ControlStep, Zenon
<1>7. CASE NothingToRestore(s) \/ CheckReadyAgain(s)
  <2>1. /\ UNCHANGED <<daemon, tasks, backups, due>> /\ work[s].pc \in {"restore", "readyAgain"}
        /\ Continue(s, "done")
    BY <1>7, Zenon DEF NothingToRestore, CheckReadyAgain
  <2>2. Report(s, "done")
    BY <2>1, Zenon DEF Continue
  <2>3. work[s].mode = "active" /\ daemon[s].replicas = 1
    BY <1>a, <2>1, Zenon DEF Control, UpSteps
  <2>4. Control(s)' /\ work'[s].pc = "idle"
    BY <1>a, <2>1, <2>2, <2>3, ReportControl, ZenonT(30)
  <2> QED
    BY <1>a, <2>1, <2>4, ControlStep, Zenon
<1>8. CASE TimesOut(s) \/ StepFails(s)
  <2>1. /\ UNCHANGED <<daemon, tasks, backups, due>> /\ work[s].pc # "idle"
        /\ Report(s, "failed")
    BY <1>8, Zenon DEF TimesOut, StepFails
  <2>2. Control(s)' /\ work'[s].pc = "idle"
    BY <1>a, <2>1, ReportControl, Zenon
  <2> QED
    BY <1>a, <2>1, <2>2, ControlStep, Zenon
<1> QED
  BY <1>1, <1>2, <1>3, <1>4, <1>5, <1>6, <1>7, <1>8, Zenon

\* A task is accepted from site s.
LEMMA AcceptedFolders ==
    ASSUME Types, NEW s \in Sites, SiteInv(s),
           \/ UNCHANGED <<tasks, backups>>
           \/ AcceptBackup(s)
           \/ Accept(s, "restore", LastFullBackup(s)) /\ UNCHANGED backups
    PROVE  OwnFolders(s)' /\ \A t \in Sites : Grows(t)
<1> DEFINE n == Len(tasks[s])
           m == Len(backups)
<1>a. /\ tasks[s] \in Seq(Jobs(m)) /\ n \in Nat /\ DOMAIN tasks[s] = 1 .. n
      /\ backups \in Seq(Vaults) /\ m \in Nat /\ DOMAIN backups = 1 .. m
  BY DEF Types
<1>b. \A i \in DOMAIN tasks[s] : tasks[s][i].kind = "backup" => backups[tasks[s][i].vault].site = s
  BY Zenon DEF SiteInv, OwnFolders
<1>c. \A i \in 1 .. n + 1 : i = n + 1 \/ i \in 1 .. n
  BY <1>a
<1>1. CASE UNCHANGED backups
  <2>1. \A t \in Sites : Grows(t)
    BY <1>1, Zenon DEF Grows
  <2>2. CASE UNCHANGED tasks
    BY <1>1, <1>b, <2>1, <2>2, Zenon DEF OwnFolders
  <2>3. CASE Accept(s, "restore", LastFullBackup(s))
    <3> DEFINE job == [kind |-> "restore", vault |-> LastFullBackup(s), status |-> "queued"]
    <3>1. tasks'[s] = Append(tasks[s], job)
      BY <2>3, Zenon DEF Accept, Types
    <3>2. job.kind = "restore"
      BY Zenon
    <3> HIDE DEF job
    <3>3. /\ DOMAIN tasks'[s] = 1 .. n + 1
          /\ tasks'[s][n + 1] = job
          /\ \A i \in 1 .. n : tasks'[s][i] = tasks[s][i]
      BY <1>a, <3>1
    <3> QED
      BY <1>1, <1>a, <1>b, <1>c, <2>1, <3>2, <3>3, Zenon DEF OwnFolders
  <2>4. CASE AcceptBackup(s)
    <3>1. Len(backups') = m + 1
      BY <2>4, AcceptBackupTypes, Zenon
    <3> QED
      BY <1>1, <1>a, <3>1
  <2> QED
    BY <2>2, <2>3, <2>4, Zenon
<1>2. CASE AcceptBackup(s)
  <2>1. /\ backups' \in Seq(Vaults) /\ Len(backups') = m + 1
        /\ \A i \in DOMAIN backups : backups'[i] = backups[i]
        /\ backups'[m + 1].site = s
        /\ tasks' \in [Sites -> Seq(Jobs(Len(backups')))]
        /\ Len(tasks'[s]) = n + 1
        /\ \A i \in DOMAIN tasks[s] : tasks'[s][i] = tasks[s][i]
        /\ tasks'[s][n + 1] = [kind |-> "backup", vault |-> m + 1, status |-> "queued"]
    BY <1>2, AcceptBackupTypes, Zenon
  <2>2. \A i \in DOMAIN backups : i \in DOMAIN backups'
    BY <1>a, <2>1
  <2>3. \A t \in Sites : Grows(t)
    BY <2>1, <2>2, Zenon DEF Grows
  <2>4. DOMAIN tasks'[s] = 1 .. n + 1
    <3>1. tasks'[s] \in Seq(Jobs(Len(backups')))
      BY <2>1, Zenon
    <3> QED
      BY <2>1, <3>1
  <2>5. \A i \in DOMAIN tasks[s] : tasks[s][i].vault \in DOMAIN backups
    <3>1. \A i \in DOMAIN tasks[s] : tasks[s][i] \in Jobs(m)
      BY <1>a
    <3> QED
      BY <1>a, <3>1, Zenon DEF Jobs
  <2>6. tasks'[s][n + 1].vault = m + 1
    BY <2>1
  <2>7. ASSUME NEW i \in DOMAIN tasks'[s], tasks'[s][i].kind = "backup"
        PROVE  backups'[tasks'[s][i].vault].site = s
    <3>1. CASE i = n + 1
      BY <2>1, <2>6, <3>1, Zenon
    <3>2. CASE i \in DOMAIN tasks[s]
      <4>1. tasks'[s][i] = tasks[s][i]
        BY <2>1, <3>2, Zenon
      <4>2. backups'[tasks[s][i].vault] = backups[tasks[s][i].vault]
        BY <2>1, <2>5, <3>2, Zenon
      <4> QED
        BY <1>b, <2>7, <3>2, <4>1, <4>2, Zenon
    <3> QED
      BY <1>a, <1>c, <2>4, <3>1, <3>2, Zenon
  <2>8. OwnFolders(s)'
    BY <2>7, Zenon DEF OwnFolders
  <2> QED
    BY <2>3, <2>8, Zenon
<1> QED
  BY <1>1, <1>2, Zenon

\* The requests to the backup daemon.
LEMMA RequestSteps ==
    ASSUME Types, NEW s \in Sites, SiteInv(s), PostBackup(s) \/ PostRestore(s) \/ NoAnswer(s)
    PROVE  SiteInv(s)'
<1>a. Control(s) /\ Len(tasks[s]) + 1 \in Nat /\ 0 \in Nat
  BY DEF SiteInv, Types
<1>1. UNCHANGED <<cm, daemon, serving, due>>
  BY Zenon DEF PostBackup, PostRestore, NoAnswer
<1>2. OwnFolders(s)'
  BY AcceptedFolders, Zenon DEF PostBackup, PostRestore, NoAnswer
<1>3. CASE work' = work
  BY <1>1, <1>2, <1>3, <1>a, Zenon DEF SiteInv, Control
<1>4. ASSUME NEW pc \in {"waitBackup", "waitRestore", "hung"}, work'[s].pc = pc,
             work'[s].mode = work[s].mode,
             \/ work[s].pc = "backup" /\ pc = "waitBackup"
             \/ work[s].pc = "restore" /\ pc = "waitRestore"
             \/ work[s].pc # "idle" /\ pc = "hung"
      PROVE  SiteInv(s)'
  <2>1. Control(s)'
    BY <1>1, <1>4, <1>a, ZenonT(30) DEF Control, UpSteps, RestoreSteps, DownSteps
  <2> QED
    BY <1>2, <2>1, Zenon DEF SiteInv
<1>5. CASE PostBackup(s)
  <2>1. /\ work[s].pc = "backup"
        /\ \/ work' = work
           \/ \E j \in Nat : work' = [work EXCEPT ![s].pc = "waitBackup", ![s].job = j]
    BY <1>5, <1>a, Zenon DEF PostBackup
  <2>2. work' = work \/ (work'[s].pc = "waitBackup" /\ work'[s].mode = work[s].mode)
    BY <2>1, AskedTypes, Zenon DEF Pcs
  <2> QED
    BY <1>3, <1>4, <2>1, <2>2, Zenon
<1>6. CASE PostRestore(s)
  <2>1. /\ work[s].pc = "restore"
        /\ \/ work' = work
           \/ \E j \in Nat : work' = [work EXCEPT ![s].pc = "waitRestore", ![s].job = j]
    BY <1>6, <1>a, Zenon DEF PostRestore
  <2>2. work' = work \/ (work'[s].pc = "waitRestore" /\ work'[s].mode = work[s].mode)
    BY <2>1, AskedTypes, Zenon DEF Pcs
  <2> QED
    BY <1>3, <1>4, <2>1, <2>2, Zenon
<1>7. CASE NoAnswer(s)
  <2>1. work[s].pc # "idle" /\ work' = [work EXCEPT ![s].pc = "hung"]
    BY <1>7, Zenon DEF NoAnswer
  <2>2. work'[s].pc = "hung" /\ work'[s].mode = work[s].mode
    BY <2>1, GoOnTypes, Zenon DEF Pcs
  <2> QED
    BY <1>4, <2>1, <2>2, Zenon
<1> QED
  BY <1>5, <1>6, <1>7, Zenon

\* The backup daemon ends its oldest task: the storage of the other sites is
\* not touched.
LEMMA TaskSteps ==
    ASSUME Types, NEW s \in Sites, SiteInv(s), RunTask(s)
    PROVE  SiteInv(s)' /\ \A t \in Sites \ {s} : Grows(t) /\ data'[t] = data[t]
<1> DEFINE i == Min(Queued(s))
           v == tasks[s][i].vault
<1>a. Control(s) /\ OwnFolders(s)
  BY Zenon DEF SiteInv
<1>b. UNCHANGED <<cm, work, daemon, serving, due>>
  BY Zenon DEF RunTask
<1>c. i \in DOMAIN tasks[s]
  BY QueueHead, Zenon DEF RunTask
<1>d. /\ tasks[s] \in Seq(Jobs(Len(backups))) /\ tasks[s][i] \in Jobs(Len(backups))
      /\ DOMAIN backups = 1 .. Len(backups)
      /\ data \in [Sites -> SUBSET Nat] /\ data[s] \in SUBSET Nat
  BY <1>c DEF Types
<1>e. v \in DOMAIN backups /\ \A j \in DOMAIN tasks[s] : tasks[s][j].vault \in DOMAIN backups
  <2>1. \A j \in DOMAIN tasks[s] : tasks[s][j] \in Jobs(Len(backups))
    BY <1>d
  <2> QED
    BY <1>c, <1>d, <2>1, Zenon DEF Jobs
<1>f. Control(s)'
  BY <1>a, <1>b, Zenon DEF Control
<1>g. PICK status \in {"successful", "failed"} : tasks' = [tasks EXCEPT ![s][i].status = status]
  BY Zenon DEF RunTask
<1>h. \/ backups' = backups
      \/ /\ backups' = [backups EXCEPT ![v].data = data[s], ![v].valid = TRUE]
         /\ tasks[s][i].kind = "backup"
  BY Zenon DEF RunTask
<1>i. data' = data \/ data' = [data EXCEPT ![s] = backups[v].data]
  BY Zenon DEF RunTask
<1> HIDE DEF i
<1>1. /\ DOMAIN tasks'[s] = DOMAIN tasks[s]
      /\ \A j \in DOMAIN tasks[s] : /\ tasks'[s][j].kind = tasks[s][j].kind
                                    /\ tasks'[s][j].vault = tasks[s][j].vault
  <2>1. /\ DOMAIN tasks'[s] = DOMAIN tasks[s]
        /\ \A j \in DOMAIN tasks[s] \ {i} : tasks'[s][j] = tasks[s][j]
        /\ tasks'[s][i] = [tasks[s][i] EXCEPT !.status = status]
    BY <1>c, <1>g, JobTypes, Zenon
  <2>2. tasks'[s][i].kind = tasks[s][i].kind /\ tasks'[s][i].vault = tasks[s][i].vault
    BY <1>d, <2>1, Zenon DEF Jobs
  <2> QED
    BY <2>1, <2>2, Zenon
<1>2. /\ DOMAIN backups' = DOMAIN backups
      /\ \A j \in DOMAIN backups : /\ backups'[j].site = backups[j].site
                                   /\ backups'[j] = backups[j] \/ backups[j].site = s
  <2>1. CASE backups' = backups
    BY <2>1, Zenon
  <2>2. CASE /\ backups' = [backups EXCEPT ![v].data = data[s], ![v].valid = TRUE]
             /\ tasks[s][i].kind = "backup"
    <3>1. /\ DOMAIN backups' = DOMAIN backups
          /\ \A j \in DOMAIN backups \ {v} : backups'[j] = backups[j]
          /\ backups'[v].site = backups[v].site
      BY <1>d, <1>e, <2>2, VaultTypes, ZenonT(30)
    <3>2. backups[v].site = s
      BY <1>a, <1>c, <2>2, Zenon DEF OwnFolders
    <3> QED
      BY <3>1, <3>2, Zenon
  <2> QED
    BY <1>h, <2>1, <2>2, Zenon
<1>3. OwnFolders(s)'
  BY <1>1, <1>2, <1>a, <1>e DEF OwnFolders
<1>4. \A t \in Sites \ {s} : Grows(t)
  BY <1>2, Zenon DEF Grows
<1>5. \A t \in Sites \ {s} : data'[t] = data[t]
  BY <1>d, <1>i, Zenon
<1> QED
  BY <1>3, <1>4, <1>5, <1>f, Zenon DEF SiteInv

\* The deployment, the schedule, crashes, users and applications.
LEMMA OtherSteps ==
    ASSUME "disabled" \notin Modes, Types, NEW s \in Sites, SiteInv(s),
           \/ DaemonRestart(s) \/ FollowScale(s) \/ ScheduledBackup(s)
           \/ Crash(s) \/ Put(s) \/ Failover(s)
           \/ \E m \in Modes : Switch(s, m)
    PROVE  SiteInv(s)'
<1>a. Control(s) /\ OwnFolders(s)
  BY Zenon DEF SiteInv
<1>b. /\ daemon \in [Sites -> [replicas : {0, 1}, up : BOOLEAN]]
      /\ work \in [Sites -> Works] /\ cm \in [Sites -> States]
      /\ due \in [Sites -> SUBSET Nat]
  BY Zenon DEF Types
<1>1. CASE DaemonRestart(s) \/ FollowScale(s)
  <2>1. UNCHANGED <<cm, work, backups, serving, due>> /\ Forget(s)
    BY <1>1, Zenon DEF DaemonRestart, FollowScale
  <2>2. /\ daemon'[s].replicas = daemon[s].replicas
        /\ daemon[s].replicas = 1 /\ daemon[s].up => daemon'[s].up
    BY <1>1, <1>b DEF DaemonRestart, FollowScale
  <2>3. /\ DOMAIN tasks'[s] = DOMAIN tasks[s]
        /\ \A j \in DOMAIN tasks[s] : /\ tasks'[s][j].kind = tasks[s][j].kind
                                      /\ tasks'[s][j].vault = tasks[s][j].vault
    BY <2>1, ForgetTypes, Zenon
  <2>4. work[s].pc \in RestoreSteps => daemon'[s].up
    BY <1>a, <2>2, Zenon DEF Control, RestoreSteps, UpSteps
  <2>5. OwnFolders(s)' /\ Control(s)'
    BY <1>a, <2>1, <2>2, <2>3, <2>4, Zenon DEF OwnFolders, Control
  <2> QED
    BY <2>5, Zenon DEF SiteInv
<1>2. CASE ScheduledBackup(s)
  <2>1. UNCHANGED <<cm, work, daemon, serving, due>> /\ AcceptBackup(s)
    BY <1>2, Zenon DEF ScheduledBackup
  <2>2. OwnFolders(s)'
    BY <2>1, AcceptedFolders, Zenon
  <2>3. Control(s)'
    BY <1>a, <2>1, Zenon DEF Control
  <2> QED
    BY <2>2, <2>3, Zenon DEF SiteInv
<1>3. CASE Crash(s)
  <2>1. UNCHANGED <<cm, daemon, tasks, backups, serving, due>> /\ work'[s].pc = "idle"
    BY <1>3, <1>b, Zenon DEF Crash, Idle
  <2>2. Control(s)'
    BY <1>a, <2>1, Zenon DEF Control, UpSteps, RestoreSteps, DownSteps
  <2> QED
    BY <2>1, <2>2, ControlStep, Zenon
<1>4. CASE Put(s)
  <2>1. UNCHANGED <<cm, work, daemon, tasks, backups, serving, due>>
    BY <1>4, Zenon DEF Put
  <2>2. Control(s)'
    BY <1>a, <2>1, Zenon DEF Control
  <2> QED
    BY <2>1, <2>2, ControlStep, Zenon
<1>5. ASSUME AtRest, NEW m \in {"active", "standby"}, NEW noWait \in BOOLEAN, Post(s, m, noWait),
             m = "active" => s \notin serving
      PROVE  SiteInv(s)'
  <2>1. UNCHANGED <<work, daemon, tasks, backups>> /\ s \notin serving'
    BY <1>5, Zenon DEF Post
  <2>2. work[s].pc = "idle"
    BY <1>5, Zenon DEF AtRest
  <2>3. cm'[s].mode = m /\ cm'[s].smode = cm[s].smode /\ cm'[s].status = cm[s].status
    <3>1. cm' = [cm EXCEPT ![s] = [cm[s] EXCEPT !.mode = m, !.noWait = noWait]]
      BY <1>5, <1>b, Zenon DEF Post
    <3>2. cm[s] \in States
      BY <1>b, Zenon
    <3> QED
      BY <1>b, <3>1, <3>2, Zenon DEF States
  <2>4. m = "active" => due'[s] = {}
    BY <1>5, <1>b, Zenon DEF Post
  <2>5. Control(s)'
    BY <1>a, <2>1, <2>2, <2>3, <2>4, Zenon DEF Control, UpSteps, RestoreSteps, DownSteps
  <2> QED
    BY <2>1, <2>5, ControlStep, Zenon
<1>6. cm[s].smode # "active" \/ cm[s].status = "failed" => s \notin serving
  BY <1>a, Zenon DEF Control
<1>7. CASE Failover(s)
  BY <1>5, <1>6, <1>7, Zenon DEF Failover
<1>8. CASE \E m \in Modes : Switch(s, m)
  <2>1. PICK m \in Modes : Switch(s, m)
    BY <1>8, Zenon
  <2>2. m \in {"active", "standby"}
    BY ConstantsAssumption, Zenon
  <2> QED
    BY <1>5, <1>6, <2>1, <2>2, Zenon DEF Switch
<1> QED
  BY <1>1, <1>2, <1>3, <1>4, <1>7, <1>8, Zenon

\* A step of site s leaves everything of the other sites alone but the
\* storage, which only grows.
LEMMA Locality ==
    ASSUME Types, ModeKnown, NEW s \in Sites, SiteInv(s), NEW t \in Sites \ {s},
           \/ DrStep(s)
           \/ RunTask(s) \/ DaemonRestart(s) \/ FollowScale(s) \/ ScheduledBackup(s)
           \/ Crash(s) \/ Put(s) \/ Failover(s)
           \/ \E m \in Modes : Switch(s, m)
    PROVE  /\ Grows(t)
           /\ cm'[t] = cm[t] /\ work'[t] = work[t] /\ daemon'[t] = daemon[t]
           /\ tasks'[t] = tasks[t] /\ data'[t] = data[t] /\ due'[t] = due[t]
           /\ t \in serving' => t \in serving
<1>a. /\ cm \in [Sites -> States] /\ work \in [Sites -> Works]
      /\ daemon \in [Sites -> [replicas : {0, 1}, up : BOOLEAN]]
      /\ tasks \in [Sites -> Seq(Jobs(Len(backups)))]
      /\ data \in [Sites -> SUBSET Nat] /\ due \in [Sites -> SUBSET Nat]
  BY Zenon DEF Types
<1>1. Grows(t)
  <2>1. UNCHANGED backups => Grows(t)
    BY Zenon DEF Grows
  <2>2. AcceptBackup(s) => Grows(t)
    BY AcceptedFolders, Zenon
  <2>3. RunTask(s) => Grows(t)
    BY TaskSteps, Zenon
  <2>4. DrStep(s) => UNCHANGED backups \/ AcceptBackup(s)
    BY Zenon DEF DrStep, Start, CheckReady, Scale, WaitScale, PostBackup, WaitBackup, PostRestore,
           NothingToRestore, WaitRestore, CheckReadyAgain, TimesOut, NoAnswer, StepFails
  <2> QED
    BY <2>1, <2>2, <2>3, <2>4, Zenon DEF DaemonRestart, FollowScale, ScheduledBackup, Crash, Put,
                                  Failover, Switch, Post
<1>2. cm'[t] = cm[t] /\ work'[t] = work[t] /\ (t \in serving' => t \in serving)
  <2>1. ASSUME NEW status, Report(s, status)
        PROVE  cm'[t] = cm[t] /\ work'[t] = work[t] /\ (t \in serving' => t \in serving)
    BY <1>a, <2>1, Zenon DEF Report
  <2>2. ASSUME NEW pc, Continue(s, pc)
        PROVE  cm'[t] = cm[t] /\ work'[t] = work[t] /\ (t \in serving' => t \in serving)
    BY <1>a, <2>1, <2>2, Zenon DEF Continue
  <2>3. CASE Start(s)
    BY <1>a, <2>3, Zenon DEF Start
  <2>4. CASE CheckReady(s)
    BY <2>2, <2>4, Zenon DEF CheckReady
  <2>5. CASE Scale(s)
    BY <2>1, <2>2, <2>5, Zenon DEF Scale
  <2>6. CASE PostBackup(s) \/ PostRestore(s) \/ NoAnswer(s)
    BY <1>a, <2>6, Zenon DEF PostBackup, PostRestore, NoAnswer
  <2>7. CASE WaitScale(s)
    BY <2>2, <2>7, Zenon DEF WaitScale
  <2>8. CASE WaitBackup(s) \/ NothingToRestore(s) \/ WaitRestore(s) \/ CheckReadyAgain(s)
    BY <2>2, <2>8, Zenon DEF WaitBackup, NothingToRestore, WaitRestore, CheckReadyAgain
  <2>9. CASE TimesOut(s) \/ StepFails(s)
    BY <2>1, <2>9, Zenon DEF TimesOut, StepFails
  <2>10. CASE RunTask(s) \/ DaemonRestart(s) \/ FollowScale(s) \/ ScheduledBackup(s)
              \/ Crash(s) \/ Put(s)
    BY <1>a, <2>10, Zenon DEF RunTask, DaemonRestart, FollowScale, ScheduledBackup, Crash, Put
  <2>11. CASE Failover(s) \/ \E m \in Modes : Switch(s, m)
    BY <1>a, <2>11, Zenon DEF Failover, Switch, Post
  <2> QED
    BY <2>3, <2>4, <2>5, <2>6, <2>7, <2>8, <2>9, <2>10, <2>11, Zenon DEF DrStep
<1>3. daemon'[t] = daemon[t] /\ tasks'[t] = tasks[t] /\ data'[t] = data[t]
  <2>1. ASSUME NEW kind, NEW v, Accept(s, kind, v) PROVE tasks'[t] = tasks[t]
    BY <1>a, <2>1, Zenon DEF Accept
  <2>2. Forget(s) => tasks'[t] = tasks[t]
    BY <1>a, Zenon DEF Forget
  <2>3. CASE RunTask(s)
    BY <1>a, <2>3, Zenon DEF RunTask
  <2>4. CASE PostBackup(s) \/ PostRestore(s) \/ NoAnswer(s) \/ ScheduledBackup(s)
    BY <2>1, <2>4, Zenon DEF PostBackup, PostRestore, NoAnswer, ScheduledBackup, AcceptBackup
  <2>5. CASE DaemonRestart(s) \/ FollowScale(s)
    BY <1>a, <2>2, <2>5, Zenon DEF DaemonRestart, FollowScale
  <2>6. CASE Scale(s) \/ Put(s)
    BY <1>a, <2>6, Zenon DEF Scale, Put
  <2>7. CASE Start(s) \/ CheckReady(s) \/ WaitScale(s) \/ WaitBackup(s) \/ NothingToRestore(s)
             \/ WaitRestore(s) \/ CheckReadyAgain(s) \/ TimesOut(s) \/ StepFails(s)
    BY <2>7, Zenon DEF Start, CheckReady, WaitScale, WaitBackup, NothingToRestore, WaitRestore,
                CheckReadyAgain, TimesOut, StepFails
  <2>8. CASE Crash(s) \/ Failover(s) \/ \E m \in Modes : Switch(s, m)
    BY <2>8, Zenon DEF Crash, Failover, Switch, Post
  <2> QED
    BY <2>3, <2>4, <2>5, <2>6, <2>7, <2>8, Zenon DEF DrStep
<1>4. due'[t] = due[t]
  <2>1. CASE DrStep(s)
    BY <2>1, Zenon DEF DrStep, Start, CheckReady, Scale, WaitScale, PostBackup, WaitBackup,
                PostRestore, NothingToRestore, WaitRestore, CheckReadyAgain, TimesOut, NoAnswer,
                StepFails
  <2>2. CASE RunTask(s) \/ DaemonRestart(s) \/ FollowScale(s) \/ ScheduledBackup(s)
             \/ Crash(s) \/ Put(s)
    BY <2>2, Zenon DEF RunTask, DaemonRestart, FollowScale, ScheduledBackup, Crash, Put
  <2>3. CASE Failover(s) \/ \E m \in Modes : Switch(s, m)
    BY <1>a, <2>3, Zenon DEF Failover, Switch, Post
  <2> QED
    BY <2>1, <2>2, <2>3, Zenon
<1> QED
  BY <1>1, <1>2, <1>3, <1>4, Zenon

LEMMA InitSites == Init => \A s \in Sites : SiteInv(s)
<1> SUFFICES ASSUME Init, NEW s \in Sites PROVE SiteInv(s)
  BY Zenon
<1>1. /\ cm[s].mode = (IF s = FirstActive THEN "active" ELSE "standby")
      /\ cm[s].smode = cm[s].mode /\ cm[s].status = "done"
      /\ daemon[s].replicas = (IF s = FirstActive THEN 1 ELSE 0)
  BY Zenon DEF Init
<1>2. work[s].pc = "idle"
  BY Zenon DEF Init, Idle
<1>3. tasks[s] = <<>> /\ due[s] = {} /\ serving = {FirstActive}
  BY Zenon DEF Init
<1>4. Control(s)
  BY <1>1, <1>2, <1>3, Zenon DEF Control, UpSteps, RestoreSteps, DownSteps
<1>5. OwnFolders(s)
  BY <1>3 DEF OwnFolders
<1> QED
  BY <1>4, <1>5, Zenon DEF SiteInv

\* The inductive invariant is one.
LEMMA SiteSteps ==
    ASSUME "disabled" \notin Modes, IInv, ModeKnown, [Next]_vars
    PROVE  IInv' /\ ModeKnown'
<1>1. Types /\ \A s \in Sites : SiteInv(s)
  BY TypesAre, Zenon DEF IInv
<1>2. Types' /\ ModeKnown'
  BY <1>1, TypesStep, Zenon
<1>3. TypeOK'
  <2>1. TypeOK' <=> Types'
    BY Zenon DEF TypeOK, Types, States, Pcs, Works, Jobs, Vaults
  <2> QED
    BY <1>2, <2>1, Zenon
<1>4. ASSUME NEW t \in Sites PROVE SiteInv(t)'
  <2>1. CASE Next
    <3>1. PICK s \in Sites :
             \/ DrStep(s)
             \/ RunTask(s) \/ DaemonRestart(s) \/ FollowScale(s) \/ ScheduledBackup(s)
             \/ Crash(s) \/ Put(s) \/ Failover(s)
             \/ \E m \in Modes : Switch(s, m)
      BY <2>1, Zenon DEF Next
    <3>2. CASE s = t
      <4>1. SiteInv(s)'
        BY <1>1, <3>1, CallSteps, RequestSteps, TaskSteps, OtherSteps, Zenon DEF DrStep
      <4> QED
        BY <3>2, <4>1, Zenon
    <3>3. CASE s # t
      <4>1. /\ Grows(t)
            /\ cm'[t] = cm[t] /\ work'[t] = work[t] /\ daemon'[t] = daemon[t]
            /\ tasks'[t] = tasks[t] /\ due'[t] = due[t]
            /\ t \in serving' => t \in serving
        BY <1>1, <3>1, <3>3, Locality, Zenon
      <4> QED
        BY <1>1, <4>1, OtherSite, Zenon
    <3> QED
      BY <3>2, <3>3, Zenon
  <2>2. CASE UNCHANGED vars
    <3>1. Grows(t)
      BY <2>2, Zenon DEF vars, Grows
    <3> QED
      BY <1>1, <2>2, <3>1, OtherSite, Zenon DEF vars
  <2> QED
    BY <2>1, <2>2, Zenon
<1> QED
  BY <1>2, <1>3, <1>4, Zenon DEF IInv

LEMMA SitesInvariant ==
    ASSUME "disabled" \notin Modes
    PROVE  Spec => [](IInv /\ ModeKnown)
<1>1. Init => IInv /\ ModeKnown
  BY InitTypes, InitSites, TypesAre, Zenon DEF IInv
<1>2. IInv /\ ModeKnown /\ [Next]_vars => IInv' /\ ModeKnown'
  BY SiteSteps, Zenon
<1> QED
  BY <1>1, <1>2, PTL DEF Spec
-----------------------------------------------------------------------------
(* What a step of a site does to its tasks, the storage and its data.      *)

StepOf(s) ==
    \/ DrStep(s)
    \/ RunTask(s) \/ DaemonRestart(s) \/ FollowScale(s) \/ ScheduledBackup(s)
    \/ Crash(s) \/ Put(s) \/ Failover(s)
    \/ \E m \in Modes : Switch(s, m)

\* A task is added to those of s.
Appended(s, kind, vault) ==
    /\ DOMAIN tasks'[s] = 1 .. Len(tasks[s]) + 1
    /\ \A i \in DOMAIN tasks[s] : tasks'[s][i] = tasks[s][i]
    /\ tasks'[s][Len(tasks[s]) + 1] = [kind |-> kind, vault |-> vault, status |-> "queued"]

\* The oldest task of s ends.
Ended(s, i, status) ==
    /\ i \in DOMAIN tasks[s] /\ tasks[s][i].status = "queued"
    /\ \A j \in DOMAIN tasks[s] : tasks[s][j].status = "queued" => i =< j
    /\ DOMAIN tasks'[s] = DOMAIN tasks[s]
    /\ \A j \in DOMAIN tasks[s] : /\ tasks'[s][j].kind = tasks[s][j].kind
                                  /\ tasks'[s][j].vault = tasks[s][j].vault
                                  /\ j # i => tasks'[s][j] = tasks[s][j]
    /\ tasks'[s][i].status = status

BackupAsked(s) ==
    /\ Appended(s, "backup", Len(backups) + 1)
    /\ DOMAIN backups' = 1 .. Len(backups) + 1
    /\ \A j \in DOMAIN backups : backups'[j] = backups[j]
    /\ backups'[Len(backups) + 1] = [site |-> s, data |-> {}, valid |-> FALSE]
    /\ UNCHANGED <<data, due>>

RestoreAsked(s) ==
    /\ work[s].pc = "restore" /\ daemon[s].up
    /\ UNCHANGED <<cm, daemon, backups, data, due>>
    /\ Appended(s, "restore", LastFullBackup(s))
    /\ LastFullBackup(s) \in Restorable(s)
    /\ \A j \in Restorable(s) : j =< LastFullBackup(s)

BackupEnded(s, i) ==
    LET v == tasks[s][i].vault IN
    /\ Ended(s, i, "successful")
    /\ tasks[s][i].kind = "backup"
    /\ DOMAIN backups' = DOMAIN backups
    /\ \A j \in DOMAIN backups \ {v} : backups'[j] = backups[j]
    /\ v \in DOMAIN backups /\ backups[v].site = s
    /\ backups'[v].site = s /\ backups'[v].data = data[s] /\ backups'[v].valid
    /\ data' = data

RestoreEnded(s, i) ==
    /\ Ended(s, i, "successful")
    /\ tasks[s][i].kind = "restore"
    /\ backups' = backups
    /\ data'[s] = backups[tasks[s][i].vault].data

TaskFailed(s, i) == Ended(s, i, "failed") /\ UNCHANGED <<backups, data>>

TaskEnded(s) ==
    /\ \E i \in DOMAIN tasks[s] : BackupEnded(s, i) \/ RestoreEnded(s, i) \/ TaskFailed(s, i)
    /\ UNCHANGED <<cm, work, daemon, serving, due>>

\* The backup daemon of s stops or starts.
Forgotten(s) ==
    /\ DaemonRestart(s) \/ FollowScale(s)
    /\ DOMAIN tasks'[s] = DOMAIN tasks[s]
    /\ \A j \in DOMAIN tasks[s] : /\ tasks'[s][j].kind = tasks[s][j].kind
                                  /\ tasks'[s][j].vault = tasks[s][j].vault
                                  /\ tasks'[s][j].status = "unknown"

LEMMA EndEffects ==
    ASSUME Types, NEW s \in Sites, SiteInv(s), RunTask(s)
    PROVE  TaskEnded(s)
<1> DEFINE i == Min(Queued(s))
           v == tasks[s][i].vault
<1>1. /\ i \in DOMAIN tasks[s] /\ tasks[s][i].status = "queued"
      /\ \A j \in DOMAIN tasks[s] : tasks[s][j].status = "queued" => i =< j
  BY QueueHead, Zenon DEF RunTask
<1>2. /\ tasks[s][i] \in Jobs(Len(backups))
      /\ DOMAIN backups = 1 .. Len(backups)
      /\ data \in [Sites -> SUBSET Nat] /\ data[s] \in SUBSET Nat
  BY <1>1 DEF Types
<1>3. v \in DOMAIN backups /\ tasks[s][i].kind \in {"backup", "restore"}
  BY <1>2, Zenon DEF Jobs
<1>4. UNCHANGED <<cm, work, daemon, serving, due>>
  BY Zenon DEF RunTask
<1>5. \/ /\ tasks' = [tasks EXCEPT ![s][i].status = "successful"]
         /\ IF tasks[s][i].kind = "backup"
            THEN /\ backups' = [backups EXCEPT ![v].data = data[s], ![v].valid = TRUE]
                 /\ data' = data
            ELSE data' = [data EXCEPT ![s] = backups[v].data] /\ backups' = backups
      \/ /\ tasks' = [tasks EXCEPT ![s][i].status = "failed"]
         /\ UNCHANGED <<backups, data>>
  BY Zenon DEF RunTask
<1> HIDE DEF i
<1>6. ASSUME NEW status \in {"successful", "failed"},
             tasks' = [tasks EXCEPT ![s][i].status = status]
      PROVE  Ended(s, i, status)
  <2>1. /\ DOMAIN tasks'[s] = DOMAIN tasks[s]
        /\ \A j \in DOMAIN tasks[s] \ {i} : tasks'[s][j] = tasks[s][j]
        /\ tasks'[s][i] = [tasks[s][i] EXCEPT !.status = status]
    BY <1>6, <1>1, JobTypes, Zenon
  <2>2. /\ tasks'[s][i].kind = tasks[s][i].kind /\ tasks'[s][i].vault = v
        /\ tasks'[s][i].status = status
    BY <1>2, <2>1, Zenon DEF Jobs
  <2> QED
    BY <1>1, <2>1, <2>2, Zenon DEF Ended
<1>7. CASE /\ tasks' = [tasks EXCEPT ![s][i].status = "successful"]
           /\ tasks[s][i].kind = "backup"
           /\ backups' = [backups EXCEPT ![v].data = data[s], ![v].valid = TRUE]
           /\ data' = data
  <2>1. /\ DOMAIN backups' = DOMAIN backups
        /\ \A j \in DOMAIN backups \ {v} : backups'[j] = backups[j]
        /\ backups'[v].site = backups[v].site
        /\ backups'[v].data = data[s] /\ backups'[v].valid
    BY <1>7, <1>2, <1>3, VaultTypes, Zenon
  <2>2. backups[v].site = s
    BY <1>7, <1>1, Zenon DEF SiteInv, OwnFolders
  <2>3. Ended(s, i, "successful")
    BY <1>6, <1>7, Zenon
  <2>4. BackupEnded(s, i)
    BY <1>3, <1>7, <2>1, <2>2, <2>3, Zenon DEF BackupEnded
  <2> QED
    BY <1>1, <1>4, <2>4, Zenon DEF TaskEnded
<1>8. CASE /\ tasks' = [tasks EXCEPT ![s][i].status = "successful"]
           /\ tasks[s][i].kind = "restore"
           /\ data' = [data EXCEPT ![s] = backups[v].data] /\ backups' = backups
  <2>1. Ended(s, i, "successful") /\ data'[s] = backups[v].data
    BY <1>2, <1>6, <1>8, Zenon
  <2>2. RestoreEnded(s, i)
    BY <1>8, <2>1, Zenon DEF RestoreEnded
  <2> QED
    BY <1>1, <1>4, <2>2, Zenon DEF TaskEnded
<1>9. CASE /\ tasks' = [tasks EXCEPT ![s][i].status = "failed"]
           /\ UNCHANGED <<backups, data>>
  <2>1. TaskFailed(s, i)
    BY <1>6, <1>9, Zenon DEF TaskFailed
  <2> QED
    BY <1>1, <1>4, <2>1, Zenon DEF TaskEnded
<1>10. "backup" # "restore"
  BY Zenon
<1> QED
  BY <1>3, <1>5, <1>7, <1>8, <1>9, <1>10, Zenon

LEMMA AskEffects ==
    ASSUME Types, NEW s \in Sites, AcceptBackup(s), UNCHANGED <<data, due>>
    PROVE  BackupAsked(s)
<1>1. /\ backups' \in Seq(Vaults) /\ Len(backups') = Len(backups) + 1
      /\ \A i \in DOMAIN backups : backups'[i] = backups[i]
      /\ tasks' \in [Sites -> Seq(Jobs(Len(backups')))]
      /\ Len(tasks'[s]) = Len(tasks[s]) + 1
      /\ \A i \in DOMAIN tasks[s] : tasks'[s][i] = tasks[s][i]
      /\ tasks'[s][Len(tasks[s]) + 1] =
            [kind |-> "backup", vault |-> Len(backups) + 1, status |-> "queued"]
  BY AcceptBackupTypes, Zenon
<1>2. tasks'[s] \in Seq(Jobs(Len(backups')))
  BY <1>1, Zenon
<1>3. DOMAIN backups' = 1 .. Len(backups) + 1 /\ DOMAIN tasks'[s] = 1 .. Len(tasks[s]) + 1
  BY <1>1, <1>2
<1>4. backups'[Len(backups) + 1] = [site |-> s, data |-> {}, valid |-> FALSE]
  BY DEF AcceptBackup, Types
<1> QED
  BY <1>1, <1>3, <1>4, Zenon DEF BackupAsked, Appended

LEMMA RestoreEffects ==
    ASSUME Types, NEW s \in Sites, work[s].pc = "restore", daemon[s].up, Restorable(s) # {},
           Accept(s, "restore", LastFullBackup(s)), UNCHANGED <<cm, daemon, backups, data, due>>
    PROVE  RestoreAsked(s)
<1>1. /\ LastFullBackup(s) \in 1 .. Len(backups) /\ LastFullBackup(s) \in Restorable(s)
      /\ \A j \in Restorable(s) : LastFullBackup(s) >= j
  BY RestorableTypes, Zenon
<1>2. Len(backups) \in Nat
  BY DEF Types
<1>3. /\ tasks' \in [Sites -> Seq(Jobs(Len(backups)))]
      /\ Len(tasks'[s]) = Len(tasks[s]) + 1
      /\ \A i \in DOMAIN tasks[s] : tasks'[s][i] = tasks[s][i]
      /\ tasks'[s][Len(tasks[s]) + 1] =
            [kind |-> "restore", vault |-> LastFullBackup(s), status |-> "queued"]
  <2>1. tasks \in [Sites -> Seq(Jobs(Len(backups)))] /\ "restore" \in {"backup", "restore"}
    BY Zenon DEF Types
  <2> QED
    BY <1>1, <1>2, <2>1, AcceptTypes, Zenon
<1>4. DOMAIN tasks'[s] = 1 .. Len(tasks[s]) + 1
  BY <1>3
<1>5. \A j \in Restorable(s) : j =< LastFullBackup(s)
  BY <1>1, Zenon
<1> QED
  BY <1>1, <1>3, <1>4, <1>5, Zenon DEF RestoreAsked, Appended

LEMMA Effects ==
    ASSUME "rejected" \notin Faults, Types, NEW s \in Sites, SiteInv(s), StepOf(s)
    PROVE  \/ UNCHANGED <<tasks, backups, data>>
           \/ Put(s)
           \/ BackupAsked(s)
           \/ RestoreAsked(s)
           \/ TaskEnded(s)
           \/ Forgotten(s)
<1>1. CASE RunTask(s)
  BY <1>1, EndEffects, Zenon
<1>2. CASE PostBackup(s)
  BY <1>2, AskEffects, Zenon DEF PostBackup, Fault
<1>3. CASE ScheduledBackup(s)
  BY <1>3, AskEffects, Zenon DEF ScheduledBackup
<1>4. CASE PostRestore(s)
  BY <1>4, RestoreEffects, Zenon DEF PostRestore, Fault
<1>5. CASE NoAnswer(s)
  BY <1>5, AskEffects, RestoreEffects, Zenon DEF NoAnswer
<1>6. CASE DaemonRestart(s) \/ FollowScale(s)
  <2>1. Forget(s)
    BY <1>6, Zenon DEF DaemonRestart, FollowScale
  <2> QED
    BY <1>6, <2>1, ForgetTypes, Zenon DEF Forgotten
<1>7. CASE \/ Start(s) \/ CheckReady(s) \/ Scale(s) \/ WaitScale(s) \/ WaitBackup(s)
           \/ NothingToRestore(s) \/ WaitRestore(s) \/ CheckReadyAgain(s) \/ TimesOut(s)
           \/ StepFails(s)
  BY <1>7, Zenon DEF Start, CheckReady, Scale, WaitScale, WaitBackup, NothingToRestore, WaitRestore,
                     CheckReadyAgain, TimesOut, StepFails
<1>8. CASE Crash(s) \/ Failover(s) \/ \E m \in Modes : Switch(s, m)
  BY <1>8, Zenon DEF Crash, Failover, Switch, Post
<1> QED
  BY <1>1, <1>2, <1>3, <1>4, <1>5, <1>6, <1>7, <1>8, Zenon DEF StepOf, DrStep

\* How a step of s moves the call of drFunction.
LEMMA Moves ==
    ASSUME "rejected" \notin Faults, Types, NEW s \in Sites, SiteInv(s), StepOf(s),
           work[s].pc # "idle" => work[s].from # "disabled"
    PROVE  /\ work'[s].pc # "idle" => work'[s].from # "disabled"
           /\ work'[s].pc = "waitRestore" =>
                 \/ work'[s] = work[s]
                 \/ RestoreAsked(s) /\ work'[s].job = Len(tasks[s]) + 1
           /\ work'[s].pc = "readyAgain" =>
                 work'[s] = work[s] \/ (WaitRestore(s) /\ UNCHANGED <<tasks, backups, data>>)
           /\ s \in serving' =>
                 \/ s \in serving /\ ~RestoreAsked(s)
                 \/ /\ NothingToRestore(s) \/ CheckReadyAgain(s)
                    /\ UNCHANGED <<tasks, backups, data>>
<1>a. Control(s) /\ work \in [Sites -> Works]
  BY Zenon DEF SiteInv, Types
<1>b. s \in serving => work[s].pc = "idle"
  BY <1>a, Zenon DEF Control
<1>c. ASSUME NEW status, Report(s, status) PROVE work'[s].pc = "idle"
  BY <1>a, <1>c, Zenon DEF Report, Idle
<1>d. ASSUME NEW pc \in Pcs, work' = [work EXCEPT ![s].pc = pc]
      PROVE  work'[s].pc = pc /\ work'[s].from = work[s].from
  BY <1>a, <1>d DEF Works
<1>1. CASE Start(s)
  <2>1. cm[s].smode \in {"active", "standby"}
    BY <1>a, Zenon DEF Control
  <2>2. \/ work' = work
        \/ work' = [work EXCEPT ![s] = [pc |-> "ready", mode |-> cm[s].mode, from |-> cm[s].smode,
                                        noWait |-> cm[s].noWait, job |-> 0,
                                        behind |-> Standby \ {s}]]
    BY <1>1, Zenon DEF Start
  <2>3. work' = work \/ (work'[s].pc = "ready" /\ work'[s].from = cm[s].smode)
    BY <1>a, <2>2
  <2>4. work[s].pc = "idle" /\ serving' = serving
    BY <1>1, Zenon DEF Start
  <2>5. ~RestoreAsked(s)
    BY <2>4, Zenon DEF RestoreAsked
  <2> QED
    <3>1. work'[s].pc \in {"idle", "ready"}
      BY <2>3, <2>4, Zenon
    <3>2. work'[s].pc # "idle" => work'[s].from # "disabled"
      BY <2>1, <2>3, <2>4, Zenon
    <3> QED
      BY <2>4, <2>5, <3>1, <3>2, Zenon
<1>2. CASE CheckReady(s)
  <2>1. work[s].pc = "ready" /\ work[s].mode \in {"active", "standby"}
    BY <1>2, <1>a, Zenon DEF CheckReady, Control
  <2>2. \/ \E pc \in {"scaleUp", "backup"} : work' = [work EXCEPT ![s].pc = pc] /\ serving' = serving
        \/ Report(s, "done") /\ work[s].mode = "standby"
    BY <1>2, <2>1, Zenon DEF CheckReady, Continue
  <2>3. CASE Report(s, "done") /\ work[s].mode = "standby"
    <3>1. serving' = serving
      BY <2>3, Zenon DEF Report
    <3> QED
      BY <1>b, <1>c, <2>1, <2>3, <3>1, Zenon
  <2>4. ASSUME NEW pc \in {"scaleUp", "backup"}, work' = [work EXCEPT ![s].pc = pc], serving' = serving
        PROVE  work'[s].pc = pc /\ work'[s].from = work[s].from /\ s \notin serving'
    BY <1>b, <1>d, <2>1, <2>4, Zenon DEF Pcs
  <2> QED
    BY <2>1, <2>2, <2>3, <2>4, Zenon
<1>3. CASE Scale(s)
  <2>1. work[s].pc \in {"scaleUp", "scaleDown"}
    BY <1>3, Zenon DEF Scale
  <2>2. \/ \E pc \in {"waitUp", "waitDown"} : work' = [work EXCEPT ![s].pc = pc] /\ serving' = serving
        \/ Report(s, "failed")
    BY <1>3, Zenon DEF Scale, Continue
  <2>3. CASE Report(s, "failed")
    <3>1. serving' = serving
      BY <2>3, Zenon DEF Report
    <3> QED
      BY <1>b, <1>c, <2>1, <2>3, <3>1, Zenon
  <2>4. ASSUME NEW pc \in {"waitUp", "waitDown"}, work' = [work EXCEPT ![s].pc = pc],
               serving' = serving
        PROVE  work'[s].pc = pc /\ work'[s].from = work[s].from /\ s \notin serving'
    BY <1>b, <1>d, <2>1, <2>4, Zenon DEF Pcs
  <2> QED
    BY <2>1, <2>2, <2>3, <2>4
<1>4. CASE WaitScale(s)
  <2>1. work[s].pc \in {"waitUp", "waitDown"} /\ work[s].from # "disabled"
    BY <1>4, Zenon DEF WaitScale
  <2>2. \/ Continue(s, "restore")
        \/ Continue(s, "done") /\ work[s].pc = "waitDown"
    BY <1>4, <2>1, Zenon DEF WaitScale
  <2>3. CASE Continue(s, "restore")
    <3>1. work' = [work EXCEPT ![s].pc = "restore"] /\ serving' = serving
      BY <2>3, Zenon DEF Continue
    <3>2. work'[s].pc = "restore" /\ work'[s].from = work[s].from
      BY <1>d, <3>1, Zenon DEF Pcs
    <3> QED
      BY <1>b, <2>1, <3>1, <3>2, Zenon
  <2>4. CASE Continue(s, "done") /\ work[s].pc = "waitDown"
    <3>1. Report(s, "done")
      BY <2>4, Zenon DEF Continue
    <3>2. work[s].mode = "standby"
      BY <1>a, <2>4, Zenon DEF Control, DownSteps
    <3>3. serving' = serving
      BY <3>1, <3>2, Zenon DEF Report
    <3> QED
      BY <1>b, <1>c, <2>1, <3>1, <3>3, Zenon
  <2> QED
    BY <2>2, <2>3, <2>4, Zenon
<1>5. CASE PostBackup(s)
  <2>1. Len(tasks[s]) + 1 \in Nat
    BY DEF Types
  <2>2. /\ work[s].pc = "backup" /\ serving' = serving
        /\ \/ work' = work
           \/ \E j \in Nat : work' = [work EXCEPT ![s].pc = "waitBackup", ![s].job = j]
    BY <1>5, <2>1, Zenon DEF PostBackup, Fault
  <2>3. ASSUME NEW j \in Nat, work' = [work EXCEPT ![s].pc = "waitBackup", ![s].job = j]
        PROVE  work'[s].pc = "waitBackup" /\ work'[s].from = work[s].from
    BY <1>a, <2>3 DEF Works
  <2> QED
    BY <1>b, <2>2, <2>3, Zenon
<1>6. CASE PostRestore(s)
  <2>1. Len(tasks[s]) + 1 \in Nat
    BY DEF Types
  <2>2. /\ work[s].pc = "restore" /\ serving' = serving
        /\ \/ work' = work
           \/ work' = [work EXCEPT ![s].pc = "waitRestore", ![s].job = Len(tasks[s]) + 1]
    BY <1>6, Zenon DEF PostRestore, Fault
  <2>3. ASSUME NEW j \in Nat, work' = [work EXCEPT ![s].pc = "waitRestore", ![s].job = j]
        PROVE  work'[s].pc = "waitRestore" /\ work'[s].from = work[s].from /\ work'[s].job = j
    BY <1>a, <2>3 DEF Works
  <2>4. RestoreAsked(s)
    BY <1>6, RestoreEffects, Zenon DEF PostRestore, Fault
  <2> QED
    BY <1>b, <2>1, <2>2, <2>3, <2>4, Zenon
<1>7. CASE WaitBackup(s)
  <2>1. work[s].pc = "waitBackup" /\ work' = [work EXCEPT ![s].pc = "scaleDown"] /\ serving' = serving
    BY <1>7, Zenon DEF WaitBackup, Continue
  <2>2. work'[s].pc = "scaleDown" /\ work'[s].from = work[s].from
    BY <1>d, <2>1, Zenon DEF Pcs
  <2> QED
    BY <1>b, <2>1, <2>2, Zenon
<1>8. CASE WaitRestore(s)
  <2>1. /\ work[s].pc = "waitRestore" /\ work' = [work EXCEPT ![s].pc = "readyAgain"]
        /\ serving' = serving /\ UNCHANGED <<tasks, backups, data>>
    BY <1>8, Zenon DEF WaitRestore, Continue
  <2>2. work'[s].pc = "readyAgain" /\ work'[s].from = work[s].from
    BY <1>d, <2>1, Zenon DEF Pcs
  <2> QED
    BY <1>8, <1>b, <2>1, <2>2, Zenon
<1>9. CASE NothingToRestore(s) \/ CheckReadyAgain(s)
  <2>1. Report(s, "done") /\ UNCHANGED <<tasks, backups, data>>
    BY <1>9, Zenon DEF NothingToRestore, CheckReadyAgain, Continue
  <2> QED
    BY <1>9, <1>c, <2>1, Zenon
<1>10. CASE TimesOut(s) \/ StepFails(s)
  <2>1. Report(s, "failed") /\ work[s].pc # "idle"
    BY <1>10, Zenon DEF TimesOut, StepFails
  <2>2. serving' = serving
    BY <2>1, Zenon DEF Report
  <2> QED
    BY <1>b, <1>c, <2>1, <2>2, Zenon
<1>11. CASE \/ RunTask(s) \/ DaemonRestart(s) \/ FollowScale(s) \/ ScheduledBackup(s) \/ Put(s)
  <2>1. work' = work /\ serving' = serving
    BY <1>11, Zenon DEF RunTask, DaemonRestart, FollowScale, ScheduledBackup, Put
  <2>2. s \in serving => ~RestoreAsked(s)
    BY <1>b, Zenon DEF RestoreAsked
  <2> QED
    BY <2>1, <2>2, Zenon
<1>12. CASE Crash(s)
  <2>1. work'[s].pc = "idle" /\ serving' = serving
    BY <1>12, <1>a, Zenon DEF Crash, Idle
  <2>2. s \in serving => ~RestoreAsked(s)
    BY <1>b, Zenon DEF RestoreAsked
  <2> QED
    BY <2>1, <2>2, Zenon
<1>13. CASE Failover(s) \/ \E m \in Modes : Switch(s, m)
  <2>1. work' = work /\ s \notin serving'
    BY <1>13, Zenon DEF Failover, Switch, Post
  <2> QED
    BY <2>1, Zenon
<1>14. CASE NoAnswer(s)
  <2>1. /\ work[s].pc # "idle" /\ work' = [work EXCEPT ![s].pc = "hung"]
        /\ serving' = serving
    BY <1>14, Zenon DEF NoAnswer
  <2>2. work'[s].pc = "hung" /\ work'[s].from = work[s].from
    BY <1>d, <2>1, Zenon DEF Pcs
  <2> QED
    BY <1>b, <2>1, <2>2, Zenon
<1> QED
  BY <1>1, <1>2, <1>3, <1>4, <1>5, <1>6, <1>7, <1>8, <1>9, <1>10, <1>11, <1>12, <1>13, <1>14, Zenon
     DEF StepOf, DrStep

\* How drFunction goes on, and what it reports.
LEMMA CallMoves ==
    ASSUME "rejected" \notin Faults, Types, NEW s \in Sites, SiteInv(s), StepOf(s),
           work[s].pc # "idle" => work[s].from # "disabled"
    PROVE  /\ daemon'[s].replicas = 0 => daemon[s].replicas = 0 \/ work[s].pc = "scaleDown"
           /\ daemon'[s].up = daemon[s].up \/ FollowScale(s)
           /\ work'[s].pc = "scaleDown" => work'[s] = work[s] \/ WaitBackup(s)
           /\ work'[s].pc = "waitBackup" =>
                 \/ work'[s] = work[s]
                 \/ BackupAsked(s) /\ work'[s].job = Len(tasks[s]) + 1
           /\ work'[s].pc # "idle" =>
                 \/ /\ work[s].pc # "idle"
                    /\ work'[s].mode = work[s].mode /\ work'[s].behind = work[s].behind
                 \/ /\ Start(s) /\ Needed(cm[s])
                    /\ work'[s].mode = cm[s].mode /\ work'[s].behind = Standby \ {s}
           /\ \/ cm'[s] = cm[s] \/ Start(s) \/ AtRest
              \/ /\ work[s].pc # "idle"
                 /\ cm'[s].mode = cm[s].mode /\ cm'[s].smode = work[s].mode
           /\ work[s].pc # "idle" /\ cm'[s].status = "done" =>
                 NothingToRestore(s) \/ CheckReadyAgain(s) \/ work[s].mode = "standby"
<1>a. /\ Control(s) /\ work \in [Sites -> Works] /\ cm \in [Sites -> States]
      /\ daemon \in [Sites -> [replicas : {0, 1}, up : BOOLEAN]]
  BY Zenon DEF SiteInv, Types
<1>b. work[s].pc # "idle" => cm[s].status = "running"
  BY <1>a, Zenon DEF Control
<1>c. ASSUME NEW status \in {"done", "failed"}, Report(s, status)
      PROVE  /\ work'[s].pc = "idle" /\ cm'[s].mode = cm[s].mode
             /\ cm'[s].smode = work[s].mode /\ cm'[s].status = status
  BY <1>a, <1>c DEF Report, Idle, States
<1>d. ASSUME NEW pc \in Pcs, work' = [work EXCEPT ![s].pc = pc]
      PROVE  /\ work'[s].pc = pc /\ work'[s].mode = work[s].mode
             /\ work'[s].behind = work[s].behind
  BY <1>a, <1>d DEF Works
<1>1. CASE Start(s)
  <2>1. /\ work[s].pc = "idle" /\ daemon' = daemon
        /\ \/ work' = work
           \/ /\ Needed(cm[s])
              /\ work' = [work EXCEPT ![s] =
                    [pc |-> "ready", mode |-> cm[s].mode, from |-> cm[s].smode,
                     noWait |-> cm[s].noWait, job |-> 0, behind |-> Standby \ {s}]]
    BY <1>1, Zenon DEF Start
  <2>2. \/ work' = work
        \/ /\ Needed(cm[s]) /\ work'[s].pc = "ready"
           /\ work'[s].mode = cm[s].mode /\ work'[s].behind = Standby \ {s}
    BY <1>a, <2>1
  <2> QED
    BY <1>1, <2>1, <2>2, Zenon
<1>2. CASE CheckReady(s)
  <2>1. /\ work[s].pc = "ready" /\ work[s].mode \in {"active", "standby"} /\ daemon' = daemon
    BY <1>2, <1>a, Zenon DEF CheckReady, Control
  <2>2. \/ \E pc \in {"scaleUp", "backup"} : work' = [work EXCEPT ![s].pc = pc] /\ cm' = cm
        \/ Report(s, "done") /\ work[s].mode = "standby"
    BY <1>2, <2>1, Zenon DEF CheckReady, Continue
  <2>3. CASE Report(s, "done") /\ work[s].mode = "standby"
    BY <1>c, <2>1, <2>3, Zenon
  <2>4. ASSUME NEW pc \in {"scaleUp", "backup"}, work' = [work EXCEPT ![s].pc = pc], cm' = cm
        PROVE  /\ work'[s].pc = pc /\ work'[s].mode = work[s].mode
               /\ work'[s].behind = work[s].behind
    BY <1>d, <2>4, Zenon DEF Pcs
  <2> QED
    BY <1>b, <2>1, <2>2, <2>3, <2>4, Zenon
<1>3. CASE Scale(s)
  <2>1. work[s].pc \in {"scaleUp", "scaleDown"}
    BY <1>3, Zenon DEF Scale
  <2>2. \/ \E pc \in {"waitUp", "waitDown"} : work' = [work EXCEPT ![s].pc = pc] /\ cm' = cm
        \/ Report(s, "failed")
    BY <1>3, Zenon DEF Scale, Continue
  <2>3. daemon' = [daemon EXCEPT ![s].replicas = IF work[s].pc = "scaleUp" THEN 1 ELSE 0]
    BY <1>3, Zenon DEF Scale
  <2>4. /\ daemon'[s].replicas = 0 => work[s].pc = "scaleDown"
        /\ daemon'[s].up = daemon[s].up
    BY <1>a, <2>1, <2>3
  <2>5. CASE Report(s, "failed")
    BY <1>c, <2>1, <2>4, <2>5, Zenon
  <2>6. ASSUME NEW pc \in {"waitUp", "waitDown"}, work' = [work EXCEPT ![s].pc = pc], cm' = cm
        PROVE  /\ work'[s].pc = pc /\ work'[s].mode = work[s].mode
               /\ work'[s].behind = work[s].behind
    BY <1>d, <2>6, Zenon DEF Pcs
  <2> QED
    BY <1>b, <2>1, <2>2, <2>4, <2>5, <2>6
<1>4. CASE WaitScale(s)
  <2>1. /\ work[s].pc \in {"waitUp", "waitDown"} /\ work[s].from # "disabled" /\ daemon' = daemon
    BY <1>4, Zenon DEF WaitScale
  <2>2. \/ Continue(s, "restore")
        \/ Continue(s, "done") /\ work[s].pc = "waitDown"
    BY <1>4, <2>1, Zenon DEF WaitScale
  <2>3. CASE Continue(s, "restore")
    <3>1. work' = [work EXCEPT ![s].pc = "restore"] /\ cm' = cm
      BY <2>3, Zenon DEF Continue
    <3>2. /\ work'[s].pc = "restore" /\ work'[s].mode = work[s].mode
          /\ work'[s].behind = work[s].behind
      BY <1>d, <3>1, Zenon DEF Pcs
    <3> QED
      BY <1>b, <2>1, <3>1, <3>2, Zenon
  <2>4. CASE Continue(s, "done") /\ work[s].pc = "waitDown"
    <3>1. Report(s, "done")
      BY <2>4, Zenon DEF Continue
    <3>2. work[s].mode = "standby"
      BY <1>a, <2>4 DEF Control, DownSteps
    <3> QED
      BY <1>c, <2>1, <3>1, <3>2, Zenon
  <2> QED
    BY <2>2, <2>3, <2>4, Zenon
<1>5. CASE PostBackup(s)
  <2>1. Len(tasks[s]) + 1 \in Nat
    BY DEF Types
  <2>2. /\ work[s].pc = "backup" /\ UNCHANGED <<cm, daemon, data, due>> /\ AcceptBackup(s)
        /\ \/ work' = work
           \/ work' = [work EXCEPT ![s].pc = "waitBackup", ![s].job = Len(tasks[s]) + 1]
    BY <1>5, Zenon DEF PostBackup, Fault
  <2>3. ASSUME NEW j \in Nat, work' = [work EXCEPT ![s].pc = "waitBackup", ![s].job = j]
        PROVE  /\ work'[s].pc = "waitBackup" /\ work'[s].mode = work[s].mode
               /\ work'[s].behind = work[s].behind /\ work'[s].job = j
    BY <1>a, <2>3 DEF Works
  <2>5. BackupAsked(s)
    BY <2>2, AskEffects, Zenon
  <2> QED
    BY <1>b, <2>1, <2>2, <2>3, <2>5, Zenon
<1>6. CASE PostRestore(s)
  <2>1. Len(tasks[s]) + 1 \in Nat
    BY DEF Types
  <2>2. /\ work[s].pc = "restore" /\ UNCHANGED <<cm, daemon>>
        /\ \/ work' = work
           \/ work' = [work EXCEPT ![s].pc = "waitRestore", ![s].job = Len(tasks[s]) + 1]
    BY <1>6, Zenon DEF PostRestore, Fault
  <2>3. ASSUME NEW j \in Nat, work' = [work EXCEPT ![s].pc = "waitRestore", ![s].job = j]
        PROVE  /\ work'[s].pc = "waitRestore" /\ work'[s].mode = work[s].mode
               /\ work'[s].behind = work[s].behind
    BY <1>a, <2>3 DEF Works
  <2> QED
    BY <1>b, <2>1, <2>2, <2>3
<1>7. CASE WaitBackup(s)
  <2>1. /\ work[s].pc = "waitBackup" /\ work' = [work EXCEPT ![s].pc = "scaleDown"]
        /\ UNCHANGED <<cm, daemon>>
    BY <1>7, Zenon DEF WaitBackup, Continue
  <2>2. /\ work'[s].pc = "scaleDown" /\ work'[s].mode = work[s].mode
        /\ work'[s].behind = work[s].behind
    BY <1>d, <2>1, Zenon DEF Pcs
  <2> QED
    BY <1>7, <1>b, <2>1, <2>2, Zenon
<1>8. CASE WaitRestore(s)
  <2>1. /\ work[s].pc = "waitRestore" /\ work' = [work EXCEPT ![s].pc = "readyAgain"]
        /\ UNCHANGED <<cm, daemon>>
    BY <1>8, Zenon DEF WaitRestore, Continue
  <2>2. /\ work'[s].pc = "readyAgain" /\ work'[s].mode = work[s].mode
        /\ work'[s].behind = work[s].behind
    BY <1>d, <2>1, Zenon DEF Pcs
  <2> QED
    BY <1>b, <2>1, <2>2, Zenon
<1>9. CASE NothingToRestore(s) \/ CheckReadyAgain(s)
  <2>1. Report(s, "done") /\ daemon' = daemon /\ work[s].pc # "idle"
    BY <1>9, Zenon DEF NothingToRestore, CheckReadyAgain, Continue
  <2> QED
    BY <1>9, <1>c, <2>1, Zenon
<1>10. CASE TimesOut(s) \/ StepFails(s)
  <2>1. Report(s, "failed") /\ work[s].pc # "idle" /\ daemon' = daemon
    BY <1>10, Zenon DEF TimesOut, StepFails
  <2> QED
    BY <1>c, <2>1, Zenon
<1>11. CASE FollowScale(s)
  <2>1. /\ UNCHANGED <<cm, work>> /\ daemon' = [daemon EXCEPT ![s].up = ~@]
    BY <1>11, Zenon DEF FollowScale
  <2>2. daemon'[s].replicas = daemon[s].replicas
    BY <1>a, <2>1, Zenon
  <2> QED
    BY <1>11, <1>b, <2>1, <2>2, Zenon
<1>12. CASE RunTask(s) \/ DaemonRestart(s) \/ ScheduledBackup(s) \/ Put(s)
  <2>1. UNCHANGED <<cm, work, daemon>>
    BY <1>12, Zenon DEF RunTask, DaemonRestart, ScheduledBackup, Put
  <2> QED
    BY <1>b, <2>1
<1>13. CASE Crash(s)
  <2>1. work'[s].pc = "idle" /\ UNCHANGED <<cm, daemon>>
    BY <1>13, <1>a, Zenon DEF Crash, Idle
  <2> QED
    BY <1>b, <2>1
<1>14. CASE Failover(s) \/ \E m \in Modes : Switch(s, m)
  <2>1. UNCHANGED <<work, daemon>> /\ AtRest
    BY <1>14, Zenon DEF Failover, Switch, Post
  <2>2. work[s].pc = "idle"
    BY <2>1, Zenon DEF AtRest
  <2> QED
    BY <2>1, <2>2
<1>15. CASE NoAnswer(s)
  <2>1. /\ work[s].pc # "idle" /\ work' = [work EXCEPT ![s].pc = "hung"]
        /\ UNCHANGED <<cm, daemon>>
    BY <1>15, Zenon DEF NoAnswer
  <2>2. /\ work'[s].pc = "hung" /\ work'[s].mode = work[s].mode
        /\ work'[s].behind = work[s].behind
    BY <1>d, <2>1, Zenon DEF Pcs
  <2> QED
    BY <1>b, <2>1, <2>2, Zenon
<1> QED
  BY <1>1, <1>2, <1>3, <1>4, <1>5, <1>6, <1>7, <1>8, <1>9, <1>10, <1>11, <1>12, <1>13, <1>14, <1>15,
     Zenon DEF StepOf, DrStep

\* Only a request of a user changes what is due.
LEMMA DueMoves ==
    ASSUME Types, NEW s \in Sites, StepOf(s)
    PROVE  \/ due' = due
           \/ /\ AtRest /\ UNCHANGED <<work, daemon, tasks, backups, data>>
              /\ \/ due'[s] = {} \/ due'[s] = due[s]
                 \/ s \in serving /\ due'[s] = data[s]
<1>1. CASE DrStep(s)
  BY <1>1, Zenon DEF DrStep, Start, CheckReady, Scale, WaitScale, PostBackup, WaitBackup,
              PostRestore, NothingToRestore, WaitRestore, CheckReadyAgain, TimesOut, NoAnswer,
              StepFails
<1>2. CASE RunTask(s) \/ DaemonRestart(s) \/ FollowScale(s) \/ ScheduledBackup(s)
           \/ Crash(s) \/ Put(s)
  BY <1>2, Zenon DEF RunTask, DaemonRestart, FollowScale, ScheduledBackup, Crash, Put
<1>3. CASE Failover(s) \/ \E m \in Modes : Switch(s, m)
  <2>1. due \in [Sites -> SUBSET Nat]
    BY Zenon DEF Types
  <2> QED
    BY <1>3, <2>1, Zenon DEF Failover, Switch, Post
<1> QED
  BY <1>1, <1>2, <1>3, Zenon DEF StepOf

\* Without restores that wait, data only grows.
LEMMA DataGrows ==
    ASSUME "rejected" \notin Faults, Types, NEW s \in Sites, SiteInv(s), StepOf(s), NoRestore(s)
    PROVE  data[s] \subseteq data'[s]
<1>1. CASE Put(s)
  <2>1. data \in [Sites -> SUBSET Nat]
    BY Zenon DEF Types
  <2> QED
    BY <1>1, <2>1, Zenon DEF Put
<1>2. CASE TaskEnded(s)
  <2>1. PICK i \in DOMAIN tasks[s] : BackupEnded(s, i) \/ RestoreEnded(s, i) \/ TaskFailed(s, i)
    BY <1>2, Zenon DEF TaskEnded
  <2>2. ~RestoreEnded(s, i)
    BY Zenon DEF RestoreEnded, Ended, NoRestore
  <2> QED
    BY <2>1, <2>2, Zenon DEF BackupEnded, TaskFailed
<1>3. CASE BackupAsked(s) \/ RestoreAsked(s) \/ Forgotten(s)
  BY <1>3, Zenon DEF BackupAsked, RestoreAsked, Forgotten, DaemonRestart, FollowScale
<1> QED
  BY <1>1, <1>2, <1>3, Effects, Zenon

-----------------------------------------------------------------------------
(* What applications write to an active site.                              *)

\* A restore reads a complete backup of another site.
RestoreFolders(s) ==
    \A i \in DOMAIN tasks[s] :
        tasks[s][i].kind = "restore" => tasks[s][i].vault \in Restorable(s)

\* The restore drFunction waits for is the last one; when it has ended, none is
\* left.
LastRestore(s) ==
    LET job == work[s].job IN
    /\ job \in DOMAIN tasks[s] /\ tasks[s][job].kind = "restore"
    /\ \A i \in DOMAIN tasks[s] :
        tasks[s][i].status = "queued" /\ tasks[s][i].kind = "restore" => i =< job
    /\ tasks[s][job].status # "queued" => NoRestore(s)

\* No restore waits when a site goes into service, nor later.
NoneLeft(s) ==
    /\ work[s].pc # "idle" => work[s].from # "disabled"
    /\ work[s].pc = "waitRestore" => LastRestore(s)
    /\ work[s].pc = "readyAgain" \/ s \in serving => NoRestore(s)

\* The inductive invariant, together with IInv.
WriteInv == \A s \in Sites : RestoreFolders(s) /\ NoneLeft(s)

\* Complete backups stay complete, in their places.
Kept ==
    \A i \in DOMAIN backups : /\ i \in DOMAIN backups'
                              /\ backups'[i].site = backups[i].site
                              /\ backups[i].valid => backups'[i].valid

LEMMA KeptFolders ==
    ASSUME NEW s, Kept
    PROVE  Restorable(s) \subseteq Restorable(s)'
BY Zenon DEF Kept, Restorable

LEMMA StorageKept ==
    ASSUME "rejected" \notin Faults, Types, NEW s \in Sites, SiteInv(s), StepOf(s)
    PROVE  Kept
<1>1. UNCHANGED backups => Kept
  BY Zenon DEF Kept
<1>2. CASE BackupAsked(s)
  <2>1. backups \in Seq(Vaults) /\ DOMAIN backups = 1 .. Len(backups) /\ Len(backups) \in Nat
    BY DEF Types
  <2>2. DOMAIN backups \subseteq DOMAIN backups'
    BY <1>2, <2>1 DEF BackupAsked
  <2> QED
    BY <1>2, <2>2, Zenon DEF BackupAsked, Kept
<1>3. CASE TaskEnded(s)
  <2>1. PICK i \in DOMAIN tasks[s] : BackupEnded(s, i) \/ RestoreEnded(s, i) \/ TaskFailed(s, i)
    BY <1>3, Zenon DEF TaskEnded
  <2>2. CASE BackupEnded(s, i)
    BY <2>2, Zenon DEF BackupEnded, Kept
  <2> QED
    BY <1>1, <2>1, <2>2, Zenon DEF RestoreEnded, TaskFailed
<1>4. CASE Put(s) \/ RestoreAsked(s) \/ Forgotten(s)
  BY <1>1, <1>4, Zenon DEF Put, RestoreAsked, Forgotten, DaemonRestart, FollowScale
<1> QED
  BY <1>1, <1>2, <1>3, <1>4, Effects, Zenon

\* Only a request of drFunction adds a restore.
LEMMA NoRestoreStays ==
    ASSUME "rejected" \notin Faults, Types, NEW s \in Sites, SiteInv(s), StepOf(s), ~RestoreAsked(s),
           NoRestore(s)
    PROVE  NoRestore(s)'
<1>1. UNCHANGED tasks => NoRestore(s)'
  BY Zenon DEF NoRestore
<1>2. CASE BackupAsked(s)
  <2>1. DOMAIN tasks[s] = 1 .. Len(tasks[s]) /\ Len(tasks[s]) \in Nat
    BY DEF Types
  <2>2. \A i \in DOMAIN tasks'[s] : i \in DOMAIN tasks[s] \/ i = Len(tasks[s]) + 1
    BY <1>2, <2>1 DEF BackupAsked, Appended
  <2>3. tasks'[s][Len(tasks[s]) + 1].kind = "backup"
    BY <1>2 DEF BackupAsked, Appended
  <2>4. \A i \in DOMAIN tasks[s] : tasks'[s][i] = tasks[s][i]
    BY <1>2, Zenon DEF BackupAsked, Appended
  <2> QED
    BY <2>2, <2>3, <2>4, Zenon DEF NoRestore
<1>3. CASE TaskEnded(s)
  <2>1. PICK i \in DOMAIN tasks[s], status \in {"successful", "failed"} : Ended(s, i, status)
    BY <1>3, Zenon DEF TaskEnded, BackupEnded, RestoreEnded, TaskFailed
  <2> QED
    BY <2>1 DEF Ended, NoRestore
<1>4. CASE Forgotten(s)
  BY <1>4, Zenon DEF Forgotten, NoRestore
<1>5. CASE Put(s)
  BY <1>1, <1>5, Zenon DEF Put
<1> QED
  BY <1>1, <1>2, <1>3, <1>4, <1>5, Effects, Zenon

LEMMA RestoreFoldersStep ==
    ASSUME "rejected" \notin Faults, Types, NEW s \in Sites, SiteInv(s), StepOf(s),
           RestoreFolders(s)
    PROVE  RestoreFolders(s)'
<1>a. Restorable(s) \subseteq Restorable(s)'
  BY StorageKept, KeptFolders, Zenon
<1>b. DOMAIN tasks[s] = 1 .. Len(tasks[s]) /\ Len(tasks[s]) \in Nat
  BY DEF Types
<1>1. ASSUME DOMAIN tasks'[s] = DOMAIN tasks[s],
             \A j \in DOMAIN tasks[s] : /\ tasks'[s][j].kind = tasks[s][j].kind
                                        /\ tasks'[s][j].vault = tasks[s][j].vault
      PROVE  RestoreFolders(s)'
  BY <1>1, <1>a, Zenon DEF RestoreFolders
<1>2. ASSUME NEW kind, NEW vault, Appended(s, kind, vault),
             kind = "backup" \/ vault \in Restorable(s)
      PROVE  RestoreFolders(s)'
  <2>1. \A i \in DOMAIN tasks'[s] : i \in DOMAIN tasks[s] \/ i = Len(tasks[s]) + 1
    BY <1>2, <1>b DEF Appended
  <2>2. LET t == tasks'[s][Len(tasks[s]) + 1] IN
        t.kind = "restore" => t.vault \in Restorable(s)
    BY <1>2 DEF Appended
  <2>3. \A i \in DOMAIN tasks[s] : tasks'[s][i] = tasks[s][i]
    BY <1>2, Zenon DEF Appended
  <2> QED
    BY <1>a, <2>1, <2>2, <2>3, Zenon DEF RestoreFolders
<1>3. CASE UNCHANGED tasks
  BY <1>1, <1>3, Zenon
<1>4. CASE BackupAsked(s)
  BY <1>2, <1>4, Zenon DEF BackupAsked
<1>5. CASE RestoreAsked(s)
  BY <1>2, <1>5, Zenon DEF RestoreAsked
<1>6. CASE TaskEnded(s)
  BY <1>1, <1>6, Zenon DEF TaskEnded, BackupEnded, RestoreEnded, TaskFailed, Ended
<1>7. CASE Forgotten(s)
  BY <1>1, <1>7, Zenon DEF Forgotten
<1>8. CASE Put(s)
  BY <1>3, <1>8, Zenon DEF Put
<1> QED
  BY <1>3, <1>4, <1>5, <1>6, <1>7, <1>8, Effects, Zenon

\* The restore that drFunction waits for, when the call itself does not move.
LEMMA LastRestoreStays ==
    ASSUME "rejected" \notin Faults, Types, NEW s \in Sites, SiteInv(s), StepOf(s), ~RestoreAsked(s),
           work'[s].job = work[s].job, LastRestore(s)
    PROVE  LastRestore(s)'
<1> DEFINE job == work[s].job
<1>a. DOMAIN tasks[s] = 1 .. Len(tasks[s]) /\ Len(tasks[s]) \in Nat
  BY DEF Types
<1>b. /\ job \in DOMAIN tasks[s] /\ tasks[s][job].kind = "restore"
      /\ \A i \in DOMAIN tasks[s] :
          tasks[s][i].status = "queued" /\ tasks[s][i].kind = "restore" => i =< job
      /\ tasks[s][job].status # "queued" => NoRestore(s)
  BY Zenon DEF LastRestore
<1>c. NoRestore(s) => NoRestore(s)'
  BY NoRestoreStays, Zenon
<1>1. CASE UNCHANGED tasks
  BY <1>1, <1>b, <1>c, Zenon DEF LastRestore
<1>2. CASE BackupAsked(s)
  <2>1. \A i \in DOMAIN tasks'[s] : i \in DOMAIN tasks[s] \/ i = Len(tasks[s]) + 1
    BY <1>2, <1>a DEF BackupAsked, Appended
  <2>2. tasks'[s][Len(tasks[s]) + 1].kind = "backup" /\ job \in DOMAIN tasks'[s]
    BY <1>2, <1>a, <1>b DEF BackupAsked, Appended
  <2>3. \A i \in DOMAIN tasks[s] : tasks'[s][i] = tasks[s][i]
    BY <1>2, Zenon DEF BackupAsked, Appended
  <2>4. "backup" # "restore"
    BY Zenon
  <2> QED
    BY <1>b, <1>c, <2>1, <2>2, <2>3, <2>4, Zenon DEF LastRestore
<1>3. CASE TaskEnded(s)
  <2>1. PICK i \in DOMAIN tasks[s], status \in {"successful", "failed"} : Ended(s, i, status)
    BY <1>3, Zenon DEF TaskEnded, BackupEnded, RestoreEnded, TaskFailed
  <2>2. /\ DOMAIN tasks'[s] = DOMAIN tasks[s]
        /\ \A j \in DOMAIN tasks[s] : /\ tasks'[s][j].kind = tasks[s][j].kind
                                      /\ j # i => tasks'[s][j] = tasks[s][j]
        /\ tasks'[s][i].status = status /\ status # "queued"
        /\ \A j \in DOMAIN tasks[s] : tasks[s][j].status = "queued" => i =< j
    BY <2>1, Zenon DEF Ended
  <2>3. \A j \in DOMAIN tasks'[s] :
          tasks'[s][j].status = "queued" /\ tasks'[s][j].kind = "restore" => j =< job
    BY <1>b, <2>2, Zenon
  <2>4. tasks'[s][job].status # "queued" => NoRestore(s)'
    <3>1. CASE job = i
      <4>1. \A j \in DOMAIN tasks'[s] : tasks'[s][j].status = "queued" => j # i /\ i =< j
        BY <2>2, Zenon
      <4>2. \A j \in DOMAIN tasks'[s] : tasks'[s][j].status = "queued" => tasks'[s][j].kind # "restore"
        BY <1>a, <2>2, <2>3, <3>1, <4>1
      <4>3. \A j \in DOMAIN tasks'[s] : tasks'[s][j].kind \in {"backup", "restore"}
        <5>1. \A j \in DOMAIN tasks[s] : tasks[s][j] \in Jobs(Len(backups))
          BY DEF Types
        <5> QED
          BY <2>2, <5>1, Zenon DEF Jobs
      <4> QED
        BY <4>2, <4>3, Zenon DEF NoRestore
    <3>2. CASE job # i
      BY <1>b, <1>c, <2>2, <3>2, Zenon
    <3> QED
      BY <3>1, <3>2, Zenon
  <2> QED
    BY <1>b, <2>2, <2>3, <2>4, Zenon DEF LastRestore
<1>4. CASE Forgotten(s)
  <2>1. \A j \in DOMAIN tasks'[s] : tasks'[s][j].status # "queued"
    BY <1>4, Zenon DEF Forgotten
  <2>2. NoRestore(s)'
    BY <2>1, Zenon DEF NoRestore
  <2>3. job \in DOMAIN tasks'[s] /\ tasks'[s][job].kind = "restore"
    BY <1>4, <1>b, Zenon DEF Forgotten
  <2> QED
    BY <2>1, <2>2, <2>3, Zenon DEF LastRestore
<1>5. CASE Put(s)
  BY <1>1, <1>5, Zenon DEF Put
<1> QED
  BY <1>1, <1>2, <1>3, <1>4, <1>5, Effects, Zenon

LEMMA NoneLeftStep ==
    ASSUME "rejected" \notin Faults, Types, NEW s \in Sites, SiteInv(s), StepOf(s),
           RestoreFolders(s), NoneLeft(s)
    PROVE  NoneLeft(s)'
<1>a. /\ work'[s].pc # "idle" => work'[s].from # "disabled"
      /\ work'[s].pc = "waitRestore" =>
            \/ work'[s] = work[s]
            \/ RestoreAsked(s) /\ work'[s].job = Len(tasks[s]) + 1
      /\ work'[s].pc = "readyAgain" =>
            work'[s] = work[s] \/ (WaitRestore(s) /\ UNCHANGED <<tasks, backups, data>>)
      /\ s \in serving' =>
            \/ s \in serving /\ ~RestoreAsked(s)
            \/ /\ NothingToRestore(s) \/ CheckReadyAgain(s)
               /\ UNCHANGED <<tasks, backups, data>>
  BY Moves, Zenon DEF NoneLeft
<1>b. RestoreAsked(s) => work[s].pc = "restore"
  BY Zenon DEF RestoreAsked
<1>c. UNCHANGED tasks /\ NoRestore(s) => NoRestore(s)'
  BY Zenon DEF NoRestore
<1>1. ASSUME work'[s].pc = "waitRestore" PROVE LastRestore(s)'
  <2>1. CASE work'[s] = work[s]
    <3>1. LastRestore(s) /\ ~RestoreAsked(s) /\ work'[s].job = work[s].job
      BY <1>1, <1>b, <2>1, Zenon DEF NoneLeft
    <3> QED
      BY <3>1, LastRestoreStays, Zenon
  <2>2. CASE RestoreAsked(s) /\ work'[s].job = Len(tasks[s]) + 1
    <3>1. DOMAIN tasks[s] = 1 .. Len(tasks[s]) /\ Len(tasks[s]) \in Nat
      BY DEF Types
    <3>2. /\ DOMAIN tasks'[s] = 1 .. Len(tasks[s]) + 1
          /\ tasks'[s][Len(tasks[s]) + 1].kind = "restore"
          /\ tasks'[s][Len(tasks[s]) + 1].status = "queued"
      BY <2>2 DEF RestoreAsked, Appended
    <3> QED
      BY <2>2, <3>1, <3>2 DEF LastRestore
  <2> QED
    BY <1>1, <1>a, <2>1, <2>2, Zenon
<1>2. ASSUME work'[s].pc = "readyAgain" PROVE NoRestore(s)'
  <2>1. CASE work'[s] = work[s]
    <3>1. NoRestore(s) /\ ~RestoreAsked(s)
      BY <1>2, <1>b, <2>1, Zenon DEF NoneLeft
    <3> QED
      BY <3>1, NoRestoreStays, Zenon
  <2>2. CASE WaitRestore(s) /\ UNCHANGED <<tasks, backups, data>>
    <3>1. LastRestore(s) /\ JobStatus(s) \in {"successful", "unknown"}
      BY <2>2, Zenon DEF WaitRestore, RestoreDone, NoneLeft
    <3>2. NoRestore(s)
      BY <3>1, Zenon DEF LastRestore, JobStatus
    <3> QED
      BY <1>c, <2>2, <3>2, Zenon
  <2> QED
    BY <1>2, <1>a, <2>1, <2>2, Zenon
<1>3. ASSUME s \in serving' PROVE NoRestore(s)'
  <2>1. CASE s \in serving /\ ~RestoreAsked(s)
    <3>1. NoRestore(s)
      BY <2>1, Zenon DEF NoneLeft
    <3> QED
      BY <2>1, <3>1, NoRestoreStays, Zenon
  <2>2. CASE CheckReadyAgain(s) /\ UNCHANGED <<tasks, backups, data>>
    <3>1. NoRestore(s)
      BY <2>2, Zenon DEF NoneLeft, CheckReadyAgain
    <3> QED
      BY <1>c, <2>2, <3>1, Zenon
  <2>3. CASE NothingToRestore(s) /\ UNCHANGED <<tasks, backups, data>>
    <3>1. Restorable(s) = {}
      BY <2>3, Zenon DEF NothingToRestore
    <3>2. \A i \in DOMAIN tasks[s] : tasks[s][i].kind # "restore"
      BY <3>1, Zenon DEF RestoreFolders
    <3>3. \A i \in DOMAIN tasks[s] : tasks[s][i].kind \in {"backup", "restore"}
      <4>1. \A i \in DOMAIN tasks[s] : tasks[s][i] \in Jobs(Len(backups))
        BY DEF Types
      <4> QED
        BY <4>1, Zenon DEF Jobs
    <3>4. NoRestore(s)
      BY <3>2, <3>3, Zenon DEF NoRestore
    <3> QED
      BY <1>c, <2>3, <3>4, Zenon
  <2> QED
    BY <1>3, <1>a, <2>1, <2>2, <2>3, Zenon
<1> QED
  BY <1>a, <1>1, <1>2, <1>3, Zenon DEF NoneLeft

\* Site t when the step is one of another site.
LEMMA OtherNoneLeft ==
    ASSUME NEW t \in Sites, RestoreFolders(t), NoneLeft(t), Kept,
           work'[t] = work[t], tasks'[t] = tasks[t], t \in serving' => t \in serving
    PROVE  RestoreFolders(t)' /\ NoneLeft(t)'
<1>1. RestoreFolders(t)'
  BY KeptFolders, Zenon DEF RestoreFolders
<1>2. NoRestore(t) => NoRestore(t)'
  BY Zenon DEF NoRestore
<1>3. LastRestore(t) => LastRestore(t)'
  BY <1>2, Zenon DEF LastRestore
<1> QED
  BY <1>1, <1>2, <1>3, Zenon DEF NoneLeft

LEMMA WriteInit == Init => WriteInv
<1> SUFFICES ASSUME Init PROVE WriteInv
  BY Zenon
<1>1. \A s \in Sites : tasks[s] = <<>> /\ work[s].pc = "idle"
  BY Zenon DEF Init, Idle
<1>2. \A s \in Sites : RestoreFolders(s) /\ NoRestore(s)
  BY <1>1 DEF RestoreFolders, NoRestore
<1>3. \A s \in Sites : NoneLeft(s)
  BY <1>1, <1>2, Zenon DEF NoneLeft
<1> QED
  BY <1>2, <1>3, Zenon DEF WriteInv

LEMMA WriteStep ==
    ASSUME "rejected" \notin Faults, Types, ModeKnown, \A s \in Sites : SiteInv(s), WriteInv,
           [Next]_vars
    PROVE  WriteInv' /\ \A t \in serving : data[t] \subseteq data'[t]
<1>a. serving \subseteq Sites
  BY Zenon DEF Types
<1>1. CASE UNCHANGED vars
  <2>1. UNCHANGED <<work, tasks, backups, data, serving>>
    BY <1>1, Zenon DEF vars
  <2>2. Kept
    BY <2>1, Zenon DEF Kept
  <2>3. ASSUME NEW t \in Sites PROVE RestoreFolders(t)' /\ NoneLeft(t)'
    BY <2>1, <2>2, OtherNoneLeft, Zenon DEF WriteInv
  <2> QED
    BY <2>1, <2>3, Zenon DEF WriteInv
<1>2. CASE Next
  <2>1. PICK s \in Sites : StepOf(s)
    BY <1>2, Zenon DEF Next, StepOf
  <2>2. SiteInv(s) /\ RestoreFolders(s) /\ NoneLeft(s)
    BY Zenon DEF WriteInv
  <2>3. Kept /\ RestoreFolders(s)' /\ NoneLeft(s)'
    BY <2>1, <2>2, StorageKept, RestoreFoldersStep, NoneLeftStep, Zenon
  <2>4. ASSUME NEW t \in Sites \ {s}
        PROVE  /\ work'[t] = work[t] /\ tasks'[t] = tasks[t] /\ data'[t] = data[t]
               /\ t \in serving' => t \in serving
    BY <2>1, <2>2, Locality, Zenon DEF StepOf
  <2>5. ASSUME NEW t \in Sites \ {s} PROVE RestoreFolders(t)' /\ NoneLeft(t)'
    BY <2>3, <2>4, OtherNoneLeft, Zenon DEF WriteInv
  <2>6. WriteInv'
    BY <2>3, <2>5, Zenon DEF WriteInv
  <2>7. ASSUME s \in serving PROVE data[s] \subseteq data'[s]
    <3>1. NoRestore(s)
      BY <2>2, <2>7, Zenon DEF NoneLeft
    <3> QED
      BY <2>1, <2>2, <3>1, DataGrows, Zenon
  <2>8. ASSUME NEW t \in serving PROVE data[t] \subseteq data'[t]
    <3>1. CASE t = s
      BY <2>7, <3>1, Zenon
    <3>2. CASE t # s
      <4>1. data'[t] = data[t]
        BY <1>a, <2>4, <3>2, Zenon
      <4> QED
        BY <4>1, Zenon
    <3> QED
      BY <3>1, <3>2, Zenon
  <2> QED
    BY <2>6, <2>8, Zenon
<1> QED
  BY <1>1, <1>2, Zenon

LEMMA WritesInvariant ==
    ASSUME "disabled" \notin Modes, "rejected" \notin Faults
    PROVE  Spec => [](IInv /\ ModeKnown /\ WriteInv)
<1>1. IInv /\ ModeKnown /\ WriteInv /\ [Next]_vars => WriteInv'
  <2>1. IInv => Types /\ \A s \in Sites : SiteInv(s)
    BY TypesAre, Zenon DEF IInv
  <2> QED
    BY <2>1, WriteStep, Zenon
<1> QED
  BY <1>1, WriteInit, SitesInvariant, PTL DEF Spec

\* What applications write to an active site is never overwritten by a restore
\* of an earlier call of drFunction: after every interleaving of calls, tasks,
\* restarts of the daemon and of the backup daemon, lost replies and failovers,
\* for any number of sites.  No request is refused: drFunction takes a refused
\* restore for a completed one and does not wait for the ones before it.
THEOREM WritesStay ==
    ASSUME "disabled" \notin Modes, "rejected" \notin Faults
    PROVE  Spec => WritesKept
<1>1. IInv /\ ModeKnown /\ WriteInv /\ [Next]_vars => \A s \in serving : data[s] \subseteq data'[s]
  <2>1. IInv => Types /\ \A s \in Sites : SiteInv(s)
    BY TypesAre, Zenon DEF IInv
  <2> QED
    BY <2>1, WriteStep, Zenon
<1>2. IInv /\ ModeKnown /\ WriteInv /\ [Next]_vars
        => [\A s \in serving : data[s] \subseteq data'[s]]_vars
  BY <1>1, Zenon
<1> QED
  BY <1>2, WritesInvariant, PTL DEF Spec, WritesKept

-----------------------------------------------------------------------------
(* The backups of a site that goes to standby.                             *)

\* What is due at s is in its data, and no restore waits that would replace it.
DueHeld(s) == due[s] \subseteq data[s] /\ (due[s] = {} \/ NoRestore(s))

\* The complete backups of s from v on have what is due.
From(s, v) == \A j \in Valid(s) : j >= v => due[s] \subseteq backups[j].data

\* The backup drFunction waits for, and those after it, were requested after the
\* switch: one that is complete has what is due.
LastBackup(s) ==
    LET job == work[s].job IN
    /\ job \in DOMAIN tasks[s] /\ tasks[s][job].kind = "backup"
    /\ From(s, tasks[s][job].vault)
    /\ tasks[s][job].status = "successful" => tasks[s][job].vault \in Valid(s)

\* The backup daemon is stopped only after a backup.
Backups(s) ==
    /\ DueHeld(s)
    /\ daemon[s].replicas = 0 \/ work[s].pc = "scaleDown" => BackedUp(s)
    /\ work[s].pc = "waitBackup" => LastBackup(s)

\* The inductive invariant, together with IInv and WriteInv.
BackupInv == \A s \in Sites : Backups(s)

\* A step leaves the complete backups of t as they are.
SameValid(t) ==
    Valid(t)' = Valid(t) /\ \A i \in Valid(t) : backups'[i] = backups[i]

LEMMA AskedValid ==
    ASSUME Types, NEW s \in Sites, NEW t, BackupAsked(s)
    PROVE  SameValid(t)
<1>1. DOMAIN backups = 1 .. Len(backups) /\ Len(backups) \in Nat
  BY DEF Types
<1>2. \A i : i \in DOMAIN backups' <=> i \in DOMAIN backups \/ i = Len(backups) + 1
  BY <1>1 DEF BackupAsked
<1>3. backups'[Len(backups) + 1].valid = FALSE
  BY DEF BackupAsked
<1>4. \A i \in DOMAIN backups : backups'[i] = backups[i]
  BY Zenon DEF BackupAsked
<1> QED
  BY <1>2, <1>3, <1>4, Zenon DEF SameValid, Valid

LEMMA OtherValid ==
    ASSUME "rejected" \notin Faults, Types, NEW s \in Sites, NEW t \in Sites \ {s}, SiteInv(s),
           StepOf(s)
    PROVE  SameValid(t)
<1>1. UNCHANGED backups => SameValid(t)
  BY Zenon DEF SameValid, Valid
<1>2. CASE BackupAsked(s)
  BY <1>2, AskedValid, Zenon
<1>3. CASE TaskEnded(s)
  <2>1. PICK i \in DOMAIN tasks[s] : BackupEnded(s, i) \/ RestoreEnded(s, i) \/ TaskFailed(s, i)
    BY <1>3, Zenon DEF TaskEnded
  <2>2. CASE BackupEnded(s, i)
    BY <2>2, Zenon DEF BackupEnded, SameValid, Valid
  <2> QED
    BY <1>1, <2>1, <2>2, Zenon DEF RestoreEnded, TaskFailed
<1>4. CASE Put(s) \/ RestoreAsked(s) \/ Forgotten(s)
  BY <1>1, <1>4, Zenon DEF Put, RestoreAsked, Forgotten, DaemonRestart, FollowScale
<1> QED
  BY <1>1, <1>2, <1>3, <1>4, Effects, Zenon

\* A step of s adds at most a backup of all its data to the complete ones.
LEMMA OwnValid ==
    ASSUME "rejected" \notin Faults, Types, NEW s \in Sites, SiteInv(s), StepOf(s)
    PROVE  /\ Valid(s) \subseteq Valid(s)'
           /\ \A j \in Valid(s)' : \/ j \in Valid(s) /\ backups'[j] = backups[j]
                                   \/ backups'[j].data = data[s]
<1>1. SameValid(s) => /\ Valid(s) \subseteq Valid(s)'
                      /\ \A j \in Valid(s)' : j \in Valid(s) /\ backups'[j] = backups[j]
  BY Zenon DEF SameValid
<1>2. UNCHANGED backups => SameValid(s)
  BY Zenon DEF SameValid, Valid
<1>3. CASE BackupAsked(s)
  BY <1>1, <1>3, AskedValid, Zenon
<1>4. CASE TaskEnded(s)
  <2>1. PICK i \in DOMAIN tasks[s] : BackupEnded(s, i) \/ RestoreEnded(s, i) \/ TaskFailed(s, i)
    BY <1>4, Zenon DEF TaskEnded
  <2>2. CASE BackupEnded(s, i)
    BY <2>2, Zenon DEF BackupEnded, Valid
  <2> QED
    BY <1>1, <1>2, <2>1, <2>2, Zenon DEF RestoreEnded, TaskFailed
<1>5. CASE Put(s) \/ RestoreAsked(s) \/ Forgotten(s)
  BY <1>1, <1>2, <1>5, Zenon DEF Put, RestoreAsked, Forgotten, DaemonRestart, FollowScale
<1> QED
  BY <1>1, <1>2, <1>3, <1>4, <1>5, Effects, Zenon

LEMMA FromStays ==
    ASSUME "rejected" \notin Faults, Types, NEW s \in Sites, SiteInv(s), StepOf(s),
           due'[s] = due[s], due[s] \subseteq data[s], NEW v, From(s, v)
    PROVE  From(s, v)'
BY OwnValid, Zenon DEF From

LEMMA BackedUpStays ==
    ASSUME "rejected" \notin Faults, Types, NEW s \in Sites, SiteInv(s), StepOf(s),
           due'[s] = due[s], due[s] \subseteq data[s], BackedUp(s)
    PROVE  BackedUp(s)'
<1>1. CASE due[s] = {}
  BY <1>1, Zenon DEF BackedUp
<1>2. CASE due[s] # {}
  <2>1. PICK v \in Valid(s) : From(s, v)
    BY <1>2, Zenon DEF BackedUp, From
  <2>2. v \in Valid(s)' /\ From(s, v)'
    BY <2>1, OwnValid, FromStays, Zenon
  <2> QED
    BY <2>2, Zenon DEF BackedUp, From
<1> QED
  BY <1>1, <1>2, Zenon

\* The backup drFunction waits for, when the call itself does not move.
LEMMA LastBackupStays ==
    ASSUME "rejected" \notin Faults, Types, NEW s \in Sites, SiteInv(s), StepOf(s),
           due'[s] = due[s], due[s] \subseteq data[s], work'[s] = work[s], LastBackup(s)
    PROVE  LastBackup(s)'
<1>0. PICK job, v : job = work[s].job /\ v = tasks[s][job].vault
  BY Zenon
<1>a. DOMAIN tasks[s] = 1 .. Len(tasks[s]) /\ Len(tasks[s]) \in Nat
  BY DEF Types
<1>b. /\ job \in DOMAIN tasks[s] /\ tasks[s][job].kind = "backup" /\ tasks[s][job].vault = v
      /\ From(s, v)
      /\ tasks[s][job].status = "successful" => v \in Valid(s)
  BY <1>0, Zenon DEF LastBackup
<1>c. From(s, v)' /\ (v \in Valid(s) => v \in Valid(s)') /\ work'[s].job = job
  <2>1. From(s, v)'
    BY <1>b, FromStays, Zenon
  <2>2. Valid(s) \subseteq Valid(s)'
    BY OwnValid, Zenon
  <2> QED
    BY <1>0, <2>1, <2>2, Zenon
<1>1. ASSUME job \in DOMAIN tasks'[s], tasks'[s][job].kind = tasks[s][job].kind,
             tasks'[s][job].vault = v,
             tasks'[s][job].status = "successful" =>
                tasks[s][job].status = "successful" \/ v \in Valid(s)'
      PROVE  LastBackup(s)'
  <2>1. tasks'[s][job].status = "successful" => v \in Valid(s)'
    BY <1>1, <1>b, <1>c, Zenon
  <2> QED
    BY <1>1, <1>b, <1>c, <2>1, Zenon DEF LastBackup, From
<1>2. CASE UNCHANGED tasks
  BY <1>1, <1>2, <1>b, Zenon
<1>3. CASE BackupAsked(s) \/ RestoreAsked(s)
  <2>1. DOMAIN tasks'[s] = 1 .. Len(tasks[s]) + 1 /\ tasks'[s][job] = tasks[s][job]
    BY <1>3, <1>b, Zenon DEF BackupAsked, RestoreAsked, Appended
  <2>2. job \in DOMAIN tasks'[s]
    BY <1>a, <1>b, <2>1
  <2> QED
    BY <1>1, <1>b, <2>1, <2>2, Zenon
<1>4. CASE TaskEnded(s)
  <2>1. PICK i \in DOMAIN tasks[s] : BackupEnded(s, i) \/ RestoreEnded(s, i) \/ TaskFailed(s, i)
    BY <1>4, Zenon DEF TaskEnded
  <2>2. PICK status \in {"successful", "failed"} : Ended(s, i, status)
    BY <2>1, Zenon DEF BackupEnded, RestoreEnded, TaskFailed
  <2>3. /\ job \in DOMAIN tasks'[s] /\ tasks'[s][job].kind = tasks[s][job].kind
        /\ tasks'[s][job].vault = v
        /\ job # i => tasks'[s][job] = tasks[s][job]
    BY <1>b, <2>2, Zenon DEF Ended
  <2>4. ASSUME job = i, tasks'[s][job].status = "successful" PROVE v \in Valid(s)'
    <3>1. BackupEnded(s, i)
      BY <1>b, <2>1, <2>4, Zenon DEF RestoreEnded, TaskFailed, Ended
    <3> QED
      BY <1>b, <2>4, <3>1, Zenon DEF BackupEnded, Valid
  <2> QED
    BY <1>1, <2>3, <2>4, Zenon
<1>5. CASE Forgotten(s)
  BY <1>1, <1>5, <1>b, Zenon DEF Forgotten
<1>6. CASE Put(s)
  BY <1>2, <1>6, Zenon DEF Put
<1> QED
  BY <1>2, <1>3, <1>4, <1>5, <1>6, Effects, Zenon

LEMMA DueHeldStep ==
    ASSUME "rejected" \notin Faults, Types, NEW s \in Sites, SiteInv(s), StepOf(s), NoneLeft(s),
           DueHeld(s)
    PROVE  DueHeld(s)'
<1>1. CASE due'[s] = {}
  BY <1>1, Zenon DEF DueHeld
<1>2. CASE UNCHANGED <<tasks, data>> /\ due'[s] = due[s]
  BY <1>2, Zenon DEF DueHeld, NoRestore
<1>3. CASE UNCHANGED <<tasks, data>> /\ s \in serving /\ due'[s] = data[s]
  BY <1>3, Zenon DEF DueHeld, NoneLeft, NoRestore
<1>4. CASE due' = due /\ due[s] # {}
  <2>1. ~RestoreAsked(s)
    BY <1>4, Zenon DEF RestoreAsked, SiteInv, Control, UpSteps
  <2>2. NoRestore(s) /\ due[s] \subseteq data[s]
    BY <1>4, Zenon DEF DueHeld
  <2>3. NoRestore(s)' /\ data[s] \subseteq data'[s]
    BY <2>1, <2>2, NoRestoreStays, DataGrows, Zenon
  <2> QED
    BY <1>4, <2>2, <2>3, Zenon DEF DueHeld
<1> QED
  BY <1>1, <1>2, <1>3, <1>4, DueMoves, Zenon

LEMMA BackupsStep ==
    ASSUME "rejected" \notin Faults, Types, NEW s \in Sites, SiteInv(s), StepOf(s), NoneLeft(s),
           Backups(s)
    PROVE  Backups(s)'
<1>a. /\ DueHeld(s) /\ due[s] \subseteq data[s]
      /\ work[s].pc # "idle" => work[s].from # "disabled"
  BY Zenon DEF Backups, DueHeld, NoneLeft
<1>1. DueHeld(s)'
  BY <1>a, DueHeldStep, Zenon
<1>2. CASE due'[s] # due[s]
  <2>1. /\ AtRest /\ UNCHANGED <<work, daemon>>
        /\ due'[s] = {} \/ s \in serving
    BY <1>2, DueMoves, Zenon
  <2>2. work'[s].pc = "idle"
    BY <2>1, Zenon DEF AtRest
  <2>3. due'[s] = {} \/ daemon'[s].replicas # 0
    <3>1. s \in serving => daemon[s].replicas # 0
      <4>1. s \in serving => daemon[s].replicas = 1
        BY Zenon DEF SiteInv, Control
      <4> QED
        BY <4>1
    <3> QED
      BY <2>1, <3>1, Zenon
  <2> QED
    BY <1>1, <2>2, <2>3, Zenon DEF Backups, BackedUp
<1>3. CASE due'[s] = due[s]
  <2>1. ASSUME daemon'[s].replicas = 0 \/ work'[s].pc = "scaleDown"
        PROVE  BackedUp(s)'
    <3>1. CASE daemon[s].replicas = 0 \/ work[s].pc = "scaleDown"
      BY <1>3, <1>a, <3>1, BackedUpStays, Zenon DEF Backups
    <3>2. CASE WaitBackup(s)
      <4> DEFINE v == tasks[s][work[s].job].vault
      <4>1. work[s].pc = "waitBackup" /\ JobStatus(s) = "successful"
        BY <3>2, Zenon DEF WaitBackup, BackupDone
      <4>2. LastBackup(s) /\ tasks[s][work[s].job].status = "successful"
        BY <4>1, Zenon DEF Backups, JobStatus, LastBackup
      <4>3. v \in Valid(s) /\ From(s, v)
        BY <4>2, Zenon DEF LastBackup
      <4> HIDE DEF v
      <4>4. BackedUp(s)
        BY <4>3, Zenon DEF BackedUp, From
      <4> QED
        BY <1>3, <1>a, <4>4, BackedUpStays, Zenon
    <3> QED
      BY <1>a, <2>1, <3>1, <3>2, CallMoves, Zenon
  <2>2. ASSUME work'[s].pc = "waitBackup" PROVE LastBackup(s)'
    <3>1. CASE work'[s] = work[s]
      <4>1. LastBackup(s)
        BY <2>2, <3>1, Zenon DEF Backups
      <4> QED
        BY <1>3, <1>a, <3>1, <4>1, LastBackupStays, Zenon
    <3>2. CASE BackupAsked(s) /\ work'[s].job = Len(tasks[s]) + 1
      <4>1. Len(tasks[s]) \in Nat /\ DOMAIN backups = 1 .. Len(backups) /\ Len(backups) \in Nat
        BY DEF Types
      <4>2. /\ DOMAIN tasks'[s] = 1 .. Len(tasks[s]) + 1
            /\ tasks'[s][Len(tasks[s]) + 1].kind = "backup"
            /\ tasks'[s][Len(tasks[s]) + 1].vault = Len(backups) + 1
            /\ tasks'[s][Len(tasks[s]) + 1].status = "queued"
        BY <3>2 DEF BackupAsked, Appended
      <4>3. work'[s].job \in DOMAIN tasks'[s]
        BY <3>2, <4>1, <4>2
      <4>4. Valid(s)' = Valid(s) /\ Valid(s) \subseteq 1 .. Len(backups)
        BY <3>2, <4>1, AskedValid, ZenonT(30) DEF SameValid, Valid
      <4>5. \A j \in Valid(s)' : ~(j >= Len(backups) + 1)
        BY <4>1, <4>4
      <4>6. tasks'[s][work'[s].job].kind = "backup"
        BY <3>2, <4>2, Zenon
      <4>7. tasks'[s][work'[s].job].status # "successful"
        BY <3>2, <4>2
      <4>8. \A j \in Valid(s)' : ~(j >= tasks'[s][work'[s].job].vault)
        BY <3>2, <4>2, <4>5, Zenon
      <4> QED
        BY <4>3, <4>6, <4>7, <4>8, Zenon DEF LastBackup, From
    <3> QED
      BY <1>a, <2>2, <3>1, <3>2, CallMoves, Zenon
  <2> QED
    BY <1>1, <2>1, <2>2, Zenon DEF Backups
<1> QED
  BY <1>2, <1>3, Zenon

\* Site t when the step is one of another site.
LEMMA OtherBackups ==
    ASSUME NEW t \in Sites, Backups(t), SameValid(t), work'[t] = work[t], tasks'[t] = tasks[t],
           daemon'[t] = daemon[t], data'[t] = data[t], due'[t] = due[t]
    PROVE  Backups(t)'
<1>1. DueHeld(t)'
  BY Zenon DEF Backups, DueHeld, NoRestore
<1>2. BackedUp(t) => BackedUp(t)'
  BY Zenon DEF BackedUp, SameValid
<1>3. \A v : From(t, v) => \A j \in Valid(t)' : j >= v => due'[t] \subseteq backups'[j].data
  BY Zenon DEF From, SameValid
<1>4. LastBackup(t) => LastBackup(t)'
  BY <1>3, Zenon DEF LastBackup, From, SameValid
<1> QED
  BY <1>1, <1>2, <1>4, Zenon DEF Backups

LEMMA BackupInit == Init => BackupInv
<1> SUFFICES ASSUME Init, NEW s \in Sites PROVE Backups(s)
  BY Zenon DEF BackupInv
<1>1. due[s] = {} /\ work[s].pc = "idle"
  BY Zenon DEF Init, Idle
<1> QED
  BY <1>1, Zenon DEF Backups, DueHeld, BackedUp

LEMMA BackupStep ==
    ASSUME "rejected" \notin Faults, Types, ModeKnown, \A s \in Sites : SiteInv(s), WriteInv,
           BackupInv, [Next]_vars
    PROVE  BackupInv'
<1>1. CASE UNCHANGED vars
  <2>1. UNCHANGED <<work, tasks, daemon, backups, data, due>>
    BY <1>1, Zenon DEF vars
  <2>2. ASSUME NEW t \in Sites PROVE Backups(t)'
    <3>1. SameValid(t)
      BY <2>1, Zenon DEF SameValid, Valid
    <3> QED
      BY <2>1, <3>1, OtherBackups, Zenon DEF BackupInv
  <2> QED
    BY <2>2, Zenon DEF BackupInv
<1>2. CASE Next
  <2>1. PICK s \in Sites : StepOf(s)
    BY <1>2, Zenon DEF Next, StepOf
  <2>2. Backups(s)'
    BY <2>1, BackupsStep, Zenon DEF WriteInv, BackupInv
  <2>3. ASSUME NEW t \in Sites \ {s} PROVE Backups(t)'
    <3>1. /\ work'[t] = work[t] /\ tasks'[t] = tasks[t] /\ data'[t] = data[t]
          /\ daemon'[t] = daemon[t] /\ due'[t] = due[t]
      BY <2>1, Locality, Zenon DEF StepOf
    <3>2. SameValid(t)
      BY <2>1, OtherValid, Zenon
    <3> QED
      BY <3>1, <3>2, OtherBackups, Zenon DEF BackupInv
  <2> QED
    BY <2>2, <2>3, Zenon DEF BackupInv
<1> QED
  BY <1>1, <1>2, Zenon

LEMMA BackupsInvariant ==
    ASSUME "disabled" \notin Modes, "rejected" \notin Faults
    PROVE  Spec => [](IInv /\ ModeKnown /\ WriteInv /\ BackupInv)
<1>1. IInv /\ ModeKnown /\ WriteInv /\ BackupInv /\ [Next]_vars => BackupInv'
  <2>1. IInv => Types /\ \A s \in Sites : SiteInv(s)
    BY TypesAre, Zenon DEF IInv
  <2> QED
    BY <2>1, BackupStep, Zenon
<1> QED
  BY <1>1, BackupInit, WritesInvariant, PTL DEF Spec

\* The backup daemon of a site that reports standby is down, or going down.
LEMMA StandbyIsDown ==
    ASSUME NEW t \in Standby, SiteInv(t)
    PROVE  daemon[t].replicas = 0
BY Zenon DEF SiteInv, Control, Standby

\* A site reports standby only when its latest backup has all that it held when it
\* was switched: with writes at any time, calls that failed or were cut short and
\* were repeated, lost replies, unanswered requests, restarts of both daemons and
\* scheduled backups, for any number of sites.  In mode disabled the daemon is
\* stopped without a backup, and a refused request is waited for in vain.
THEOREM StandbySites ==
    ASSUME "disabled" \notin Modes, "rejected" \notin Faults
    PROVE  Spec => []StandbyIsBackedUp
<1>1. IInv /\ BackupInv => StandbyIsBackedUp
  <2> SUFFICES ASSUME IInv, BackupInv, NEW s \in Standby PROVE BackedUp(s)
    BY Zenon DEF StandbyIsBackedUp
  <2>1. s \in Sites /\ SiteInv(s)
    BY Zenon DEF Standby, IInv
  <2>2. daemon[s].replicas = 0
    BY <2>1, StandbyIsDown, Zenon
  <2> QED
    BY <2>1, <2>2, Zenon DEF BackupInv, Backups
<1> QED
  BY <1>1, BackupsInvariant, PTL

-----------------------------------------------------------------------------
(* A switchover between two sites.                                         *)

\* Site t stays in standby until the call that follows it has ended, or it holds
\* nothing that is due.
Settled(t) == due[t] = {} \/ (t \in Standby /\ cm[t].mode = "standby")

BehindSettled(s) ==
    work[s].pc # "idle" => /\ s \notin work[s].behind /\ work[s].behind \subseteq Sites
                           /\ \A t \in work[s].behind : Settled(t)

\* The backup that is restored has what is due; then the data has it.
Restored(s) ==
    /\ work[s].pc = "waitRestore" =>
        /\ JobStatus(s) # "unknown"
        /\ \A t \in work[s].behind :
            /\ due[t] \subseteq backups[tasks[s][work[s].job].vault].data
            /\ JobStatus(s) = "successful" => due[t] \subseteq data[s]
    /\ work[s].pc = "readyAgain" => \A t \in work[s].behind : due[t] \subseteq data[s]

\* The inductive invariant, together with IInv, WriteInv and BackupInv.
SwitchInv == \A s \in Sites : BehindSettled(s) /\ Restored(s)

\* Nothing becomes due while drFunction runs at any site.
LEMMA DueStays ==
    ASSUME Types, NEW t \in Sites, StepOf(t), NEW s \in Sites, work[s].pc # "idle"
    PROVE  due' = due
BY DueMoves, Zenon DEF AtRest

LEMMA SettledStep ==
    ASSUME "rejected" \notin Faults, Types, ModeKnown, NEW u \in Sites, SiteInv(u), StepOf(u),
           work[u].pc # "idle" => work[u].from # "disabled", ~AtRest,
           NEW t \in Sites, Settled(t)
    PROVE  Settled(t)'
<1>1. due'[t] = due[t]
  BY DueMoves, Zenon
<1>2. ASSUME t \in Standby, cm[t].mode = "standby"
      PROVE  t \in Standby' /\ cm'[t].mode = "standby"
  <2>1. CASE cm'[t] = cm[t]
    BY <1>2, <2>1, Zenon DEF Standby
  <2>2. CASE t # u
    BY <2>1, <2>2, Locality, Zenon DEF StepOf
  <2>3. CASE t = u /\ Start(t)
    <3>1. ~Needed(cm[t])
      <4>1. cm[t].smode = "standby" /\ cm[t].status = "done"
        BY <1>2, Zenon DEF Standby
      <4> QED
        BY <1>2, <4>1, Zenon DEF Needed
    <3>2. cm' = [cm EXCEPT ![t].smode = cm[t].mode, ![t].status = "done"]
      BY <2>3, <3>1, Zenon DEF Start
    <3>3. cm \in [Sites -> States]
      BY Zenon DEF Types
    <3>4. cm'[t].smode = cm[t].mode /\ cm'[t].status = "done" /\ cm'[t].mode = cm[t].mode
      BY <3>2, <3>3 DEF States
    <3> QED
      BY <1>2, <3>4, Zenon DEF Standby
  <2>4. t = u => work[t].pc = "idle"
    <3>1. cm[t].status # "running"
      BY <1>2, Zenon DEF Standby
    <3> QED
      BY <3>1, Zenon DEF SiteInv, Control
  <2> QED
    BY <2>1, <2>2, <2>3, <2>4, CallMoves, Zenon
<1> QED
  BY <1>1, <1>2, Zenon DEF Settled

\* A call of s keeps the sites it follows in mind.
LEMMA BehindStep ==
    ASSUME "rejected" \notin Faults, Types, ModeKnown, \A t \in Sites : SiteInv(t),
           NEW u \in Sites, StepOf(u), work[u].pc # "idle" => work[u].from # "disabled",
           NEW s \in Sites, BehindSettled(s)
    PROVE  BehindSettled(s)'
<1> SUFFICES ASSUME work'[s].pc # "idle"
             PROVE  /\ s \notin work'[s].behind /\ work'[s].behind \subseteq Sites
                    /\ \A t \in work'[s].behind : Settled(t)'
  BY Zenon DEF BehindSettled
<1>1. CASE work[s].pc # "idle" /\ work'[s].behind = work[s].behind
  <2>1. ~AtRest
    BY <1>1, Zenon DEF AtRest
  <2> QED
    BY <1>1, <2>1, SettledStep, Zenon DEF BehindSettled
<1>2. CASE u = s /\ Start(s) /\ work'[s].behind = Standby \ {s}
  <2>1. Standby \subseteq Sites
    BY Zenon DEF Standby
  <2>2. ASSUME NEW t \in Standby \ {s} PROVE Settled(t)
    <3>1. /\ cm[t].mode \in {"active", "standby"}
          /\ cm[t].mode = "active" => due[t] = {}
      BY <2>1, Zenon DEF SiteInv, Control
    <3> QED
      BY <2>2, <3>1, Zenon DEF Settled
  <2>3. ~AtRest
    BY <1>2, Zenon DEF Start, AtRest
  <2> QED
    BY <1>2, <2>1, <2>2, <2>3, SettledStep, Zenon
<1>3. CASE u # s
  BY <1>1, <1>3, Locality, Zenon DEF StepOf
<1> QED
  BY <1>1, <1>2, <1>3, CallMoves, Zenon

\* A task of s that was accepted: how it goes on while the backup daemon runs.
\* A task of s that was accepted: how it goes on while the backup daemon runs.
LEMMA JobGoesOn ==
    ASSUME "rejected" \notin Faults, Types, NEW s \in Sites, SiteInv(s), StepOf(s), ~Forgotten(s),
           NEW job \in DOMAIN tasks[s], tasks[s][job].kind = "restore",
           tasks[s][job].status # "unknown"
    PROVE  /\ job \in DOMAIN tasks'[s] /\ tasks'[s][job].vault = tasks[s][job].vault
           /\ tasks'[s][job].status # "unknown"
           /\ tasks'[s][job].status = "queued" => tasks[s][job].status = "queued"
           /\ tasks'[s][job].status = "successful" =>
                 \/ tasks[s][job].status = "successful"
                 \/ /\ tasks[s][job].status = "queued"
                    /\ data'[s] = backups[tasks[s][job].vault].data
<1>a. DOMAIN tasks[s] = 1 .. Len(tasks[s]) /\ Len(tasks[s]) \in Nat
  BY DEF Types
<1>1. CASE UNCHANGED tasks
  BY <1>1, Zenon
<1>2. CASE BackupAsked(s) \/ RestoreAsked(s)
  <2>1. DOMAIN tasks'[s] = 1 .. Len(tasks[s]) + 1 /\ tasks'[s][job] = tasks[s][job]
    BY <1>2, Zenon DEF BackupAsked, RestoreAsked, Appended
  <2>2. job \in DOMAIN tasks'[s]
    BY <1>a, <2>1
  <2> QED
    BY <2>1, <2>2, Zenon
<1>3. CASE TaskEnded(s)
  <2>1. PICK i \in DOMAIN tasks[s] : BackupEnded(s, i) \/ RestoreEnded(s, i) \/ TaskFailed(s, i)
    BY <1>3, Zenon DEF TaskEnded
  <2>2. PICK status \in {"successful", "failed"} : Ended(s, i, status)
    BY <2>1, Zenon DEF BackupEnded, RestoreEnded, TaskFailed
  <2>3. job \in DOMAIN tasks'[s] /\ tasks'[s][job].vault = tasks[s][job].vault
    BY <2>2, Zenon DEF Ended
  <2>4. CASE job # i
    BY <2>2, <2>3, <2>4, Zenon DEF Ended
  <2>5. CASE job = i
    <3>1. tasks[s][job].status = "queued" /\ tasks'[s][job].status = status
      BY <2>2, <2>5, Zenon DEF Ended
    <3>2. ASSUME status = "successful" PROVE data'[s] = backups[tasks[s][job].vault].data
      BY <2>1, <2>5, <3>1, <3>2, Zenon DEF BackupEnded, RestoreEnded, TaskFailed, Ended
    <3> QED
      BY <2>3, <3>1, <3>2, Zenon
  <2> QED
    BY <2>4, <2>5, Zenon
<1> QED
  BY <1>1, <1>2, <1>3, Effects, Zenon DEF Put

\* A folder another site has completed stays as it is.
LEMMA FolderStays ==
    ASSUME "rejected" \notin Faults, Types, NEW s \in Sites, SiteInv(s), StepOf(s),
           NEW v \in DOMAIN backups, backups[v].site # s
    PROVE  backups'[v] = backups[v]
<1>1. CASE TaskEnded(s)
  <2>1. PICK i \in DOMAIN tasks[s] : BackupEnded(s, i) \/ RestoreEnded(s, i) \/ TaskFailed(s, i)
    BY <1>1, Zenon DEF TaskEnded
  <2>2. CASE BackupEnded(s, i)
    BY <2>2, Zenon DEF BackupEnded
  <2> QED
    BY <2>1, <2>2, Zenon DEF RestoreEnded, TaskFailed
<1>2. CASE BackupAsked(s)
  BY <1>2, Zenon DEF BackupAsked
<1>3. CASE Put(s) \/ RestoreAsked(s) \/ Forgotten(s)
  BY <1>3, Zenon DEF Put, RestoreAsked, Forgotten, DaemonRestart, FollowScale
<1> QED
  BY <1>1, <1>2, <1>3, Effects, Zenon

\* At most two sites take part in disaster recovery.
TwoSites == \A s, t, u \in Sites : s = t \/ t = u \/ s = u

\* What s restores has what is due from the site it follows.
LEMMA RestoresLatest ==
    ASSUME TwoSites, Types, NEW s \in Sites, NEW t \in Sites \ {s}, BackedUp(t),
           NEW v \in Restorable(s), \A j \in Restorable(s) : j =< v
    PROVE  due[t] \subseteq backups[v].data
<1>1. \A i \in DOMAIN backups : backups[i].site \in Sites
  <2>1. \A i \in DOMAIN backups : backups[i] \in Vaults
    BY DEF Types
  <2> QED
    BY <2>1, Zenon DEF Vaults
<1>2. Restorable(s) = Valid(t)
  BY <1>1, Zenon DEF Restorable, Valid, TwoSites
<1>3. Valid(t) \subseteq Nat
  BY DEF Types, Valid
<1>4. CASE due[t] = {}
  BY <1>4, Zenon
<1>5. CASE due[t] # {}
  <2>1. PICK i \in Valid(t) : \A j \in Valid(t) : j >= i => due[t] \subseteq backups[j].data
    BY <1>5, Zenon DEF BackedUp
  <2>2. i =< v /\ i \in Nat /\ v \in Nat /\ v \in Valid(t)
    BY <1>2, <1>3, Zenon
  <2>3. v >= i
    BY <2>2
  <2> QED
    BY <2>1, <2>2, <2>3, Zenon
<1> QED
  BY <1>4, <1>5, Zenon

LEMMA RestoredStep ==
    ASSUME "rejected" \notin Faults, "daemonRestart" \notin Faults, TwoSites, Types, ModeKnown,
           \A t \in Sites : SiteInv(t) /\ Backups(t),
           NEW s \in Sites, StepOf(s), RestoreFolders(s), NoneLeft(s), Restored(s),
           BehindSettled(s)
    PROVE  Restored(s)'
<1>a. SiteInv(s) /\ (work[s].pc # "idle" => work[s].from # "disabled")
  BY Zenon DEF NoneLeft
<1>b. work[s].pc # "idle" => due' = due
  BY DueStays, Zenon
<1>1. CASE work'[s] = work[s] /\ work[s].pc = "waitRestore"
  <2>0. PICK job, v : job = work[s].job /\ v = tasks[s][job].vault
    BY Zenon
  <2>1. LastRestore(s) /\ job \in DOMAIN tasks[s] /\ tasks[s][job].kind = "restore"
    BY <1>1, <2>0, Zenon DEF NoneLeft, LastRestore
  <2>2. /\ JobStatus(s) = tasks[s][job].status /\ tasks[s][job].status # "unknown"
        /\ \A t \in work[s].behind : /\ due[t] \subseteq backups[v].data
                                     /\ JobStatus(s) = "successful" => due[t] \subseteq data[s]
    BY <1>1, <2>0, <2>1, Zenon DEF Restored, JobStatus
  <2>3. ~Forgotten(s)
    <3>1. daemon[s].up /\ daemon[s].replicas = 1
      BY <1>1, <1>a, Zenon DEF SiteInv, Control, UpSteps, RestoreSteps
    <3> QED
      BY <3>1, Zenon DEF Forgotten, DaemonRestart, FollowScale, Fault
  <2>4. /\ job \in DOMAIN tasks'[s] /\ tasks'[s][job].vault = v
        /\ tasks'[s][job].status # "unknown"
        /\ tasks'[s][job].status = "successful" =>
              tasks[s][job].status = "successful" \/ data'[s] = backups[v].data
    BY <1>a, <2>0, <2>1, <2>2, <2>3, JobGoesOn, Zenon
  <2>5. JobStatus(s)' = tasks'[s][job].status /\ work'[s].job = job
    BY <1>1, <2>0, <2>4, Zenon DEF JobStatus
  <2>6. v \in DOMAIN backups /\ backups[v].site # s
    BY <2>0, <2>1, Zenon DEF RestoreFolders, Restorable
  <2>7. backups'[v] = backups[v]
    BY <1>a, <2>6, FolderStays, Zenon
  <2>8. ASSUME tasks[s][job].status = "successful" PROVE data[s] \subseteq data'[s]
    <3>1. tasks[s][job].status # "queued"
      BY <2>8, Zenon
    <3>2. NoRestore(s)
      BY <2>0, <2>1, <3>1, Zenon DEF LastRestore
    <3> QED
      BY <1>a, <3>2, DataGrows, Zenon
  <2>9. ASSUME NEW t \in work[s].behind, tasks'[s][job].status = "successful"
        PROVE  due[t] \subseteq data'[s]
    <3>1. CASE tasks[s][job].status = "successful"
      BY <2>2, <2>8, <2>9, <3>1, Zenon
    <3>2. CASE data'[s] = backups[v].data
      BY <2>2, <2>9, <3>2, Zenon
    <3> QED
      BY <2>4, <2>9, <3>1, <3>2, Zenon
  <2>10. due' = due /\ work'[s].pc = "waitRestore" /\ work'[s].behind = work[s].behind
    BY <1>1, <1>b, Zenon
  <2> QED
    BY <2>2, <2>4, <2>5, <2>7, <2>9, <2>10, Zenon DEF Restored
<1>2. CASE /\ work'[s].pc = "waitRestore" /\ RestoreAsked(s)
           /\ work'[s].job = Len(tasks[s]) + 1
  <2>1. work[s].pc = "restore" /\ UNCHANGED <<backups, due>>
    BY <1>2, Zenon DEF RestoreAsked
  <2>2. work'[s].behind = work[s].behind
    <3>1. ~Start(s)
      BY <2>1, Zenon DEF Start
    <3> QED
      BY <1>2, <1>a, <3>1, CallMoves, Zenon
  <2>3. /\ work'[s].job \in DOMAIN tasks'[s] /\ tasks'[s][work'[s].job].status = "queued"
        /\ tasks'[s][work'[s].job].vault = LastFullBackup(s)
    <3>1. Len(tasks[s]) \in Nat
      BY DEF Types
    <3> QED
      BY <1>2, <3>1 DEF RestoreAsked, Appended
  <2>4. JobStatus(s)' = "queued"
    BY <2>3, Zenon DEF JobStatus
  <2>5. ASSUME NEW t \in work[s].behind
        PROVE  due[t] \subseteq backups[LastFullBackup(s)].data
    <3>1. t \in Sites \ {s} /\ Settled(t)
      BY <2>1, Zenon DEF BehindSettled
    <3>2. BackedUp(t)
      <4>1. CASE due[t] = {}
        BY <4>1, Zenon DEF BackedUp
      <4>2. CASE t \in Standby
        BY <3>1, <4>2, StandbyIsDown, Zenon DEF Backups
      <4> QED
        BY <3>1, <4>1, <4>2, Zenon DEF Settled
    <3>3. /\ LastFullBackup(s) \in Restorable(s)
          /\ \A j \in Restorable(s) : j =< LastFullBackup(s)
      BY <1>2, Zenon DEF RestoreAsked
    <3> QED
      BY <3>1, <3>2, <3>3, RestoresLatest, Zenon
  <2> QED
    BY <1>2, <2>1, <2>2, <2>3, <2>4, <2>5, Zenon DEF Restored
<1>3. CASE work'[s].pc = "readyAgain" /\ work'[s] = work[s]
  <2>1. NoRestore(s) /\ due' = due
    BY <1>3, <1>b, Zenon DEF NoneLeft
  <2>2. data[s] \subseteq data'[s]
    BY <1>a, <2>1, DataGrows, Zenon
  <2>3. \A t \in work[s].behind : due[t] \subseteq data[s]
    BY <1>3, Zenon DEF Restored
  <2> QED
    BY <1>3, <2>1, <2>2, <2>3, Zenon DEF Restored
<1>4. CASE work'[s].pc = "readyAgain" /\ WaitRestore(s) /\ UNCHANGED <<tasks, backups, data>>
  <2>1. work[s].pc = "waitRestore" /\ due' = due
    BY <1>4, Zenon DEF WaitRestore
  <2>2. JobStatus(s) = "successful"
    BY <1>4, <2>1, Zenon DEF WaitRestore, RestoreDone, Restored
  <2>3. work'[s].behind = work[s].behind
    <3>1. ~Start(s)
      BY <2>1, Zenon DEF Start
    <3> QED
      BY <1>4, <1>a, <3>1, CallMoves, Zenon
  <2>4. \A t \in work[s].behind : due[t] \subseteq data[s]
    BY <2>1, <2>2, Zenon DEF Restored
  <2> QED
    BY <1>4, <2>1, <2>3, <2>4, Zenon DEF Restored
<1>5. CASE work'[s].pc \notin {"waitRestore", "readyAgain"}
  BY <1>5, Zenon DEF Restored
<1>6. /\ work'[s].pc = "waitRestore" =>
           \/ work'[s] = work[s]
           \/ RestoreAsked(s) /\ work'[s].job = Len(tasks[s]) + 1
      /\ work'[s].pc = "readyAgain" =>
           work'[s] = work[s] \/ (WaitRestore(s) /\ UNCHANGED <<tasks, backups, data>>)
  BY <1>a, Moves, Zenon
<1> QED
  BY <1>1, <1>2, <1>3, <1>4, <1>5, <1>6, Zenon

\* With two sites, another site that takes a step is the one s follows, if any.
LEMMA RestoredOther ==
    ASSUME "rejected" \notin Faults, TwoSites, Types, ModeKnown, NEW t \in Sites, SiteInv(t),
           StepOf(t), DueHeld(t),
           NEW s \in Sites \ {t}, RestoreFolders(s), NoneLeft(s), Restored(s), BehindSettled(s)
    PROVE  Restored(s)'
<1>a. work'[s] = work[s] /\ tasks'[s] = tasks[s] /\ data'[s] = data[s]
  BY Locality, Zenon DEF StepOf
<1>b. JobStatus(s)' = JobStatus(s)
  BY <1>a, Zenon DEF JobStatus
<1>c. work[s].pc # "idle" => due' = due
  BY DueStays, Zenon
<1>1. CASE work[s].pc = "waitRestore"
  <2>0. PICK v : v = tasks[s][work[s].job].vault
    BY Zenon
  <2>1. work[s].job \in DOMAIN tasks[s] /\ tasks[s][work[s].job].kind = "restore"
    BY <1>1, Zenon DEF NoneLeft, LastRestore
  <2>2. v \in DOMAIN backups
    BY <2>0, <2>1, Zenon DEF RestoreFolders, Restorable
  <2>3. \/ backups'[v] = backups[v]
        \/ backups'[v].data = data[t]
    <3>1. CASE TaskEnded(t)
      <4>1. PICK i \in DOMAIN tasks[t] : BackupEnded(t, i) \/ RestoreEnded(t, i) \/ TaskFailed(t, i)
        BY <3>1, Zenon DEF TaskEnded
      <4>2. CASE BackupEnded(t, i)
        BY <2>2, <4>2, Zenon DEF BackupEnded
      <4> QED
        BY <4>1, <4>2, Zenon DEF RestoreEnded, TaskFailed
    <3>2. CASE BackupAsked(t)
      BY <2>2, <3>2, Zenon DEF BackupAsked
    <3>3. CASE Put(t) \/ RestoreAsked(t) \/ Forgotten(t)
      BY <3>3, Zenon DEF Put, RestoreAsked, Forgotten, DaemonRestart, FollowScale
    <3> QED
      BY <3>1, <3>2, <3>3, Effects, Zenon
  <2>4. ASSUME NEW u \in work[s].behind PROVE due[u] \subseteq backups'[v].data
    <3>1. u \in Sites \ {s}
      BY <1>1, <2>4, Zenon DEF BehindSettled
    <3>2. u = t
      BY <3>1, Zenon DEF TwoSites
    <3>3. due[u] \subseteq backups[v].data /\ due[t] \subseteq data[t]
      BY <1>1, <2>0, <2>4, Zenon DEF Restored, DueHeld
    <3> QED
      BY <2>3, <3>2, <3>3, Zenon
  <2>5. due' = due /\ tasks'[s][work'[s].job].vault = v
    BY <1>1, <1>a, <1>c, <2>0, Zenon
  <2> QED
    BY <1>1, <1>a, <1>b, <2>4, <2>5, Zenon DEF Restored
<1>2. CASE work[s].pc = "readyAgain"
  BY <1>2, <1>a, <1>c, Zenon DEF Restored
<1>3. CASE work[s].pc \notin {"waitRestore", "readyAgain"}
  BY <1>3, <1>a, Zenon DEF Restored
<1> QED
  BY <1>1, <1>2, <1>3, Zenon

LEMMA SwitchInit == Init => SwitchInv
<1> SUFFICES ASSUME Init, NEW s \in Sites PROVE BehindSettled(s) /\ Restored(s)
  BY Zenon DEF SwitchInv
<1>1. work[s].pc = "idle"
  BY Zenon DEF Init, Idle
<1> QED
  BY <1>1, Zenon DEF Restored, BehindSettled

LEMMA SwitchStep ==
    ASSUME "rejected" \notin Faults, "daemonRestart" \notin Faults, TwoSites, Types, ModeKnown,
           \A s \in Sites : SiteInv(s), WriteInv, BackupInv, SwitchInv, NEW s \in Sites, StepOf(s)
    PROVE  SwitchInv'
<1>1. \A t \in Sites : /\ SiteInv(t) /\ RestoreFolders(t) /\ NoneLeft(t) /\ Backups(t)
                       /\ DueHeld(t) /\ Restored(t) /\ BehindSettled(t)
                       /\ work[t].pc # "idle" => work[t].from # "disabled"
  BY Zenon DEF WriteInv, BackupInv, SwitchInv, NoneLeft, Backups
<1>2. Restored(s)'
  BY <1>1, RestoredStep, Zenon
<1>3. ASSUME NEW t \in Sites \ {s} PROVE Restored(t)'
  BY <1>1, RestoredOther, Zenon
<1>4. ASSUME NEW t \in Sites PROVE BehindSettled(t)'
  BY <1>1, BehindStep, Zenon
<1> QED
  BY <1>2, <1>3, <1>4, Zenon DEF SwitchInv

LEMMA SwitchInvariant ==
    ASSUME "disabled" \notin Modes, "rejected" \notin Faults, "daemonRestart" \notin Faults, TwoSites
    PROVE  Spec => [](IInv /\ ModeKnown /\ WriteInv /\ BackupInv /\ SwitchInv)
<1>1. IInv /\ ModeKnown /\ WriteInv /\ BackupInv /\ SwitchInv /\ [Next]_vars => SwitchInv'
  <2> SUFFICES ASSUME IInv, ModeKnown, WriteInv, BackupInv, SwitchInv, [Next]_vars
               PROVE  SwitchInv'
    BY Zenon
  <2>1. Types /\ \A s \in Sites : SiteInv(s)
    BY TypesAre, Zenon DEF IInv
  <2>2. CASE Next
    <3>1. PICK s \in Sites : StepOf(s)
      BY <2>2, Zenon DEF Next, StepOf
    <3> QED
      BY <2>1, <3>1, SwitchStep, Zenon
  <2>3. CASE UNCHANGED vars
    <3>1. UNCHANGED <<cm, work, tasks, backups, data, due>>
      BY <2>3, Zenon DEF vars
    <3>2. ASSUME NEW t \in Sites PROVE BehindSettled(t)' /\ Restored(t)'
      <4>1. JobStatus(t)' = JobStatus(t) /\ Standby' = Standby
        BY <3>1, Zenon DEF JobStatus, Standby
      <4>2. Restored(t)'
        BY <3>1, <4>1, Zenon DEF SwitchInv, Restored
      <4>3. BehindSettled(t)'
        BY <3>1, <4>1, Zenon DEF SwitchInv, BehindSettled, Settled
      <4> QED
        BY <4>2, <4>3, Zenon
    <3> QED
      BY <3>2, Zenon DEF SwitchInv
  <2> QED
    BY <2>2, <2>3, Zenon
<1> QED
  BY <1>1, SwitchInit, BackupsInvariant, PTL DEF Spec

\* A switchover moves the data: a site that reports active after a call without
\* "no wait" holds all that the sites in standby held when they were switched out
\* of service.  Writes made later, at either site, are not among it.  For two sites,
\* as drFunction takes the latest backup of any other region; without refused
\* requests and restarts of the backup daemon, as CheckRestoreStatus takes a task
\* the daemon does not know for completed.
THEOREM SwitchoverMovesData ==
    ASSUME "disabled" \notin Modes, "rejected" \notin Faults, "daemonRestart" \notin Faults, TwoSites
    PROVE  Spec => SwitchoverKeepsData
<1> DEFINE Moved ==
        \A s \in Sites :
          (/\ work[s].pc # "idle" /\ work[s].mode = "active" /\ ~work[s].noWait
           /\ cm'[s].status = "done")
             => \A t \in work[s].behind : due[t] \subseteq data'[s]
<1>1. IInv /\ ModeKnown /\ WriteInv /\ SwitchInv /\ [Next]_vars => Moved
  <2> SUFFICES ASSUME IInv, ModeKnown, WriteInv, SwitchInv, [Next]_vars,
                      NEW s \in Sites, work[s].pc # "idle", work[s].mode = "active",
                      ~work[s].noWait, cm'[s].status = "done",
                      NEW t \in work[s].behind
               PROVE  due[t] \subseteq data'[s]
    BY Zenon
  <2>1. Types /\ \A u \in Sites : SiteInv(u)
    BY TypesAre, Zenon DEF IInv
  <2>2. cm[s].status = "running" /\ work[s].from # "disabled"
    BY <2>1, Zenon DEF SiteInv, Control, WriteInv, NoneLeft
  <2>3. Next
    BY <2>2, Zenon DEF vars
  <2>4. PICK u \in Sites : StepOf(u)
    BY <2>3, Zenon DEF Next, StepOf
  <2>5. u = s
    <3>1. SUFFICES ASSUME u # s PROVE FALSE
      BY Zenon
    <3>2. cm'[s] = cm[s]
      BY <2>1, <2>4, <3>1, Locality, Zenon DEF StepOf
    <3> QED
      BY <2>2, <3>2, Zenon
  <2>6. CheckReadyAgain(s)
    <3>1. NothingToRestore(s) \/ CheckReadyAgain(s) \/ work[s].mode = "standby"
      BY <2>1, <2>2, <2>4, <2>5, CallMoves, Zenon
    <3>2. ~NothingToRestore(s)
      BY Zenon DEF NothingToRestore
    <3> QED
      BY <3>1, <3>2
  <2>7. work[s].pc = "readyAgain" /\ data' = data
    BY <2>6, Zenon DEF CheckReadyAgain
  <2> QED
    BY <2>7, Zenon DEF SwitchInv, Restored
<1>2. IInv /\ ModeKnown /\ WriteInv /\ SwitchInv /\ [Next]_vars => [Moved]_vars
  BY <1>1, Zenon
<1> QED
  BY <1>2, SwitchInvariant, PTL DEF Spec, SwitchoverKeepsData
=============================================================================
