------------------------------ MODULE Recovery ------------------------------
(***************************************************************************)
(* What a backup, a disaster and a restore do to the whole installation:   *)
(* the scripts (BackupRestore), the users, who edit resources, and the     *)
(* operator as a process, which reads the bootstrap token once, when it    *)
(* starts, ensures the applications-k8s-m2m auth method and reconciles     *)
(* every resource.                                                         *)
(*                                                                         *)
(* A reconciliation of a resource is one step here; the module ConsulACL    *)
(* has its requests.                                                       *)
(***************************************************************************)
EXTENDS BackupRestore

VARIABLES
    gen,   \* the generation of each resource
    op     \* the operator process

vars == <<siteVars, gen, op>>

\* The process starts: the token is read, all resources are queued.
Starting == [token |-> secret, queue |-> CRs, ensured |-> FALSE]

Stopped == [token |-> FirstToken, queue |-> {}, ensured |-> FALSE]

Init ==
    /\ SiteInit
    /\ gen = [c \in CRs |-> 1]
    /\ op = Starting

-----------------------------------------------------------------------------
(* The operator.                                                           *)

Accepted == Answers(Local, op.token)

OperatorStart ==
    /\ ~operatorUp
    /\ operatorUp' = TRUE
    /\ op' = Starting
    /\ UNCHANGED <<cluster, consul, servers, secret, backups, task, restores, incidents, gen>>

OperatorStops ==
    /\ operatorUp
    /\ Incident
    /\ operatorUp' = FALSE
    /\ op' = Stopped
    /\ UNCHANGED <<cluster, consul, servers, secret, backups, task, restores, gen>>

\* EnsureApplicationsAuthMethod, repeated until it succeeds.
EnsureApplicationsAuthMethod ==
    /\ operatorUp
    /\ ~op.ensured
    /\ Accepted
    /\ consul' = Configured("m2m")
    /\ op' = [op EXCEPT !.ensured = TRUE]
    /\ UNCHANGED <<cluster, servers, secret, backups, task, restores, operatorUp, incidents, gen>>

\* A reconciliation.  A refused token is only noted in the status of the
\* entities, but the lists of the last stage are refused as well, and their
\* error, like any error without a leader, has the request repeated.
Reconcile(c) ==
    /\ operatorUp
    /\ c \in op.queue
    /\ \/ /\ Accepted
          /\ consul' = [consul EXCEPT ![Local].applied[c] = gen[c]]
          /\ op' = [op EXCEPT !.queue = @ \ {c}]
       \/ /\ ~Accepted
          /\ UNCHANGED <<consul, op>>
    /\ UNCHANGED <<cluster, servers, secret, backups, task, restores, operatorUp, incidents, gen>>

-----------------------------------------------------------------------------
(* The composition.                                                        *)

\* A new generation is an event for an operator that runs.
Enqueue(c) ==
    op' = IF operatorUp THEN [op EXCEPT !.queue = @ \cup {c}] ELSE op

SiteStep ==
    /\ SiteNext
    /\ op' = IF operatorUp' THEN op ELSE Stopped
    /\ UNCHANGED gen

OperatorStep ==
    \/ OperatorStart
    \/ EnsureApplicationsAuthMethod
    \/ \E c \in CRs : Reconcile(c)

UserEdits(c) ==
    /\ Incident
    /\ gen' = [gen EXCEPT ![c] = @ + 1]
    /\ Enqueue(c)
    /\ UNCHANGED <<cluster, consul, servers, secret, backups, task, restores, operatorUp>>

Next == SiteStep \/ OperatorStep \/ OperatorStops \/ \E c \in CRs : UserEdits(c)

\* Kubernetes brings pods up again; the operator goes on with its work.
\* Nothing obliges a script to make progress.
Fairness ==
    /\ \A s \in Servers : WF_vars(SiteStep /\ ServerUp(s))
    /\ WF_vars(OperatorStart)
    /\ WF_vars(EnsureApplicationsAuthMethod)
    /\ \A c \in CRs : WF_vars(Reconcile(c))

Spec == Init /\ [][Next]_vars /\ Fairness

-----------------------------------------------------------------------------
(* Properties.                                                             *)

Folders ==
    [want : SUBSET Datacenters, snap : [Datacenters -> Data \cup {NoSnapshot}],
     token : Tokens \cup {NoToken, EmptyToken}]

Steps == {"snapshot", "token", "put", "restart", "tokens", "agents", "auth", "auth2", "nodes", "pods",
          "done", "failed"}

\* Every variable of the scripts, the users and the operator has a
\* value of its type.
TypeOK ==
    /\ cluster \in 1 .. 2
    /\ consul \in [Datacenters -> Data]
    /\ servers \in [Servers -> [up : BOOLEAN, known : BOOLEAN]]
    /\ secret \in Tokens \cup {EmptyToken}
    /\ backups \in Seq(Folders)
    /\ task \in [kind : {"none", "backup", "restore", "hook"}, pc : Steps,
                 folder : 0 .. Len(backups), token : Tokens \cup {NoToken, EmptyToken},
                 todo : SUBSET (Datacenters \cup Servers), skip : BOOLEAN]
    /\ restores \in Nat /\ incidents \in Nat
    /\ operatorUp \in BOOLEAN
    /\ gen \in [CRs -> Nat]
    /\ op \in [token : Tokens \cup {EmptyToken}, queue : SUBSET CRs, ensured : BOOLEAN]

\* A backup that has a .token is complete: it has a snapshot of every
\* datacenter it was asked for, and the token opens each of them, unless the
\* script died between the creation of the file and the write.  This is what
\* restore.py takes from the presence of the file (backup.py writes it last),
\* and why it never restores half a backup into a Consul with ACLs.
BackupOpens ==
    \A i \in 1 .. Len(backups) :
        backups[i].token # NoToken =>
            /\ Saved(backups[i]) = backups[i].want
            /\ \A d \in backups[i].want :
                  backups[i].token \in {backups[i].snap[d].token, EmptyToken}

Restored == task.kind = "restore" /\ task.pc = "done" /\ ~task.skip

\* When a restore with ACL recovery has ended well, the secret holds the
\* token of the data now in the local Consul, whatever token the
\* installation had before (restore_secret_data after the snapshots).
SecretOpens == Restored => consul[Local].token = secret

\* Everything works together: the operator holds the token of Consul, every
\* auth method is configured for this cluster, every declaration is applied.
Recovered ==
    /\ \A s \in Servers : servers[s].up
    /\ operatorUp
    /\ op.token = secret /\ consul[Local].token = secret
    /\ \A m \in Methods : consul[Local].methods[m] = cluster
    /\ \A c \in CRs : consul[Local].applied[c] = gen[c]

\* After a restore that ended well the installation comes back in line with
\* the cluster by itself, unless another script or a disaster follows: the
\* script configures the Kubernetes auth methods, and the operator, which it
\* restarts last, the m2m method and every declaration the snapshot lacks.
RestoreRecovers == Restored ~> (Recovered \/ ~Restored)
=============================================================================
