---------------------------- MODULE RemoveTokens ----------------------------
(***************************************************************************)
(* The remove-tokens job (remove-tokens/remove-tokens.go): a CronJob that  *)
(* deletes the ACL tokens Consul client pods have left behind.             *)
(*                                                                         *)
(* External parts, modelled from what the job reads: the client pods whose *)
(* init container logs in to Consul and so creates a token that names the  *)
(* pod, and the leader of the Consul servers.  The CronJob forbids         *)
(* concurrent runs.  The number of a token stands for its AccessorID and   *)
(* its CreateTime; a description is the pair of component and pod.         *)
(***************************************************************************)
EXTENDS Naturals

CONSTANTS
    Pods,         \* names of client pods
    NoPod,        \* the pod of a description that names none
    Others,       \* tokens that no client pod created
    LastOther,    \* the number of the latest of them
    MaxTokens,    \* bound on the tokens created
    MaxPodSteps,  \* bound on the steps of pods
    MaxFaults     \* bound on the failures

Token == [id : Nat \ {0}, bootstrap : BOOLEAN, component : {"client", "other"},
          pod : Pods \cup {NoPod}]

ASSUME ConstantsAssumption ==
    /\ NoPod \notin Pods
    /\ Others \subseteq Token
    /\ \A t \in Others : t.id <= LastOther
    /\ \A t \in Others : t.bootstrap \/ t.component # "client" \/ t.pod = NoPod
    /\ {LastOther, MaxTokens, MaxPodSteps, MaxFaults} \subseteq Nat

VARIABLES
    phase,    \* the phase of a pod
    uses,     \* the token a pod uses, 0 for none
    tokens,   \* the ACL tokens in Consul
    created,  \* the number of the latest token
    leader,   \* whether the Consul servers have a leader
    job,      \* the run of the job in progress
    steps,    \* steps pods have taken
    faults    \* failures that have happened

vars == <<phase, uses, tokens, created, leader, job, steps, faults>>

Idle == [pc |-> "idle", live |-> {}, todo |-> {}]

Init ==
    /\ phase = [p \in Pods |-> "absent"]
    /\ uses = [p \in Pods |-> 0]
    /\ tokens = Others
    /\ created = LastOther
    /\ leader = TRUE
    /\ job = Idle
    /\ steps = 0
    /\ faults = 0

Fault == faults < MaxFaults /\ faults' = faults + 1

-----------------------------------------------------------------------------
(* What the job deletes.                                                   *)

Ids(s) == {t.id : t \in s}

\* Mutant of OfClient: the component is not compared.
OfAnyPod(t) == ~t.bootstrap /\ t.pod # NoPod

\* parseDescription and the filter of groupTokensByPod.
OfClient(t) == ~t.bootstrap /\ t.component = "client" /\ t.pod # NoPod

\* groupTokensByPod.
TokensOf(p) == {t \in tokens : OfClient(t) /\ t.pod = p}

\* Mutant of TokensToDelete: the tokens are sorted the other way round.
KeepsOldest(live) ==
    UNION {IF p \in live THEN Ids({t \in TokensOf(p) : \E u \in TokensOf(p) : u.id < t.id})
           ELSE Ids(TokensOf(p)) : p \in Pods}

\* Mutant of TokensToDelete: the older tokens of a live pod are kept.
OfDeadPods(live) == Ids(UNION {TokensOf(p) : p \in Pods \ live})

\* pickTokensToDelete: of a live pod the latest token is kept.
TokensToDelete(live) ==
    UNION {IF p \in live THEN Ids({t \in TokensOf(p) : \E u \in TokensOf(p) : u.id > t.id})
           ELSE Ids(TokensOf(p)) : p \in Pods}

-----------------------------------------------------------------------------
(* One run of the job.                                                     *)

StartJob ==
    /\ job.pc = "idle"
    /\ job' = [job EXCEPT !.pc = "leader"]
    /\ UNCHANGED <<phase, uses, tokens, created, leader, steps, faults>>

\* waitForLeader gives up when there is no leader until the deadline.
WaitForLeader ==
    /\ job.pc = "leader"
    /\ job' = IF leader THEN [job EXCEPT !.pc = "pods"] ELSE Idle
    /\ UNCHANGED <<phase, uses, tokens, created, leader, steps, faults>>

GetLiveConsulPods ==
    /\ job.pc = "pods"
    /\ job' = [job EXCEPT !.pc = "tokens", !.live = {p \in Pods : phase[p] = "running"}]
    /\ UNCHANGED <<phase, uses, tokens, created, leader, steps, faults>>

FetchConsulTokens ==
    /\ job.pc = "tokens"
    /\ job' = IF leader THEN [job EXCEPT !.pc = "delete", !.todo = TokensToDelete(job.live)]
              ELSE Idle
    /\ UNCHANGED <<phase, uses, tokens, created, leader, steps, faults>>

\* One round of deleteTokens; a failed request is logged and passed over.
DeleteToken ==
    /\ job.pc = "delete"
    /\ \E i \in job.todo :
        /\ job' = [job EXCEPT !.todo = @ \ {i}]
        /\ \/ leader /\ tokens' = {t \in tokens : t.id # i} /\ faults' = faults
           \/ ~leader /\ UNCHANGED <<tokens, faults>>
           \/ Fault /\ tokens' = tokens
    /\ UNCHANGED <<phase, uses, created, leader, steps>>

\* Mutant of EndJob: the run is left in its last state.
LeftDone ==
    /\ job.pc = "delete"
    /\ job.todo = {}
    /\ job' = [job EXCEPT !.pc = "done"]
    /\ UNCHANGED <<phase, uses, tokens, created, leader, steps, faults>>

EndJob ==
    /\ job.pc = "delete"
    /\ job.todo = {}
    /\ job' = Idle
    /\ UNCHANGED <<phase, uses, tokens, created, leader, steps, faults>>

\* A list fails, or the job is stopped at its deadline or with its node.
JobDies ==
    /\ job.pc # "idle"
    /\ Fault
    /\ job' = Idle
    /\ UNCHANGED <<phase, uses, tokens, created, leader, steps>>

-----------------------------------------------------------------------------
(* Client pods and Consul servers.                                         *)

PodStep == steps < MaxPodSteps /\ steps' = steps + 1

\* A pod is created, or the init containers of a running one start again.
Initialize(p) ==
    /\ PodStep
    /\ phase[p] # "pending"
    /\ phase' = [phase EXCEPT ![p] = "pending"]
    /\ uses' = [uses EXCEPT ![p] = 0]
    /\ UNCHANGED <<tokens, created, leader, job, faults>>

\* The init container logs in; it may do so again when a later one fails.
Login(p) ==
    /\ PodStep
    /\ phase[p] = "pending"
    /\ leader
    /\ created < MaxTokens
    /\ created' = created + 1
    /\ tokens' = tokens \cup {[id |-> created + 1, bootstrap |-> FALSE,
                               component |-> "client", pod |-> p]}
    /\ uses' = [uses EXCEPT ![p] = created + 1]
    /\ UNCHANGED <<phase, leader, job, faults>>

Run(p) ==
    /\ PodStep
    /\ phase[p] = "pending"
    /\ uses[p] # 0
    /\ phase' = [phase EXCEPT ![p] = "running"]
    /\ UNCHANGED <<uses, tokens, created, leader, job, faults>>

\* The pod stops, with or without the logout of its preStop hook.
Stop(p) ==
    /\ PodStep
    /\ phase[p] # "absent"
    /\ phase' = [phase EXCEPT ![p] = "absent"]
    /\ uses' = [uses EXCEPT ![p] = 0]
    /\ \/ tokens' = tokens
       \/ leader /\ phase[p] = "running" /\ tokens' = {t \in tokens : t.id # uses[p]}
    /\ UNCHANGED <<created, leader, job, faults>>

LoseLeader ==
    /\ leader
    /\ Fault
    /\ leader' = FALSE
    /\ UNCHANGED <<phase, uses, tokens, created, job, steps>>

ElectLeader ==
    /\ ~leader
    /\ leader' = TRUE
    /\ UNCHANGED <<phase, uses, tokens, created, job, steps, faults>>

JobStep == StartJob \/ WaitForLeader \/ GetLiveConsulPods \/ FetchConsulTokens \/ DeleteToken \/ EndJob

Next ==
    \/ JobStep \/ JobDies
    \/ LoseLeader \/ ElectLeader
    \/ \E p \in Pods : Initialize(p) \/ Login(p) \/ Run(p) \/ Stop(p)

Spec == Init /\ [][Next]_vars

\* The schedule starts the job again and again, a run goes on, and the servers
\* elect a leader.
FairSpec == Spec /\ WF_vars(JobStep) /\ WF_vars(ElectLeader)

-----------------------------------------------------------------------------
\* The type invariant of the job, the pods and the tokens.
TypeOK ==
    /\ phase \in [Pods -> {"absent", "pending", "running"}]
    /\ uses \in [Pods -> Nat]
    /\ tokens \subseteq Token
    /\ created \in Nat
    /\ leader \in BOOLEAN
    /\ job \in [pc : {"idle", "leader", "pods", "tokens", "delete"},
                live : SUBSET Pods, todo : SUBSET Nat]
    /\ steps \in Nat
    /\ faults \in Nat

\* A job deletes no token that a pod uses which it found running, although the
\* pods are listed before the tokens and both go on changing while it deletes.
InUseKept ==
    [][\A p \in job.live :
         (uses'[p] = uses[p] /\ uses[p] \in Ids(tokens)) => uses[p] \in Ids(tokens')]_vars

\* Tokens that no client pod created (the bootstrap token, the ones of other
\* components) are never deleted.
OtherTokensKept == Others \subseteq tokens

\* When pods and failures come to rest, one token is left for each running pod
\* and none for the others: what a run of the job misses, a later one deletes.
StaleRemoved ==
    <>[](\A t \in tokens : OfClient(t) =>
            phase[t.pod] = "running" /\ \A u \in TokensOf(t.pod) : u.id <= t.id)
=============================================================================
