------------------------- MODULE RemoveTokensProofs -------------------------
(* Proofs about the remove-tokens job, for any number of pods and tokens.  *)
EXTENDS RemoveTokens, TLAPS

\* Tokens are numbered in the order of their creation, and the token a pod uses
\* is the latest one that names the pod.
Numbered ==
    /\ created >= LastOther
    /\ \A t \in tokens : t.id <= created /\ (OfClient(t) <=> t.id > LastOther)
    /\ \A p \in Pods : uses[p] = 0 \/ (LastOther < uses[p] /\ uses[p] <= created)
    /\ \A t \in tokens, p \in Pods : t.id = uses[p] => t.pod = p
    /\ \A t \in tokens, p \in Pods : (OfClient(t) /\ t.pod = p /\ uses[p] # 0) => t.id <= uses[p]

\* What a run has selected are tokens of clients, and none that a pod uses which
\* the run has found running.
Selected ==
    /\ job.pc # "delete" => job.todo = {}
    /\ \A i \in job.todo : LastOther < i /\ i <= created
    /\ \A p \in job.live : uses[p] \notin job.todo

\* The inductive invariant.
JobInv == TypeOK /\ Numbered /\ Selected /\ OtherTokensKept

\* No token that no client created is one of a client.
LEMMA OthersOld == \A t \in Others : t \in Token /\ t.id <= LastOther /\ ~OfClient(t)
  BY ConstantsAssumption, Zenon DEF OfClient, Token

LEMMA InitInv == Init => JobInv
  <1> SUFFICES ASSUME Init PROVE JobInv
    BY Zenon
  <1>1. TypeOK
    BY ConstantsAssumption, Zenon DEF Init, TypeOK, Idle
  <1>2. Numbered
    BY ConstantsAssumption, OthersOld DEF Init, Numbered, OfClient, Token
  <1> QED
    BY <1>1, <1>2, Zenon DEF Init, JobInv, Selected, OtherTokensKept, Idle

\* pickTokensToDelete selects tokens of clients and not the ones in use.
LEMMA Selection ==
    ASSUME JobInv, NEW live \in SUBSET Pods
    PROVE  /\ TokensToDelete(live) \subseteq Nat
           /\ \A i \in TokensToDelete(live) : LastOther < i /\ i <= created
           /\ \A p \in live : uses[p] \notin TokensToDelete(live)
  <1>1. ASSUME NEW i \in TokensToDelete(live)
        PROVE  \E p \in Pods : \E t \in TokensOf(p) :
                  t.id = i /\ (p \in live => \E u \in TokensOf(p) : u.id > t.id)
    BY <1>1, Zenon DEF TokensToDelete, Ids
  <1>2. ASSUME NEW p \in live, uses[p] \in TokensToDelete(live)
        PROVE  FALSE
    <2>1. PICK q \in Pods : \E t \in TokensOf(q) :
                  t.id = uses[p] /\ (q \in live => \E u \in TokensOf(q) : u.id > t.id)
      BY <1>1, <1>2, Zenon
    <2>2. PICK t \in TokensOf(q) :
                  t.id = uses[p] /\ (q \in live => \E u \in TokensOf(q) : u.id > t.id)
      BY <2>1, Zenon
    <2>3. t \in tokens /\ t.pod = q /\ q = p
      BY <2>2, Zenon DEF TokensOf, JobInv, Numbered
    <2>4. PICK u \in TokensOf(p) : u.id > uses[p]
      BY <2>2, <2>3, Zenon
    <2>5. u \in tokens /\ OfClient(u) /\ u.pod = p /\ uses[p] # 0
      BY <2>2, <2>3, <2>4, Zenon DEF TokensOf, JobInv, TypeOK, Token
    <2>6. u.id <= uses[p] /\ u.id \in Nat /\ uses[p] \in Nat
      BY <2>5, Zenon DEF JobInv, Numbered, TypeOK, Token
    <2> QED
      BY <2>4, <2>6
  <1>3. \A i \in TokensToDelete(live) : i \in Nat /\ LastOther < i /\ i <= created
    BY <1>1, ConstantsAssumption DEF TokensOf, JobInv, TypeOK, Numbered, Token
  <1> QED
    BY <1>2, <1>3, Zenon

\* A step of the job that deletes nothing.
LEMMA JobOnly ==
    ASSUME JobInv, UNCHANGED <<phase, uses, tokens, created>>,
           leader' \in BOOLEAN, steps' \in Nat, faults' \in Nat,
           job' \in [pc : {"idle", "leader", "pods", "tokens", "delete"},
                     live : SUBSET Pods, todo : SUBSET Nat],
           Selected'
    PROVE  JobInv'
  BY Zenon DEF JobInv, TypeOK, Numbered, OtherTokensKept

\* A step that deletes tokens of clients only.
LEMMA DeleteOnly ==
    ASSUME JobInv, NEW i \in Nat, i = 0 \/ LastOther < i,
           tokens' = {t \in tokens : t.id # i}
    PROVE  /\ tokens' \subseteq Token /\ tokens' \subseteq tokens
           /\ OtherTokensKept'
  <1>1. \A t \in Others : t.id # i
    BY OthersOld, ConstantsAssumption DEF Token
  <1> QED
    BY <1>1, Zenon DEF JobInv, TypeOK, OtherTokensKept

\* A step of a pod that creates no token.
LEMMA PodOnly ==
    ASSUME JobInv, NEW p \in Pods, UNCHANGED <<created, leader, job, faults>>,
           steps' \in Nat, phase' \in [Pods -> {"absent", "pending", "running"}],
           uses' \in {uses, [uses EXCEPT ![p] = 0]},
           tokens' \subseteq tokens, OtherTokensKept'
    PROVE  JobInv'
  <1>1. \A q \in Pods : uses'[q] = uses[q] \/ uses'[q] = 0
    BY Zenon DEF JobInv, TypeOK
  <1>2. TypeOK'
    BY DEF JobInv, TypeOK
  <1>3. \A t \in tokens : t.id \in Nat \ {0}
    BY Zenon DEF JobInv, TypeOK, Token
  <1>4. Numbered'
    BY <1>1, <1>3, Zenon DEF JobInv, Numbered
  <1>5. Selected'
    BY <1>1, ConstantsAssumption DEF JobInv, TypeOK, Selected
  <1> QED
    BY <1>2, <1>4, <1>5, Zenon DEF JobInv

LEMMA StepInv ==
    ASSUME JobInv, [Next]_vars
    PROVE  JobInv'
  <1> USE DEF JobInv
  <1>1. CASE StartJob
    BY <1>1, JobOnly, Zenon DEF StartJob, TypeOK, Selected
  <1>2. CASE WaitForLeader
    BY <1>2, JobOnly, Zenon DEF WaitForLeader, TypeOK, Selected, Idle
  <1>3. CASE GetLiveConsulPods
    BY <1>3, JobOnly, Zenon DEF GetLiveConsulPods, TypeOK, Selected
  <1>4. CASE FetchConsulTokens
    <2>1. /\ TokensToDelete(job.live) \subseteq Nat
          /\ \A i \in TokensToDelete(job.live) : LastOther < i /\ i <= created
          /\ \A p \in job.live : uses[p] \notin TokensToDelete(job.live)
      BY Selection, Zenon DEF TypeOK
    <2> QED
      BY <1>4, <2>1, JobOnly, Zenon DEF FetchConsulTokens, TypeOK, Selected, Idle
  <1>5. CASE DeleteToken
    <2>1. PICK i \in job.todo :
            /\ job' = [job EXCEPT !.todo = @ \ {i}]
            /\ tokens' = tokens \/ tokens' = {t \in tokens : t.id # i}
      BY <1>5, Zenon DEF DeleteToken, Fault
    <2>2. i \in Nat /\ LastOther < i
      BY <2>1, Zenon DEF TypeOK, Selected
    <2>3. tokens' \subseteq Token /\ tokens' \subseteq tokens /\ OtherTokensKept'
      BY <2>1, <2>2, DeleteOnly, Zenon DEF TypeOK, OtherTokensKept
    <2>4. UNCHANGED <<phase, uses, created, leader, steps>> /\ faults' \in Nat
      BY <1>5 DEF DeleteToken, Fault, TypeOK
    <2>5. TypeOK' /\ Selected'
      BY <2>1, <2>3, <2>4, <1>5 DEF DeleteToken, TypeOK, Selected
    <2>6. Numbered'
      BY <2>3, <2>4, Zenon DEF Numbered
    <2> QED
      BY <2>3, <2>5, <2>6, Zenon
  <1>6. CASE EndJob
    BY <1>6, JobOnly, Zenon DEF EndJob, TypeOK, Selected, Idle
  <1>7. CASE JobDies
    BY <1>7, JobOnly DEF JobDies, Fault, TypeOK, Selected, Idle
  <1>8. CASE LoseLeader \/ ElectLeader
    <2>1. leader' \in BOOLEAN
      BY <1>8, Zenon DEF LoseLeader, ElectLeader
    <2>2. faults' \in Nat /\ UNCHANGED <<phase, uses, tokens, created, job, steps>>
      BY <1>8 DEF LoseLeader, ElectLeader, Fault, TypeOK
    <2>3. Selected' /\ job' \in [pc : {"idle", "leader", "pods", "tokens", "delete"},
                                 live : SUBSET Pods, todo : SUBSET Nat] /\ steps' \in Nat
      BY <2>2, Zenon DEF TypeOK, Selected
    <2> QED
      BY <2>1, <2>2, <2>3, JobOnly, Zenon
  <1>9. ASSUME NEW p \in Pods, Initialize(p)
        PROVE  JobInv'
    <2>1. /\ steps' \in Nat /\ phase' \in [Pods -> {"absent", "pending", "running"}]
          /\ uses' = [uses EXCEPT ![p] = 0]
      BY <1>9 DEF Initialize, PodStep, TypeOK
    <2>2. tokens' = tokens /\ OtherTokensKept' /\ UNCHANGED <<created, leader, job, faults>>
      BY <1>9, Zenon DEF Initialize, OtherTokensKept
    <2> QED
      BY <2>1, <2>2, PodOnly, Zenon
  <1>10. ASSUME NEW p \in Pods, Login(p)
         PROVE  JobInv'
    <2> DEFINE new == [id |-> created + 1, bootstrap |-> FALSE, component |-> "client", pod |-> p]
    <2>1. /\ created' = created + 1
          /\ tokens' = tokens \cup {new}
          /\ uses' = [uses EXCEPT ![p] = created + 1]
          /\ UNCHANGED <<phase, leader, job, faults>>
          /\ steps' \in Nat
      BY <1>10 DEF Login, PodStep, TypeOK
    <2>2. new \in Token /\ OfClient(new) /\ new.id = created + 1 /\ new.pod = p
      <3>1. created + 1 \in Nat \ {0} /\ p # NoPod
        BY ConstantsAssumption DEF TypeOK
      <3> QED
        BY <3>1, Zenon DEF Token, OfClient
    <2> HIDE DEF new
    <2>3. TypeOK' /\ OtherTokensKept'
      BY <2>1, <2>2 DEF TypeOK, OtherTokensKept
    <2>4. \A q \in Pods : uses'[q] = IF q = p THEN created + 1 ELSE uses[q]
      BY <2>1, Zenon DEF TypeOK
    <2>5. /\ created \in Nat /\ LastOther \in Nat
          /\ \A t \in tokens : t.id \in Nat
          /\ \A q \in Pods : uses[q] \in Nat
          /\ job.todo \subseteq Nat /\ job.live \subseteq Pods
      BY ConstantsAssumption, Zenon DEF TypeOK, Token
    <2>6. Numbered'
      BY <2>1, <2>2, <2>4, <2>5 DEF Numbered
    <2>7. Selected'
      BY <2>1, <2>4, <2>5 DEF Selected
    <2> QED
      BY <2>3, <2>6, <2>7, Zenon
  <1>11. ASSUME NEW p \in Pods, Run(p)
         PROVE  JobInv'
    BY <1>11, PodOnly DEF Run, PodStep, TypeOK, OtherTokensKept
  <1>12. ASSUME NEW p \in Pods, Stop(p)
         PROVE  JobInv'
    <2>1. uses[p] \in Nat /\ (uses[p] = 0 \/ LastOther < uses[p])
      BY Zenon DEF TypeOK, Numbered
    <2>2. tokens' \subseteq tokens /\ OtherTokensKept'
      BY <1>12, <2>1, DeleteOnly, Zenon DEF Stop, OtherTokensKept
    <2>3. /\ steps' \in Nat /\ phase' \in [Pods -> {"absent", "pending", "running"}]
          /\ uses' = [uses EXCEPT ![p] = 0] /\ UNCHANGED <<created, leader, job, faults>>
      BY <1>12 DEF Stop, PodStep, TypeOK
    <2> QED
      BY <2>2, <2>3, PodOnly, Zenon
  <1>13. CASE UNCHANGED vars
    BY <1>13, JobOnly, Zenon DEF vars, TypeOK, Selected
  <1> QED
    BY <1>1, <1>2, <1>3, <1>4, <1>5, <1>6, <1>7, <1>8, <1>9, <1>10, <1>11, <1>12, <1>13, Zenon
    DEF Next, JobStep

\* A token in use by a pod the job found running is deleted by no step.
LEMMA StepKeeps ==
    ASSUME JobInv, [Next]_vars, NEW p \in job.live,
           uses'[p] = uses[p], uses[p] \in Ids(tokens)
    PROVE  uses[p] \in Ids(tokens')
  <1>p. p \in Pods /\ uses[p] # 0
    BY Zenon DEF JobInv, TypeOK, Ids, Token
  <1>t. PICK t \in tokens : t.id = uses[p]
    BY Zenon DEF Ids
  <1>1. CASE DeleteToken
    BY <1>1, <1>t, Zenon DEF DeleteToken, JobInv, Selected, Ids
  <1>2. ASSUME NEW q \in Pods, Stop(q)
        PROVE  t \in tokens'
    <2>1. CASE q = p
      BY <1>2, <2>1, <1>p, Zenon DEF Stop, JobInv, TypeOK
    <2>2. CASE q # p
      BY <1>2, <2>2, <1>p, <1>t, Zenon DEF Stop, JobInv, Numbered
    <2> QED
      BY <2>1, <2>2, Zenon
  <1>3. ASSUME NEW q \in Pods, Initialize(q) \/ Login(q) \/ Run(q)
        PROVE  t \in tokens'
    BY <1>3, <1>t, Zenon DEF Initialize, Login, Run
  <1>4. CASE \/ StartJob \/ WaitForLeader \/ GetLiveConsulPods \/ FetchConsulTokens \/ EndJob
             \/ JobDies \/ LoseLeader \/ ElectLeader \/ UNCHANGED vars
    BY <1>4, <1>t, Zenon DEF StartJob, WaitForLeader, GetLiveConsulPods, FetchConsulTokens, EndJob,
                      JobDies, LoseLeader, ElectLeader, vars
  <1> QED
    BY <1>1, <1>2, <1>3, <1>4, <1>t, Zenon DEF Next, JobStep, Ids

\* The job, the pods and the tokens stay within their types.
THEOREM JobTypes == Spec => []TypeOK
  <1>1. JobInv => TypeOK
    BY Zenon DEF JobInv
  <1> QED
    BY <1>1, InitInv, StepInv, PTL DEF Spec

\* deleteTokens never deletes the bootstrap token or one of another component,
\* whatever the number of pods and tokens.
THEOREM OthersSafe == Spec => []OtherTokensKept
  <1>1. JobInv => OtherTokensKept
    BY Zenon DEF JobInv
  <1> QED
    BY <1>1, InitInv, StepInv, PTL DEF Spec

\* pickTokensToDelete keeps the token in use of every pod it found running, although
\* pods log in, stop and start again between the two lists and the deletions.
THEOREM RunningPodsSafe == Spec => InUseKept
  <1>1. JobInv /\ [Next]_vars =>
          [\A p \in job.live :
             (uses'[p] = uses[p] /\ uses[p] \in Ids(tokens)) => uses[p] \in Ids(tokens')]_vars
    BY StepKeeps, Zenon
  <1> QED
    BY <1>1, InitInv, StepInv, PTL DEF Spec, InUseKept
=============================================================================
