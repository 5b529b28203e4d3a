------------------------- MODULE ConsulACLInvariant -------------------------
(***************************************************************************)
(* The inductive invariant of the ConsulACL reconciler, for any number of   *)
(* resources, namespaces, configurations and failures.                      *)
(***************************************************************************)
EXTENDS ConsulACL, TLAPS

-----------------------------------------------------------------------------
(* The inductive invariant.                                                *)

OneAtATime ==
    \A c, d \in CRs : work[c].pc # "idle" /\ work[d].pc # "idle" => c = d

\* An entity with an owner exists, and one with a prefix has no other owner than
\* the namespace of the resource.
OwnersFit ==
    \A e \in Entities :
        /\ consul[e].owners # {} => consul[e].present
        /\ \A c \in CRs : e.of = c => consul[e].owners \subseteq {Namespace[c]}

\* The cache holds an earlier version of the resource; a generation has one
\* configuration.
CacheFits(c) ==
    /\ ~Lagging => view[c] = api[c]
    /\ view[c].exists /\ api[c].exists =>
        /\ view[c].gen =< api[c].gen
        /\ view[c].gen = api[c].gen => /\ view[c].cfg = api[c].cfg
                                       /\ view[c].deleting = api[c].deleting

\* A reconcile works on the cached configuration, or there will be another one.
Current(c) ==
    work[c].pc # "idle" /\ c \notin queue => view[c].exists /\ view[c].cfg = work[c].inst.cfg

StaleStages == ReleaseStages \ {"legacy"}

\* The siblings have been listed.
ListedStages == StaleStages \cup DeleteStages

\* What a sibling declares is kept, or there will be another reconcile of it.
SiblingsListed(c) ==
    work[c].pc \in ListedStages /\ work[c].inst.cfg.explicit =>
        \A d \in CRs \ {c} :
            /\ Namespace[d] = Namespace[c] /\ d \notin queue
            /\ view[d].exists /\ ~view[d].deleting
            => Declared(d, view[d].cfg) \subseteq work[c].kept

\* What is left to do in a stage.
TodoFits(c, w) ==
    LET D == Declared(c, w.inst.cfg) IN
    /\ w.pc = "addFinalizer" => w.done = {} /\ w.todo = {}
    /\ w.pc \in ApplyStages => w.todo \subseteq OfKind(KindOf(w.pc), D)
    /\ w.pc \in {"legacy", "delLegacy"} => \A e \in w.todo : e.of = c
    /\ w.pc = "legacy" => \A e \in w.todo : e \notin D /\ ~Has(w.failed, e)
    /\ w.pc \in StaleStages =>
        \A e \in w.todo : ~Has(D, e) /\ (IF w.inst.cfg.explicit THEN ~InUse(w, e) ELSE e.of = c)
    /\ w.pc \in DeleteStages \ {"delLegacy"} =>
        \A e \in w.todo : Has(D, e) /\ (w.inst.cfg.explicit => ~InUse(w, e))
    /\ w.pc = "status" => w.todo = {}

\* A reconcile that has not failed yet.
Applying(w) ==
    w.pc \in ApplyStages \cup ReleaseStages \/ (w.pc = "status" /\ ~w.err)

\* The kinds whose stage has begun.
ReachedKinds(pc) ==
    CASE pc = "policies" -> {"policy"}
      [] pc = "roles" -> {"policy", "role"}
      [] OTHER -> {"policy", "role", "rule"}

\* What has been applied is in Consul.
ApplyFits(c, w) ==
    LET D == Declared(c, w.inst.cfg) IN
    Applying(w) =>
        /\ \A e \in w.done : e \in D /\ consul[e].present /\ Namespace[c] \in consul[e].owners
        /\ w.pc = "policies" => \A e \in w.done : e.kind = "policy"
        /\ \A e \in D : e.kind \in ReachedKinds(w.pc) =>
               e \in w.done \cup w.failed \/ (w.pc \in ApplyStages /\ e \in w.todo)

\* The kinds whose stale entities have been looked for.
ListedKinds(pc) ==
    CASE pc = "staleRules" -> {"rule"}
      [] pc = "staleRoles" -> {"rule", "role"}
      [] pc \in {"stalePolicies", "status"} -> {"rule", "role", "policy"}
      [] OTHER -> {}

\* No stale entity has been overlooked.
StaleFits(c, w) ==
    Applying(w) => \A kind \in ListedKinds(w.pc) : Stale(c, w, kind) \subseteq w.todo

\* The links of the roles this reconcile has written.
LinksFit(c, w) ==
    Applying(w) =>
        \A e \in OfKind("role", w.done) : \A p \in NamedPolicies(c, w.inst.cfg, e) :
            p \in Entities /\ p \notin w.failed /\ consul[p].present
              => p \in consul[e].links \/ (~w.inst.cfg.explicit /\ p \notin w.done)

\* The operator has nothing left to do for c and its last reconcile succeeded.
Quiet(c) ==
    /\ api[c].exists /\ ~api[c].deleting /\ api[c].ok
    /\ view[c].exists /\ view[c].gen = api[c].gen
    /\ c \notin queue /\ work[c].pc = "idle"

QuietKept(c) ==
    Quiet(c) => \A e \in Declared(c, api[c].cfg) \ api[c].bad :
                    consul[e].present /\ Namespace[c] \in consul[e].owners

Progress(c) == TodoFits(c, work[c]) /\ ApplyFits(c, work[c]) /\ StaleFits(c, work[c])

ReconcileInv(c) == CacheFits(c) /\ Current(c) /\ SiblingsListed(c) /\ Progress(c)

\* The inductive invariant.
IInv == TypeOK /\ OneAtATime /\ OwnersFit /\ \A c \in CRs : ReconcileInv(c)

-----------------------------------------------------------------------------
(* Entities.                                                               *)

Kinds == {"policy", "role", "rule"}

AllConfigs == Configs \cup {NoConfig}

LEMMA DeclaredEntities ==
    ASSUME NEW c \in CRs, NEW cfg \in AllConfigs
    PROVE  Declared(c, cfg) \subseteq Entities
<1>1. CASE cfg \in Configs
  BY <1>1 DEF Entities
<1>2. CASE cfg = NoConfig
  <2>1. cfg.policies = {} /\ cfg.roles = {} /\ cfg.rules = {}
    BY <1>2, Zenon DEF NoConfig
  <2>2. Declared(c, cfg) = {}
    BY <2>1, Zenon DEF Declared
  <2> QED
    BY <2>2, Zenon
<1> QED
  BY <1>1, <1>2, Zenon DEF AllConfigs

\* The fields of a declared entity.
LEMMA DeclaredFields ==
    ASSUME NEW c, NEW cfg, NEW e \in Declared(c, cfg)
    PROVE  /\ e.kind \in Kinds
           /\ e.of = IF cfg.explicit THEN NoCR ELSE c
           /\ e.kind = "policy" => \E n \in cfg.policies : e = PolicyEntity(c, cfg, n)
           /\ e.kind = "rule" => \E b \in cfg.rules : b.name = e.name /\ b.method = e.method
<1>1. CASE \E n \in cfg.policies : e = PolicyEntity(c, cfg, n)
  BY <1>1 DEF PolicyEntity, Entity, Kinds
<1>2. CASE \E r \in cfg.roles : e = Entity("role", r.name, c, cfg.explicit, NoMethod)
  BY <1>2 DEF Entity, Kinds
<1>3. CASE \E b \in cfg.rules : e = Entity("rule", b.name, c, cfg.explicit, b.method)
  BY <1>3 DEF Entity, Kinds
<1> QED
  BY <1>1, <1>2, <1>3, Zenon DEF Declared

LEMMA DeclaredPolicy ==
    ASSUME NEW c, NEW cfg, NEW e \in Declared(c, cfg), e.kind = "policy"
    PROVE  \E n : e = PolicyEntity(c, cfg, n)
  BY DeclaredFields

LEMMA EntityKinds == \A e \in Entities : e.kind \in Kinds
<1>1. \A e \in Existing : e.kind \in Kinds
  BY ConstantsAssumption, Zenon DEF Kinds
<1>2. ASSUME NEW c \in CRs, NEW cfg \in Configs, NEW e \in Declared(c, cfg)
      PROVE  e.kind \in Kinds
  BY DeclaredFields, Zenon
<1>3. \A e \in Entities : e \in Existing \/ \E c \in CRs, cfg \in Configs : e \in Declared(c, cfg)
  BY DEF Entities
<1> QED
  BY <1>1, <1>2, <1>3, Zenon

LEMMA KindsOfStages ==
    /\ KindOf("policies") = "policy" /\ KindOf("roles") = "role" /\ KindOf("rules") = "rule"
    /\ \A pc \in ApplyStages : KindOf(pc) \in Kinds
<1>1. KindOf("policies") = "policy" /\ KindOf("roles") = "role" /\ KindOf("rules") = "rule"
  BY Zenon DEF KindOf
<1> QED
  BY <1>1, Zenon DEF ApplyStages, Kinds

LEMMA Stages ==
    /\ NextStage("policies") = "roles" /\ NextStage("roles") = "rules"
    /\ NextStage("rules") = "legacy" /\ NextStage("legacy") = "staleRules"
    /\ NextStage("staleRules") = "staleRoles" /\ NextStage("staleRoles") = "stalePolicies"
    /\ NextStage("stalePolicies") = "status"
    /\ NextStage("delRules") = "delLegacy" /\ NextStage("delLegacy") = "delRoles"
    /\ NextStage("delRoles") = "delPolicies" /\ NextStage("delPolicies") = "removeFinalizer"
BY Zenon DEF NextStage

-----------------------------------------------------------------------------
(* Types.                                                                  *)

States == [present : BOOLEAN, owners : SUBSET Namespaces, links : SUBSET Entities]

AllStages == ApplyStages \cup ReleaseStages \cup DeleteStages

Pcs == {"idle", "addFinalizer", "status", "removeFinalizer"} \cup AllStages

LEMMA StartTypes ==
    Gone \in Resource /\ Idle \in Reconcile /\ Absent \in States /\ Idle.inst = Gone
<1>1. Gone \in Resource
  BY Zenon DEF Gone, Resource
<1>2. Idle \in Reconcile
  BY <1>1, Zenon DEF Idle, Reconcile
<1>3. Absent \in States
  BY Zenon DEF Absent, States
<1> QED
  BY <1>1, <1>2, <1>3, Zenon DEF Idle

LEMMA SiblingTypes ==
    ASSUME TypeOK, NEW c \in CRs
    PROVE  SiblingEntities(c) \subseteq Entities /\ SiblingBroken(c) \in BOOLEAN
<1>1. \A d \in Siblings(c) : d \in CRs /\ view[d].cfg \in AllConfigs
  BY Zenon DEF Siblings, TypeOK, Resource, AllConfigs
<1>2. \A d \in Siblings(c) : Declared(d, view[d].cfg) \subseteq Entities
  BY <1>1, DeclaredEntities, Zenon
<1> QED
  BY <1>2, Zenon DEF SiblingEntities, SiblingBroken

LEMMA TodoTypes ==
    ASSUME NEW c \in CRs, NEW w \in Reconcile, NEW pc
    PROVE  Todo(c, w, pc) \subseteq Entities
<1>1. w.inst \in Resource
  BY Zenon DEF Reconcile
<1>2. w.inst.cfg \in AllConfigs
  BY <1>1, Zenon DEF Resource, AllConfigs
<1>3. Declared(c, w.inst.cfg) \subseteq Entities
  BY <1>2, DeclaredEntities, Zenon
<1>4. \A kind, S : OfKind(kind, S) \subseteq S
  BY Zenon DEF OfKind
<1>5. /\ \A kind : Stale(c, w, kind) \subseteq Entities /\ ToDelete(c, w, kind) \subseteq Entities
      /\ \A b : Legacy(c, w, b) \subseteq Entities
  BY <1>4, Zenon DEF Stale, ToDelete, Legacy
<1> QED
  BY <1>3, <1>4, <1>5, Zenon DEF Todo

\* A reconcile enters a stage.
LEMMA EnterFields ==
    ASSUME TypeOK, NEW c \in CRs, NEW w \in Reconcile, NEW pc \in Pcs
    PROVE  LET v == Enter(c, w, pc) IN
           /\ v \in Reconcile
           /\ v.pc = pc /\ v.inst = w.inst /\ v.err = w.err
           /\ v.done = w.done /\ v.failed = w.failed
           /\ w.reached \subseteq v.reached
           /\ v.todo = Todo(c, IF pc \in {"staleRules", "delRules"}
                               THEN WithSiblings(c, w) ELSE w, pc)
           /\ pc \notin {"staleRules", "delRules"} => v.kept = w.kept /\ v.all = w.all
           /\ pc \in {"staleRules", "delRules"} =>
                v.kept = WithSiblings(c, w).kept /\ v.all = WithSiblings(c, w).all
<1> DEFINE u == WithSiblings(c, w)
           v == IF pc \in {"staleRules", "delRules"} THEN u ELSE w
           r == IF pc \in ApplyStages THEN v.reached \cup {KindOf(pc)} ELSE v.reached
<1>1. SiblingEntities(c) \in SUBSET Entities /\ SiblingBroken(c) \in BOOLEAN
  BY SiblingTypes, Zenon
<1>2. /\ u \in Reconcile
      /\ u.inst = w.inst /\ u.err = w.err /\ u.done = w.done /\ u.failed = w.failed
      /\ u.reached = w.reached
  BY <1>1, Zenon DEF WithSiblings, Reconcile
<1> HIDE DEF u
<1>3. /\ v \in Reconcile
      /\ v.inst = w.inst /\ v.err = w.err /\ v.done = w.done /\ v.failed = w.failed
      /\ v.reached = w.reached
  BY <1>2, Zenon
<1>4. Enter(c, w, pc) = [v EXCEPT !.pc = pc, !.todo = Todo(c, v, pc), !.reached = r]
  BY Zenon DEF Enter, u
<1>5. pc \notin {"staleRules", "delRules"} => v = w
  BY Zenon
<1>6. pc \in {"staleRules", "delRules"} => v = u
  BY Zenon
<1> HIDE DEF v
<1>7. Todo(c, v, pc) \in SUBSET Entities
  BY <1>3, TodoTypes, Zenon
<1>8. r \in SUBSET Kinds /\ v.reached \subseteq r
  BY <1>3, KindsOfStages, Zenon DEF Reconcile, Kinds
<1> HIDE DEF r
<1> DEFINE z == [v EXCEPT !.pc = pc, !.todo = Todo(c, v, pc), !.reached = r]
<1>9. z \in Reconcile
  BY <1>3, <1>7, <1>8, Zenon DEF Reconcile, Kinds, Pcs, AllStages
<1>10. /\ z.pc = pc /\ z.inst = v.inst /\ z.err = v.err
       /\ z.done = v.done /\ z.failed = v.failed
       /\ z.reached = r /\ z.todo = Todo(c, v, pc)
       /\ z.kept = v.kept /\ z.all = v.all
  BY <1>3, Zenon DEF Reconcile
<1> HIDE DEF z
<1>11. Enter(c, w, pc) = z
  BY <1>4, Zenon DEF z
<1> QED
  BY <1>3, <1>5, <1>6, <1>8, <1>9, <1>10, <1>11, Zenon DEF v, u

LEMMA EnterKeeps ==
    ASSUME TypeOK, NEW c \in CRs, NEW w \in Reconcile, NEW pc \in Pcs,
           NEW v, v = Enter(c, w, pc)
    PROVE  /\ v.pc = pc /\ v.inst = w.inst /\ v.err = w.err
           /\ v.done = w.done /\ v.failed = w.failed
  BY EnterFields

LEMMA EnterApplyTypes ==
    ASSUME TypeOK, NEW c \in CRs, NEW w \in Reconcile
    PROVE  EnterApply(c, w) \in Reconcile
<1>1. "policies" \in Pcs
  BY Zenon DEF Pcs, AllStages, ApplyStages
<1>2. Enter(c, w, "policies") \in Reconcile
  BY <1>1, EnterFields, Zenon
<1>3. [w EXCEPT !.pc = "status", !.err = TRUE] \in Reconcile
  BY Zenon DEF Reconcile
<1> QED
  BY <1>2, <1>3, Zenon DEF EnterApply

LEMMA BeginTypes ==
    ASSUME TypeOK, NEW c \in CRs, NEW o \in Resource
    PROVE  Begin(c, o) \in Reconcile
<1> DEFINE w == [Idle EXCEPT !.inst = o]
<1>1. w \in Reconcile
  BY StartTypes, Zenon DEF Reconcile
<1> HIDE DEF w
<1>2. "delRules" \in Pcs
  BY Zenon DEF Pcs, AllStages, DeleteStages
<1>3. Enter(c, w, "delRules") \in Reconcile /\ EnterApply(c, w) \in Reconcile
  BY <1>1, <1>2, EnterFields, EnterApplyTypes, Zenon
<1>4. [w EXCEPT !.pc = "addFinalizer"] \in Reconcile
  BY <1>1, Zenon DEF Reconcile
<1> QED
  BY <1>3, <1>4, StartTypes, Zenon DEF Begin, w

LEMMA PublishTypes ==
    ASSUME TypeOK, NEW c \in CRs, NEW o \in Resource, NEW r \in SUBSET CRs, Publish(c, o, r)
    PROVE  api' \in [CRs -> Resource] /\ view' \in [CRs -> Resource] /\ queue' \in SUBSET CRs
<1>1. api \in [CRs -> Resource] /\ view \in [CRs -> Resource] /\ queue \in SUBSET CRs
  BY Zenon DEF TypeOK
<1>2. api' \in [CRs -> Resource] /\ view' \in [CRs -> Resource]
  BY <1>1, Zenon DEF Publish
<1>3. queue' \in SUBSET CRs
  BY <1>1, Zenon DEF Publish
<1> QED
  BY <1>2, <1>3, Zenon

LEMMA FaultTypes ==
    ASSUME TypeOK, NEW kind, Fault(kind)
    PROVE  faults' \in Nat
BY DEF TypeOK, Fault

\* An entity is written.
LEMMA AppliedTypes ==
    ASSUME TypeOK, NEW c \in CRs, NEW e \in Entities, NEW lost
    PROVE  Applied(c, work[c], e, lost) \in States
<1>1. work[c] \in Reconcile /\ consul[e] \in States
  BY Zenon DEF TypeOK, States
<1>2. Namespace[c] \in Namespaces
  BY Zenon DEF Namespaces
<1>3. Owners(c, e) \in SUBSET Namespaces
  BY <1>1, <1>2, Zenon DEF Owners, States
<1>4. LookedUp(c, work[c], e) \subseteq Entities
  BY Zenon DEF LookedUp
<1>5. work[c].done \subseteq Entities
  BY <1>1, Zenon DEF Reconcile
<1>6. PolicyLinks(c, work[c], e, lost) \in SUBSET Entities
  BY <1>4, <1>5, Zenon DEF PolicyLinks
<1> QED
  BY <1>3, <1>6, Zenon DEF Applied, States

\* An entity is released.
LEMMA ReleaseTypes ==
    ASSUME TypeOK, NEW c \in CRs, NEW w, NEW e \in Entities
    PROVE  AfterRelease(c, w, e) \in [Entities -> States]
<1>1. consul \in [Entities -> States]
  BY Zenon DEF TypeOK, States
<1>2. Deleted({e}) \in [Entities -> States]
  <2>1. ASSUME NEW x \in Entities PROVE [consul[x] EXCEPT !.links = @ \ {e}] \in States
    <3>1. consul[x] \in States /\ consul[x].links \ {e} \in SUBSET Entities
      BY <1>1, Zenon DEF States
    <3> QED
      BY <3>1, Zenon DEF States
  <2> QED
    BY <2>1, StartTypes, Zenon DEF Deleted
<1>3. [consul EXCEPT ![e].owners = @ \ {Namespace[c]}] \in [Entities -> States]
  <2>1. consul[e] \in States /\ consul[e].owners \ {Namespace[c]} \in SUBSET Namespaces
    BY <1>1, Zenon DEF States
  <2>2. [consul[e] EXCEPT !.owners = @ \ {Namespace[c]}] \in States
    BY <2>1, Zenon DEF States
  <2> QED
    BY <1>1, <2>2, Zenon
<1> QED
  BY <1>2, <1>3, Zenon DEF AfterRelease, Released

LEMMA StageTypes ==
    ASSUME NEW pc \in AllStages
    PROVE  pc \in Pcs /\ NextStage(pc) \in Pcs /\ "status" \in Pcs
BY Stages, Zenon DEF AllStages, ApplyStages, ReleaseStages, DeleteStages, Pcs

\* The reconcile of c becomes w.
LEMMA WorkTypes ==
    ASSUME TypeOK, NEW c \in CRs, NEW w \in Reconcile, work' = [work EXCEPT ![c] = w]
    PROVE  work' \in [CRs -> Reconcile] /\ work'[c] = w /\ \A d \in CRs \ {c} : work'[d] = work[d]
BY Zenon DEF TypeOK

\* The steps of one reconcile keep the types.
LEMMA ReconcileStepTypes ==
    ASSUME TypeOK, NEW c \in CRs, ReconcileStep(c)
    PROVE  TypeOK'
<1> DEFINE w == work[c]
<1>a. /\ api \in [CRs -> Resource] /\ view \in [CRs -> Resource] /\ queue \in SUBSET CRs
      /\ edits \in Nat /\ faults \in Nat /\ work \in [CRs -> Reconcile]
      /\ consul \in [Entities -> States] /\ methods \subseteq {GlobalMethod} \cup OtherMethods
  BY Zenon DEF TypeOK, States
<1>b. w \in Reconcile /\ w.todo \subseteq Entities /\ w.failed \subseteq Entities
  BY <1>a, Zenon DEF Reconcile
<1>c. Idle \in Reconcile /\ Gone \in Resource
  BY StartTypes, Zenon
<1>d. End(c) => work' \in [CRs -> Reconcile]
  BY <1>a, <1>c, WorkTypes, Zenon DEF End
<1> SUFFICES /\ api' \in [CRs -> Resource] /\ view' \in [CRs -> Resource] /\ queue' \in SUBSET CRs
             /\ edits' \in Nat /\ faults' \in Nat /\ work' \in [CRs -> Reconcile]
             /\ consul' \in [Entities -> States]
             /\ methods' \subseteq {GlobalMethod} \cup OtherMethods
  BY Zenon DEF TypeOK, States
<1> HIDE DEF w
<1>1. CASE AddFinalizer(c)
  <2> DEFINE o == [api[c] EXCEPT !.fin = TRUE]
  <2>1. o \in Resource
    BY <1>a, ZenonT(90) DEF Resource
  <2>2. api' \in [CRs -> Resource] /\ view' \in [CRs -> Resource] /\ queue' \in SUBSET CRs
    <3>1. Publish(c, o, {}) \/ UNCHANGED <<api, view, queue>>
      BY <1>1, Zenon DEF AddFinalizer
    <3> HIDE DEF o
    <3> QED
      BY <1>a, <2>1, <3>1, PublishTypes, Zenon
  <2>3. work' \in [CRs -> Reconcile]
    BY <1>1, <1>a, <1>b, EnterApplyTypes, WorkTypes, Zenon DEF AddFinalizer, w
  <2> QED
    BY <1>1, <1>a, <2>2, <2>3, Zenon DEF AddFinalizer
<1>2. CASE ApplyEntity(c)
  <2>1. PICK e \in w.todo :
           /\ \E lost \in SUBSET LookedUp(c, w, e) :
                /\ IF lost = {} THEN faults' = faults ELSE Fault("lookup")
                /\ consul' = [consul EXCEPT ![e] = Applied(c, w, e, lost)]
           /\ work' = [work EXCEPT ![c] = [w EXCEPT !.todo = @ \ {e}, !.done = @ \cup {e}]]
    BY <1>2, Zenon DEF ApplyEntity, w
  <2>2. e \in Entities
    BY <1>b, Zenon
  <2>3. [w EXCEPT !.todo = @ \ {e}, !.done = @ \cup {e}] \in Reconcile
    <3>1. w.todo \ {e} \in SUBSET Entities /\ w.done \cup {e} \in SUBSET Entities
      BY <1>b, <2>2, Zenon DEF Reconcile
    <3> QED
      BY <1>b, <3>1, Zenon DEF Reconcile
  <2>4. work' \in [CRs -> Reconcile]
    BY <2>1, <2>3, WorkTypes, Zenon
  <2>5. consul' \in [Entities -> States]
    <3>1. PICK lost : consul' = [consul EXCEPT ![e] = Applied(c, w, e, lost)]
      BY <2>1, Zenon
    <3>2. Applied(c, w, e, lost) \in States
      BY <2>2, AppliedTypes, Zenon DEF w
    <3> QED
      BY <1>a, <3>1, <3>2, Zenon
  <2>6. faults' \in Nat
    BY <1>a, <2>1, FaultTypes, Zenon
  <2> QED
    BY <1>2, <1>a, <2>4, <2>5, <2>6, Zenon DEF ApplyEntity
<1>3. CASE ApplyFails(c)
  <2>1. PICK e \in w.todo :
           /\ \E t \in BOOLEAN : Skip(c, e, t)
           /\ consul' = consul \/ consul' = [consul EXCEPT ![e] = Applied(c, w, e, {})]
           /\ faults' = faults \/ \E kind : Fault(kind)
    BY <1>3, Zenon DEF ApplyFails, w
  <2>2. e \in Entities
    BY <1>b, Zenon
  <2>3. PICK t \in BOOLEAN :
           work' = [work EXCEPT ![c] = [w EXCEPT !.todo = @ \ {e}, !.failed = @ \cup {e},
                                                 !.err = @ \/ t]]
    BY <2>1, Zenon DEF Skip, w
  <2>4. [w EXCEPT !.todo = @ \ {e}, !.failed = @ \cup {e}, !.err = @ \/ t] \in Reconcile
    <3>1. w.todo \ {e} \in SUBSET Entities /\ w.failed \cup {e} \in SUBSET Entities
      BY <1>b, <2>2, Zenon
    <3>2. (w.err \/ t) \in BOOLEAN
      BY Zenon
    <3> QED
      BY <1>b, <3>1, <3>2, Zenon DEF Reconcile
  <2>5. work' \in [CRs -> Reconcile]
    BY <2>3, <2>4, WorkTypes, Zenon
  <2>6. Applied(c, w, e, {}) \in States
    BY <2>2, AppliedTypes, Zenon DEF w
  <2>7. consul' \in [Entities -> States]
    BY <1>a, <2>1, <2>6, Zenon
  <2>8. faults' \in Nat
    BY <1>a, <2>1, FaultTypes, Zenon
  <2> QED
    BY <1>3, <1>a, <2>5, <2>7, <2>8, Zenon DEF ApplyFails
<1>4. CASE ReleaseEntity(c)
  <2>1. PICK e \in w.todo : /\ consul' = AfterRelease(c, w, e)
                            /\ work' = [work EXCEPT ![c] = [w EXCEPT !.todo = @ \ {e}]]
    BY <1>4, Zenon DEF ReleaseEntity, w
  <2>2. e \in Entities /\ w.todo \ {e} \in SUBSET Entities
    BY <1>b, Zenon
  <2>3. [w EXCEPT !.todo = @ \ {e}] \in Reconcile
    BY <1>b, <2>2, Zenon DEF Reconcile
  <2>4. work' \in [CRs -> Reconcile] /\ consul' \in [Entities -> States]
    BY <2>1, <2>2, <2>3, WorkTypes, ReleaseTypes, Zenon
  <2> QED
    BY <1>4, <1>a, <2>4, Zenon DEF ReleaseEntity
<1>5. CASE LeaveStage(c)
  <2>1. PICK pc \in Pcs : work' = [work EXCEPT ![c] = Enter(c, w, pc)]
    <3>1. w.pc \in AllStages
      BY <1>5, Zenon DEF LeaveStage, w, AllStages
    <3> QED
      BY <1>5, <3>1, StageTypes, Zenon DEF LeaveStage, w
  <2>2. Enter(c, w, pc) \in Reconcile
    BY <1>b, EnterFields, Zenon
  <2>3. work' \in [CRs -> Reconcile]
    BY <2>1, <2>2, WorkTypes, Zenon
  <2> QED
    BY <1>5, <1>a, <2>3, Zenon DEF LeaveStage
<1>6. CASE StageFails(c)
  <2>1. consul' = consul \/ \E e \in w.todo : consul' = AfterRelease(c, w, e)
    BY <1>6, Zenon DEF StageFails, w
  <2>2. consul' \in [Entities -> States]
    <3>1. \A e \in w.todo : AfterRelease(c, w, e) \in [Entities -> States]
      BY <1>b, ReleaseTypes, Zenon
    <3> QED
      BY <1>a, <2>1, <3>1, Zenon
  <2>3. \E kind : Fault(kind)
    BY <1>6, Zenon DEF StageFails
  <2>4. faults' \in Nat
    BY <2>3, FaultTypes, Zenon
  <2>5. [w EXCEPT !.pc = "status", !.todo = {}, !.err = TRUE] \in Reconcile
    BY <1>b, Zenon DEF Reconcile
  <2>6. work' \in [CRs -> Reconcile]
    BY <1>6, <1>d, <2>5, WorkTypes, Zenon DEF StageFails, w
  <2>7. queue' \in SUBSET CRs
    BY <1>6, <1>a, Zenon DEF StageFails
  <2> QED
    BY <1>6, <1>a, <2>2, <2>4, <2>6, <2>7, Zenon DEF StageFails
<1>7. CASE UpdateStatus(c)
  <2> DEFINE bad == {e \in api[c].bad : e.kind \notin w.reached} \cup w.failed
             requeued == IF w.err THEN {c} ELSE {}
             ok == ~w.err
             o == [api[c] EXCEPT !.bad = bad, !.ok = ok, !.obs = api[c].gen]
  <2>1. bad \in SUBSET Entities /\ requeued \in SUBSET CRs
    BY <1>a, <1>b, Zenon DEF Resource
  <2>2. ok \in BOOLEAN /\ api[c].gen \in Nat /\ api[c] \in Resource
    BY <1>a, Zenon DEF Resource
  <2> HIDE DEF bad, requeued, ok
  <2>3. o \in Resource
    BY <1>a, <2>1, <2>2, Zenon DEF Resource
  <2>4. \/ Publish(c, o, requeued)
        \/ queue' = queue \cup requeued /\ UNCHANGED <<api, view>>
    BY <1>7, Zenon DEF UpdateStatus, w, bad, requeued, ok
  <2> HIDE DEF o
  <2>5. api' \in [CRs -> Resource] /\ view' \in [CRs -> Resource] /\ queue' \in SUBSET CRs
    BY <1>a, <2>1, <2>3, <2>4, PublishTypes, Zenon
  <2> QED
    BY <1>7, <1>a, <1>d, <2>5, Zenon DEF UpdateStatus
<1>8. CASE RemoveFinalizer(c)
  <2>1. Publish(c, Gone, {}) \/ UNCHANGED <<api, view, queue>>
    BY <1>8, Zenon DEF RemoveFinalizer
  <2>2. api' \in [CRs -> Resource] /\ view' \in [CRs -> Resource] /\ queue' \in SUBSET CRs
    BY <1>a, <1>c, <2>1, PublishTypes, Zenon
  <2> QED
    BY <1>8, <1>a, <1>d, <2>2, Zenon DEF RemoveFinalizer
<1>9. CASE UpdateFails(c)
  <2>1. \E kind : Fault(kind)
    BY <1>9, Zenon DEF UpdateFails
  <2>2. faults' \in Nat
    BY <2>1, FaultTypes, Zenon
  <2>3. queue' \in SUBSET CRs
    BY <1>9, <1>a, Zenon DEF UpdateFails
  <2> QED
    BY <1>9, <1>a, <1>d, <2>2, <2>3, Zenon DEF UpdateFails
<1> QED
  BY <1>1, <1>2, <1>3, <1>4, <1>5, <1>6, <1>7, <1>8, <1>9, Zenon DEF ReconcileStep

LEMMA OtherStepTypes ==
    ASSUME TypeOK,
           \/ EnsureAuthMethod \/ Crash
           \/ \E c \in CRs : Start(c) \/ Sync(c) \/ Create(c) \/ Edit(c) \/ Delete(c)
    PROVE  TypeOK'
<1>a. /\ api \in [CRs -> Resource] /\ view \in [CRs -> Resource] /\ queue \in SUBSET CRs
      /\ edits \in Nat /\ faults \in Nat /\ work \in [CRs -> Reconcile]
      /\ consul \in [Entities -> States] /\ methods \subseteq {GlobalMethod} \cup OtherMethods
  BY Zenon DEF TypeOK, States
<1>b. Idle \in Reconcile /\ Gone \in Resource
  BY StartTypes, Zenon
<1>c. Edited => edits' \in Nat
  BY <1>a DEF Edited
<1> SUFFICES /\ api' \in [CRs -> Resource] /\ view' \in [CRs -> Resource] /\ queue' \in SUBSET CRs
             /\ edits' \in Nat /\ faults' \in Nat /\ work' \in [CRs -> Reconcile]
             /\ consul' \in [Entities -> States]
             /\ methods' \subseteq {GlobalMethod} \cup OtherMethods
  BY Zenon DEF TypeOK, States
<1>1. CASE EnsureAuthMethod
  <2>1. methods' \subseteq {GlobalMethod} \cup OtherMethods
    BY <1>1, <1>a, Zenon DEF EnsureAuthMethod
  <2> QED
    BY <1>1, <1>a, <2>1, Zenon DEF EnsureAuthMethod
<1>2. CASE Crash
  <2>1. faults' \in Nat
    BY <1>2, FaultTypes, Zenon DEF Crash
  <2>2. work' \in [CRs -> Reconcile] /\ queue' \in SUBSET CRs
    BY <1>2, <1>b, Zenon DEF Crash
  <2> QED
    BY <1>2, <1>a, <2>1, <2>2, Zenon DEF Crash
<1>3. ASSUME NEW c \in CRs, Start(c) PROVE TypeOK'
  <2>1. Begin(c, view[c]) \in Reconcile
    BY <1>a, BeginTypes, Zenon
  <2>2. work' \in [CRs -> Reconcile]
    BY <1>3, <2>1, WorkTypes, Zenon DEF Start
  <2>3. queue' \in SUBSET CRs
    BY <1>3, <1>a, Zenon DEF Start
  <2> QED
    BY <1>3, <1>a, <2>2, <2>3, Zenon DEF Start, TypeOK, States
<1>4. ASSUME NEW c \in CRs, Sync(c) PROVE TypeOK'
  <2>1. view' \in [CRs -> Resource]
    BY <1>4, <1>a, Zenon DEF Sync, Deliver
  <2>2. queue' \in SUBSET CRs
    BY <1>4, <1>a, Zenon DEF Sync, Deliver
  <2> QED
    BY <1>4, <1>a, <2>1, <2>2, Zenon DEF Sync, TypeOK, States
<1>5. ASSUME NEW c \in CRs, NEW o \in Resource, Publish(c, o, {}), Edited,
             UNCHANGED <<faults, work, consul, methods>>
      PROVE  TypeOK'
  <2>1. api' \in [CRs -> Resource] /\ view' \in [CRs -> Resource] /\ queue' \in SUBSET CRs
    BY <1>5, PublishTypes, Zenon
  <2> QED
    BY <1>5, <1>a, <1>c, <2>1, Zenon DEF TypeOK, States
<1>6. ASSUME NEW c \in CRs, Create(c) PROVE TypeOK'
  <2>1. PICK cfg \in Configs : Publish(c, [Gone EXCEPT !.exists = TRUE, !.gen = 1, !.cfg = cfg], {})
    BY <1>6, Zenon DEF Create
  <2> DEFINE o == [Gone EXCEPT !.exists = TRUE, !.gen = 1, !.cfg = cfg]
  <2>2. o \in Resource
    BY <1>b, Zenon DEF Resource
  <2> HIDE DEF o
  <2> QED
    BY <1>5, <1>6, <2>1, <2>2, Zenon DEF Create, o
<1>7. ASSUME NEW c \in CRs, Edit(c) PROVE TypeOK'
  <2>1. PICK cfg \in Configs : Publish(c, [api[c] EXCEPT !.gen = @ + 1, !.cfg = cfg], {})
    BY <1>7, Zenon DEF Edit
  <2> DEFINE o == [api[c] EXCEPT !.gen = @ + 1, !.cfg = cfg]
  <2>2. o \in Resource
    <3>1. api[c] \in Resource /\ api[c].gen + 1 \in Nat
      BY <1>a DEF Resource
    <3> QED
      BY <3>1, Zenon DEF Resource
  <2> HIDE DEF o
  <2> QED
    BY <1>5, <1>7, <2>1, <2>2, Zenon DEF Edit, o
<1>8. ASSUME NEW c \in CRs, Delete(c) PROVE TypeOK'
  <2> DEFINE o == IF api[c].fin THEN [api[c] EXCEPT !.deleting = TRUE, !.gen = @ + 1] ELSE Gone
  <2>1. o \in Resource
    <3>1. api[c] \in Resource /\ api[c].gen + 1 \in Nat
      BY <1>a DEF Resource
    <3> QED
      BY <1>b, <3>1, Zenon DEF Resource
  <2>2. Publish(c, o, {})
    BY <1>8, Zenon DEF Delete
  <2> HIDE DEF o
  <2> QED
    BY <1>5, <1>8, <2>1, <2>2, Zenon DEF Delete
<1>9. TypeOK' => /\ api' \in [CRs -> Resource] /\ view' \in [CRs -> Resource]
                 /\ queue' \in SUBSET CRs /\ edits' \in Nat /\ faults' \in Nat
                 /\ work' \in [CRs -> Reconcile] /\ consul' \in [Entities -> States]
                 /\ methods' \subseteq {GlobalMethod} \cup OtherMethods
  BY Zenon DEF TypeOK, States
<1> QED
  BY <1>1, <1>2, <1>3, <1>4, <1>6, <1>7, <1>8, <1>9, Zenon

LEMMA InitTypes == Init => TypeOK
<1> SUFFICES ASSUME Init PROVE TypeOK
  BY Zenon
<1>1. \A e \in Entities : [Absent EXCEPT !.present = (e \in Existing)] \in States
  <2>1. \A b \in BOOLEAN : [Absent EXCEPT !.present = b] \in States
    BY StartTypes, Zenon DEF States
  <2>2. \A e : (e \in Existing) \in BOOLEAN
    OBVIOUS
  <2> QED
    BY <2>1, <2>2, Zenon
<1>2. consul \in [Entities -> States]
  BY <1>1, Zenon DEF Init
<1> QED
  BY <1>2, StartTypes, Zenon DEF Init, TypeOK, States

LEMMA TypesStep == TypeOK /\ [Next]_vars => TypeOK'
<1> SUFFICES ASSUME TypeOK, [Next]_vars PROVE TypeOK'
  BY Zenon
<1>1. CASE UNCHANGED vars
  BY <1>1, Zenon DEF TypeOK, vars
<1>2. CASE Next
  <2>1. CASE \E c \in CRs : ReconcileStep(c)
    BY <2>1, ReconcileStepTypes, Zenon
  <2>2. CASE ~\E c \in CRs : ReconcileStep(c)
    BY <1>2, <2>2, OtherStepTypes, Zenon DEF Next
  <2> QED
    BY <2>1, <2>2, Zenon
<1> QED
  BY <1>1, <1>2, Zenon

\* The reconciler is well typed: the cached and the stored resources, the reconcile
\* in progress and every entity in Consul, whatever the constants.
THEOREM ACLTypes == Spec => []TypeOK
BY InitTypes, TypesStep, PTL DEF Spec

-----------------------------------------------------------------------------
(* What the steps do to Consul.                                            *)

\* Entity e is written; only its state changes.
LEMMA ApplyEffect ==
    ASSUME TypeOK, NEW c \in CRs, NEW e \in Entities, NEW lost,
           consul' = [consul EXCEPT ![e] = Applied(c, work[c], e, lost)]
    PROVE  /\ \A x \in Entities \ {e} : consul'[x] = consul[x]
           /\ consul'[e].present /\ consul'[e].owners = Owners(c, e)
           /\ e.kind = "role" => consul'[e].links = PolicyLinks(c, work[c], e, lost)
<1>1. consul \in [Entities -> States]
  BY Zenon DEF TypeOK, States
<1>2. consul'[e] = Applied(c, work[c], e, lost)
  BY <1>1, Zenon
<1>3. consul'[e].present /\ consul'[e].owners = Owners(c, e)
  BY <1>2 DEF Applied
<1>4. e.kind = "role" => consul'[e].links = PolicyLinks(c, work[c], e, lost)
  BY <1>2 DEF Applied
<1> QED
  BY <1>1, <1>3, <1>4, Zenon

\* Entity e is deleted outright, deleted with its last owner, or loses one owner.
LEMMA ReleaseEffect ==
    ASSUME TypeOK, NEW c \in CRs, NEW e \in Entities,
           consul' = AfterRelease(c, work[c], e)
    PROVE  /\ \A x \in Entities \ {e} : /\ consul'[x].present = consul[x].present
                                        /\ consul'[x].owners = consul[x].owners
                                        /\ consul[x].links \ {e} \subseteq consul'[x].links
           /\ \/ /\ ~consul'[e].present /\ consul'[e].owners = {}
                 /\ \/ work[c].pc \in {"legacy", "delLegacy"}
                    \/ work[c].pc \in ReleaseStages /\ ~work[c].inst.cfg.explicit
                    \/ consul[e].owners \subseteq {Namespace[c]}
              \/ /\ consul'[e].present = consul[e].present
                 /\ consul'[e].owners = consul[e].owners \ {Namespace[c]}
                 /\ consul'[e].owners # {}
                 /\ consul'[e].links = consul[e].links
<1> DEFINE w == work[c]
<1>1. consul \in [Entities -> States]
  BY Zenon DEF TypeOK, States
<1>2. CASE consul' = Deleted({e})
  <2>1. ASSUME NEW x \in Entities \ {e}
        PROVE  /\ consul'[x].present = consul[x].present
               /\ consul'[x].owners = consul[x].owners
               /\ consul[x].links \ {e} \subseteq consul'[x].links
    <3>1. consul[x] \in States
      BY <1>1, Zenon
    <3>2. consul'[x] = [consul[x] EXCEPT !.links = @ \ {e}]
      BY <1>2, Zenon DEF Deleted
    <3> QED
      BY <3>1, <3>2, Zenon DEF States
  <2>2. consul'[e] = Absent
    BY <1>2, Zenon DEF Deleted
  <2>3. ~consul'[e].present /\ consul'[e].owners = {}
    BY <2>2 DEF Absent
  <2>4. CASE w.pc \in {"legacy", "delLegacy"} \/ (w.pc \in ReleaseStages /\ ~w.inst.cfg.explicit)
    BY <2>1, <2>3, <2>4, Zenon
  <2>5. CASE ~(w.pc \in {"legacy", "delLegacy"} \/ (w.pc \in ReleaseStages /\ ~w.inst.cfg.explicit))
    <3>1. consul' = Released(c, e)
      BY <2>5, Zenon DEF AfterRelease
    <3>2. CASE IsLast(c, e)
      <4>1. consul[e].owners \subseteq {Namespace[c]}
        BY <3>2, Zenon DEF IsLast
      <4> QED
        BY <2>1, <2>3, <4>1, Zenon
    <3>3. CASE ~IsLast(c, e)
      <4>1. consul' = [consul EXCEPT ![e].owners = @ \ {Namespace[c]}]
        BY <3>1, <3>3, Zenon DEF Released
      <4>2. consul[e] \in States
        BY <1>1, Zenon
      <4>3. consul'[e].owners = consul[e].owners \ {Namespace[c]}
        BY <1>1, <4>1, <4>2, Zenon DEF States
      <4> QED
        BY <2>3, <3>3, <4>3, Zenon DEF IsLast
    <3> QED
      BY <3>2, <3>3, Zenon
  <2> QED
    BY <2>4, <2>5, Zenon
<1>3. CASE consul' # Deleted({e})
  <2>1. consul' = [consul EXCEPT ![e].owners = @ \ {Namespace[c]}] /\ ~IsLast(c, e)
    BY <1>3, Zenon DEF AfterRelease, Released
  <2>2. consul[e] \in States
    BY <1>1, Zenon
  <2>3. /\ consul'[e].owners = consul[e].owners \ {Namespace[c]}
        /\ consul'[e].present = consul[e].present
        /\ consul'[e].links = consul[e].links
    BY <1>1, <2>1, <2>2, Zenon DEF States
  <2>4. consul'[e].owners # {}
    BY <2>1, <2>3, Zenon DEF IsLast
  <2>5. \A x \in Entities \ {e} : consul'[x] = consul[x]
    BY <1>1, <2>1, Zenon
  <2> QED
    BY <2>1, <2>3, <2>4, <2>5, Zenon
<1> QED
  BY <1>2, <1>3, Zenon

-----------------------------------------------------------------------------
(* The reconcile in progress.                                              *)

\* A reconcile works alone, on the resource it has read.
LEMMA ReconcileLocal ==
    ASSUME TypeOK, NEW c \in CRs, ReconcileStep(c)
    PROVE  /\ work[c].pc # "idle"
           /\ \A d \in CRs \ {c} : work'[d] = work[d]
           /\ work'[c].pc # "idle" => work'[c].inst = work[c].inst
<1>a. work \in [CRs -> Reconcile] /\ work[c] \in Reconcile
  BY Zenon DEF TypeOK
<1>b. ASSUME NEW w \in Reconcile, work' = [work EXCEPT ![c] = w]
      PROVE  work'[c] = w /\ \A d \in CRs \ {c} : work'[d] = work[d]
  BY <1>b, WorkTypes, Zenon
<1>c. ASSUME End(c)
      PROVE  work'[c].pc = "idle" /\ \A d \in CRs \ {c} : work'[d] = work[d]
  <2>1. work'[c] = Idle
    BY <1>c, <1>b, StartTypes, ZenonT(90) DEF End
  <2>2. work'[c].pc = "idle"
    BY <2>1 DEF Idle
  <2> QED
    BY <1>c, <1>b, <2>2, StartTypes, Zenon DEF End
<1>1. work[c].pc # "idle"
  BY Zenon DEF ReconcileStep, AddFinalizer, ApplyEntity, ApplyFails, ReleaseEntity, LeaveStage,
         StageFails, UpdateStatus, RemoveFinalizer, UpdateFails,
         ApplyStages, ReleaseStages, DeleteStages
<1>2. CASE AddFinalizer(c)
  <2>1. EnterApply(c, work[c]) \in Reconcile
    BY <1>a, EnterApplyTypes, Zenon
  <2>2. EnterApply(c, work[c]).inst = work[c].inst
    <3>1. "policies" \in Pcs
      BY Zenon DEF Pcs, AllStages, ApplyStages
    <3>2. Enter(c, work[c], "policies").inst = work[c].inst
      BY <1>a, <3>1, EnterFields
    <3>3. [work[c] EXCEPT !.pc = "status", !.err = TRUE].inst = work[c].inst
      BY <1>a, Zenon DEF Reconcile
    <3> QED
      BY <3>2, <3>3, Zenon DEF EnterApply
  <2> QED
    BY <1>1, <1>2, <1>b, <2>1, <2>2, Zenon DEF AddFinalizer
<1>3. CASE ApplyEntity(c) \/ ApplyFails(c) \/ ReleaseEntity(c)
  <2>1. PICK e, v : /\ work' = [work EXCEPT ![c] = v]
                    /\ \/ v = [work[c] EXCEPT !.todo = @ \ {e}, !.done = @ \cup {e}]
                       \/ v = [work[c] EXCEPT !.todo = @ \ {e}]
                       \/ \E t : v = [work[c] EXCEPT !.todo = @ \ {e}, !.failed = @ \cup {e},
                                                     !.err = @ \/ t]
    BY <1>3, ZenonT(90) DEF ApplyEntity, ApplyFails, ReleaseEntity, Skip
  <2>2. v.inst = work[c].inst
    BY <1>a, <2>1, Zenon DEF Reconcile
  <2>3. work'[c] = v /\ \A d \in CRs \ {c} : work'[d] = work[d]
    BY <1>a, <2>1, Zenon
  <2> QED
    BY <1>1, <2>2, <2>3, Zenon
<1>4. CASE LeaveStage(c)
  <2>1. PICK pc \in Pcs : work' = [work EXCEPT ![c] = Enter(c, work[c], pc)]
    <3>1. work[c].pc \in AllStages
      BY <1>4, Zenon DEF LeaveStage, AllStages
    <3> QED
      BY <1>4, <3>1, StageTypes, Zenon DEF LeaveStage
  <2>2. Enter(c, work[c], pc) \in Reconcile /\ Enter(c, work[c], pc).inst = work[c].inst
    BY <1>a, EnterFields
  <2> QED
    BY <1>1, <1>b, <2>1, <2>2, Zenon
<1>5. CASE StageFails(c)
  <2> DEFINE v == [work[c] EXCEPT !.pc = "status", !.todo = {}, !.err = TRUE]
  <2>1. v \in Reconcile /\ v.inst = work[c].inst
    BY <1>a, Zenon DEF Reconcile
  <2>2. End(c) \/ work' = [work EXCEPT ![c] = v]
    BY <1>5, Zenon DEF StageFails
  <2> HIDE DEF v
  <2> QED
    BY <1>1, <1>b, <1>c, <2>1, <2>2, Zenon
<1>6. CASE UpdateStatus(c) \/ RemoveFinalizer(c) \/ UpdateFails(c)
  <2>1. End(c)
    BY <1>6, Zenon DEF UpdateStatus, RemoveFinalizer, UpdateFails
  <2> QED
    BY <1>1, <1>c, <2>1, Zenon
<1> QED
  BY <1>2, <1>3, <1>4, <1>5, <1>6, Zenon DEF ReconcileStep

-----------------------------------------------------------------------------
(* The cache and the queue.                                                *)

\* A new generation, or the same configuration.
Follows(old, o) ==
    old.exists /\ o.exists =>
        \/ o.gen = old.gen /\ o.cfg = old.cfg /\ o.deleting = old.deleting
        \/ o.gen > old.gen

\* What the cache holds of c does not change, or c is queued.
Steady(c) ==
    c \notin queue' =>
        /\ view'[c].exists = view[c].exists
        /\ view[c].exists => /\ view'[c].gen = view[c].gen /\ view'[c].cfg = view[c].cfg
                             /\ view'[c].deleting = view[c].deleting

LEMMA PublishCache ==
    ASSUME TypeOK, NEW c \in CRs, NEW o \in Resource, NEW r \in SUBSET CRs, CacheFits(c),
           Publish(c, o, r), Follows(api[c], o),
           o.exists /\ ~api[c].exists => ~view[c].exists
    PROVE  /\ CacheFits(c)' /\ Steady(c) /\ queue \subseteq queue' /\ r \subseteq queue'
           /\ api'[c] = o
           /\ \A d \in CRs \ {c} : api'[d] = api[d] /\ view'[d] = view[d]
<1>1. api \in [CRs -> Resource] /\ view \in [CRs -> Resource] /\ queue \in SUBSET CRs
  BY Zenon DEF TypeOK
<1>2. api'[c] = o /\ \A d \in CRs \ {c} : api'[d] = api[d]
  BY <1>1, Zenon DEF Publish
<1>3. \A d \in CRs \ {c} : view'[d] = view[d]
  BY <1>1, Zenon DEF Publish
<1>4. queue \subseteq queue' /\ r \subseteq queue'
  BY Zenon DEF Publish
<1>5. api[c].gen \in Nat /\ o.gen \in Nat /\ view[c].gen \in Nat
  BY <1>1, Zenon DEF Resource
<1>6. CASE Lagging
  <2>1. view' = view
    BY <1>6, Zenon DEF Publish
  <2>2. Steady(c)
    BY <2>1, Zenon DEF Steady
  <2>3. ASSUME view[c].exists, o.exists
        PROVE  /\ view[c].gen =< o.gen
               /\ view[c].gen = o.gen => view[c].cfg = o.cfg /\ view[c].deleting = o.deleting
    <3>1. api[c].exists
      BY <2>3, Zenon
    <3>2. /\ view[c].gen =< api[c].gen
          /\ view[c].gen = api[c].gen => /\ view[c].cfg = api[c].cfg
                                         /\ view[c].deleting = api[c].deleting
      BY <2>3, <3>1, Zenon DEF CacheFits
    <3>3. CASE o.gen = api[c].gen /\ o.cfg = api[c].cfg /\ o.deleting = api[c].deleting
      BY <3>2, <3>3, Zenon
    <3>4. CASE o.gen > api[c].gen
      BY <1>5, <3>2, <3>4
    <3> QED
      BY <2>3, <3>1, <3>3, <3>4, Zenon DEF Follows
  <2>4. CacheFits(c)'
    BY <1>2, <1>6, <2>1, <2>3, Zenon DEF CacheFits, Lagging
  <2> QED
    BY <1>2, <1>3, <1>4, <2>2, <2>4, Zenon
<1>7. CASE ~Lagging
  <2>1. view'[c] = o /\ view[c] = api[c]
    BY <1>1, <1>7, Zenon DEF Publish, CacheFits
  <2>2. CacheFits(c)'
    <3>1. o.gen =< o.gen
      BY <1>5
    <3> QED
      BY <1>2, <2>1, <3>1, Zenon DEF CacheFits
  <2>3. Steady(c)
    <3> SUFFICES ASSUME c \notin queue'
                 PROVE  /\ view'[c].exists = view[c].exists
                        /\ view[c].exists => /\ view'[c].gen = view[c].gen
                                             /\ view'[c].cfg = view[c].cfg
                                             /\ view'[c].deleting = view[c].deleting
      BY Zenon DEF Steady
    <3>1. ~Triggers(api[c], o)
      BY <1>7, Zenon DEF Publish
    <3>2. o.exists = api[c].exists /\ o.gen = api[c].gen
      BY <3>1, Zenon DEF Triggers
    <3>3. ~(o.gen > api[c].gen)
      BY <1>5, <3>2
    <3> QED
      BY <2>1, <3>2, <3>3, Zenon DEF Follows
  <2> QED
    BY <1>2, <1>3, <1>4, <2>2, <2>3, Zenon
<1> QED
  BY <1>6, <1>7, ZenonT(90)

LEMMA ReconcileCache ==
    ASSUME TypeOK, NEW c \in CRs, CacheFits(c), ReconcileStep(c)
    PROVE  /\ CacheFits(c)' /\ Steady(c) /\ queue \subseteq queue'
           /\ \A d \in CRs \ {c} : api'[d] = api[d] /\ view'[d] = view[d]
<1>a. api[c] \in Resource /\ Gone \in Resource /\ ~Gone.exists
  BY StartTypes, Zenon DEF TypeOK, Gone
<1>1. CASE UNCHANGED <<api, view>> /\ queue \subseteq queue'
  BY <1>1, Zenon DEF CacheFits, Steady
<1>2. CASE \E r \in SUBSET CRs : Publish(c, Gone, r)
  <2>1. Follows(api[c], Gone)
    BY <1>a, Zenon DEF Follows
  <2> QED
    BY <1>2, <1>a, <2>1, PublishCache, Zenon
<1>3. CASE AddFinalizer(c)
  <2> DEFINE o == [api[c] EXCEPT !.fin = TRUE]
  <2>1. /\ o \in Resource
        /\ o.exists = api[c].exists /\ o.gen = api[c].gen /\ o.cfg = api[c].cfg
        /\ o.deleting = api[c].deleting
    BY <1>a, Zenon DEF Resource
  <2>2. Publish(c, o, {}) \/ UNCHANGED <<api, view, queue>>
    BY <1>3, Zenon DEF AddFinalizer
  <2> HIDE DEF o
  <2>3. Follows(api[c], o)
    BY <2>1, Zenon DEF Follows
  <2>4. CASE Publish(c, o, {})
    BY <2>1, <2>3, <2>4, PublishCache, Zenon
  <2> QED
    BY <1>1, <2>2, <2>4, Zenon
<1>4. CASE UpdateStatus(c)
  <2> DEFINE w == work[c]
             bad == {e \in api[c].bad : e.kind \notin w.reached} \cup w.failed
             requeued == IF w.err THEN {c} ELSE {}
             ok == ~w.err
             o == [api[c] EXCEPT !.bad = bad, !.ok = ok, !.obs = api[c].gen]
  <2>1. bad \in SUBSET Entities /\ requeued \in SUBSET CRs /\ ok \in BOOLEAN /\ api[c].gen \in Nat
    BY <1>a, Zenon DEF Resource, TypeOK, Reconcile
  <2>2. Publish(c, o, requeued) \/ (UNCHANGED <<api, view>> /\ queue' = queue \cup requeued)
    BY <1>4, Zenon DEF UpdateStatus
  <2> HIDE DEF bad, requeued, ok
  <2>3. /\ o \in Resource
        /\ o.exists = api[c].exists /\ o.gen = api[c].gen /\ o.cfg = api[c].cfg
        /\ o.deleting = api[c].deleting
    BY <1>a, <2>1, Zenon DEF Resource
  <2> HIDE DEF o
  <2>4. Follows(api[c], o)
    BY <2>3, Zenon DEF Follows
  <2>5. CASE Publish(c, o, requeued)
    BY <2>1, <2>3, <2>4, <2>5, PublishCache, Zenon
  <2>6. CASE UNCHANGED <<api, view>> /\ queue' = queue \cup requeued
    BY <1>1, <2>6, Zenon
  <2> QED
    BY <2>2, <2>5, <2>6, Zenon
<1>5. CASE RemoveFinalizer(c)
  <2>1. Publish(c, Gone, {}) \/ UNCHANGED <<api, view, queue>>
    BY <1>5, Zenon DEF RemoveFinalizer
  <2> QED
    BY <1>1, <1>2, <2>1, Zenon
<1>6. CASE \/ ApplyEntity(c) \/ ApplyFails(c) \/ ReleaseEntity(c) \/ LeaveStage(c)
           \/ StageFails(c) \/ UpdateFails(c)
  <2>1. UNCHANGED <<api, view>> /\ (queue' = queue \/ queue' = queue \cup {c})
    BY <1>6, Zenon DEF ApplyEntity, ApplyFails, ReleaseEntity, LeaveStage, StageFails, UpdateFails
  <2> QED
    BY <1>1, <2>1, Zenon
<1> QED
  BY <1>3, <1>4, <1>5, <1>6, ZenonT(90) DEF ReconcileStep

\* Every step but a restart.
LEMMA CacheStep ==
    ASSUME TypeOK, \A c \in CRs : CacheFits(c), Next, ~Crash
    PROVE  \A c \in CRs : /\ CacheFits(c)' /\ Steady(c)
                          /\ c \in queue => c \in queue' \/ Start(c)
<1>a. api \in [CRs -> Resource] /\ view \in [CRs -> Resource]
  BY Zenon DEF TypeOK
<1>1. ASSUME NEW d \in CRs, CacheFits(d)', Steady(d), queue \subseteq queue',
             \A c \in CRs \ {d} : api'[c] = api[c] /\ view'[c] = view[c]
      PROVE  \A c \in CRs : CacheFits(c)' /\ Steady(c) /\ (c \in queue => c \in queue' \/ Start(c))
  <2>1. ASSUME NEW c \in CRs \ {d} PROVE CacheFits(c)' /\ Steady(c)
    <3>1. CacheFits(c) /\ api'[c] = api[c] /\ view'[c] = view[c]
      BY <1>1, Zenon
    <3> QED
      BY <3>1, Zenon DEF CacheFits, Steady, Lagging
  <2> QED
    BY <1>1, <2>1, Zenon
<1>2. CASE \E d \in CRs : ReconcileStep(d)
  BY <1>1, <1>2, ReconcileCache, Zenon
<1>3. ASSUME NEW d \in CRs, Start(d)
      PROVE  \A c \in CRs : CacheFits(c)' /\ Steady(c) /\ (c \in queue => c \in queue' \/ Start(c))
  <2>1. UNCHANGED <<api, view>> /\ queue \ {d} \subseteq queue'
    BY <1>3, Zenon DEF Start
  <2> QED
    BY <1>3, <2>1, Zenon DEF CacheFits, Steady, Lagging
<1>4. ASSUME NEW d \in CRs, Sync(d)
      PROVE  CacheFits(d)' /\ Steady(d) /\ queue \subseteq queue'
             /\ \A c \in CRs \ {d} : api'[c] = api[c] /\ view'[c] = view[c]
  <2>1. api' = api /\ view'[d] = api[d] /\ \A c \in CRs \ {d} : view'[c] = view[c]
    BY <1>4, <1>a, Zenon DEF Sync, Deliver
  <2>2. queue' = queue \cup (IF Triggers(view[d], api[d]) THEN {d} ELSE {})
    BY <1>4, Zenon DEF Sync, Deliver
  <2>3. CacheFits(d)'
    <3>1. api[d].gen =< api[d].gen
      BY <1>a DEF Resource
    <3> QED
      BY <2>1, <3>1, Zenon DEF CacheFits
  <2>4. Steady(d)
    <3>1. d \notin queue' => ~Triggers(view[d], api[d])
      BY <2>2, Zenon
    <3> QED
      BY <2>1, <3>1, Zenon DEF Steady, Triggers, CacheFits
  <2> QED
    BY <2>1, <2>2, <2>3, <2>4, Zenon
<1>5. ASSUME NEW d \in CRs, NEW o \in Resource, Publish(d, o, {}), Follows(api[d], o),
             o.exists /\ ~api[d].exists => ~view[d].exists
      PROVE  CacheFits(d)' /\ Steady(d) /\ queue \subseteq queue'
             /\ \A c \in CRs \ {d} : api'[c] = api[c] /\ view'[c] = view[c]
  BY <1>5, PublishCache, Zenon
<1>6. ASSUME NEW d \in CRs, Create(d)
      PROVE  CacheFits(d)' /\ Steady(d) /\ queue \subseteq queue'
             /\ \A c \in CRs \ {d} : api'[c] = api[c] /\ view'[c] = view[c]
  <2>1. PICK cfg \in Configs : Publish(d, [Gone EXCEPT !.exists = TRUE, !.gen = 1, !.cfg = cfg], {})
    BY <1>6, Zenon DEF Create
  <2> DEFINE o == [Gone EXCEPT !.exists = TRUE, !.gen = 1, !.cfg = cfg]
  <2>2. o \in Resource
    BY StartTypes, Zenon DEF Resource
  <2>3. ~api[d].exists /\ ~view[d].exists
    BY <1>6, Zenon DEF Create
  <2> HIDE DEF o
  <2> QED
    BY <1>5, <2>1, <2>2, <2>3, Zenon DEF o, Follows
<1>7. ASSUME NEW d \in CRs, Edit(d)
      PROVE  CacheFits(d)' /\ Steady(d) /\ queue \subseteq queue'
             /\ \A c \in CRs \ {d} : api'[c] = api[c] /\ view'[c] = view[c]
  <2>1. PICK cfg \in Configs : Publish(d, [api[d] EXCEPT !.gen = @ + 1, !.cfg = cfg], {})
    BY <1>7, Zenon DEF Edit
  <2> DEFINE o == [api[d] EXCEPT !.gen = @ + 1, !.cfg = cfg]
  <2>2. api[d] \in Resource /\ api[d].gen + 1 \in Nat /\ api[d].gen + 1 > api[d].gen
    BY <1>a DEF Resource
  <2>3. o \in Resource /\ o.gen = api[d].gen + 1
    BY <2>2, Zenon DEF Resource
  <2>4. api[d].exists
    BY <1>7, Zenon DEF Edit
  <2> HIDE DEF o
  <2>5. Follows(api[d], o)
    BY <2>2, <2>3, Zenon DEF Follows
  <2> QED
    BY <1>5, <2>1, <2>3, <2>4, <2>5, Zenon DEF o
<1>8. ASSUME NEW d \in CRs, Delete(d)
      PROVE  CacheFits(d)' /\ Steady(d) /\ queue \subseteq queue'
             /\ \A c \in CRs \ {d} : api'[c] = api[c] /\ view'[c] = view[c]
  <2> DEFINE o == IF api[d].fin THEN [api[d] EXCEPT !.deleting = TRUE, !.gen = @ + 1] ELSE Gone
  <2>1. api[d] \in Resource /\ api[d].gen + 1 \in Nat /\ api[d].gen + 1 > api[d].gen
    BY <1>a DEF Resource
  <2>2. Gone \in Resource /\ ~Gone.exists
    BY StartTypes, Zenon DEF Gone
  <2>3. o \in Resource /\ (o.exists => o.gen = api[d].gen + 1)
    BY <2>1, <2>2, Zenon DEF Resource
  <2>4. Publish(d, o, {}) /\ api[d].exists
    BY <1>8, Zenon DEF Delete
  <2> HIDE DEF o
  <2>5. Follows(api[d], o)
    BY <2>1, <2>3, Zenon DEF Follows
  <2> QED
    BY <1>5, <2>3, <2>4, <2>5, Zenon
<1>9. CASE EnsureAuthMethod
  <2>1. UNCHANGED <<api, view, queue>>
    BY <1>9, Zenon DEF EnsureAuthMethod
  <2> QED
    BY <2>1, Zenon DEF CacheFits, Steady, Lagging
<1> QED
  BY <1>1, <1>2, <1>3, <1>4, <1>6, <1>7, <1>8, <1>9, Zenon DEF Next

LEMMA OneAtATimeStep ==
    ASSUME TypeOK, OneAtATime, Next
    PROVE  OneAtATime'
<1>a. work \in [CRs -> Reconcile]
  BY Zenon DEF TypeOK
<1>1. ASSUME NEW c \in CRs, ReconcileStep(c) PROVE OneAtATime'
  <2>1. \A d \in CRs : work'[d].pc # "idle" => work[d].pc # "idle"
    BY <1>1, ReconcileLocal, Zenon
  <2> QED
    BY <2>1, Zenon DEF OneAtATime
<1>2. ASSUME NEW c \in CRs, Start(c) PROVE OneAtATime'
  <2>1. \A d \in CRs \ {c} : work'[d] = work[d]
    BY <1>2, <1>a, Zenon DEF Start
  <2>2. \A d \in CRs \ {c} : work'[d].pc = "idle"
    BY <1>2, <2>1, Zenon DEF Start
  <2> QED
    BY <2>2, Zenon DEF OneAtATime
<1>3. CASE Crash
  <2>1. \A c \in CRs : work'[c] = Idle
    BY <1>3, Zenon DEF Crash
  <2>2. Idle.pc = "idle"
    BY Zenon DEF Idle
  <2> QED
    BY <2>1, <2>2, Zenon DEF OneAtATime
<1>4. CASE UNCHANGED work
  BY <1>4, Zenon DEF OneAtATime
<1> QED
  BY <1>1, <1>2, <1>3, <1>4, Zenon
     DEF Next, Sync, EnsureAuthMethod, Create, Edit, Delete

\* What a reconcile starts with.
LEMMA StartFields ==
    ASSUME TypeOK, NEW c \in CRs, Start(c), work'[c].pc # "idle"
    PROVE  /\ work'[c].inst = view[c] /\ view[c].exists
           /\ \/ work'[c].pc = "addFinalizer" /\ work'[c].done = {} /\ work'[c].todo = {}
              \/ ~view[c].deleting /\ \E w \in Reconcile : /\ w.inst = view[c]
                                                           /\ w.done = {} /\ w.todo = {}
                                                           /\ work'[c] = EnterApply(c, w)
              \/ view[c].deleting /\ \E w \in Reconcile : /\ w.inst = view[c]
                                                          /\ work'[c] = Enter(c, w, "delRules")
<1>a. work \in [CRs -> Reconcile] /\ view[c] \in Resource
  BY Zenon DEF TypeOK
<1> DEFINE w == [Idle EXCEPT !.inst = view[c]]
<1>1. w \in Reconcile /\ w.inst = view[c]
  BY <1>a, StartTypes, Zenon DEF Reconcile
<1>2. w.done = {} /\ w.todo = {}
  BY Zenon DEF Idle
<1>3. work'[c] = Begin(c, view[c])
  BY <1>a, Zenon DEF Start
<1>4. Begin(c, view[c]) # Idle
  BY <1>3 DEF Idle
<1>5. view[c].exists /\ ~(view[c].deleting /\ (~view[c].fin \/ ~view[c].cfg.valid))
  BY <1>4, Zenon DEF Begin
<1>6. \/ work'[c] = [w EXCEPT !.pc = "addFinalizer"]
      \/ ~view[c].deleting /\ work'[c] = EnterApply(c, w)
      \/ view[c].deleting /\ work'[c] = Enter(c, w, "delRules")
  BY <1>3, <1>5, Zenon DEF Begin
<1> HIDE DEF w
<1>7. CASE work'[c] = [w EXCEPT !.pc = "addFinalizer"]
  BY <1>1, <1>2, <1>5, <1>7, Zenon DEF Reconcile
<1>8. CASE ~view[c].deleting /\ work'[c] = EnterApply(c, w)
  <2>1. "policies" \in Pcs
    BY Zenon DEF Pcs, AllStages, ApplyStages
  <2>2. Enter(c, w, "policies").inst = w.inst
    BY <1>1, <2>1, EnterFields
  <2>3. [w EXCEPT !.pc = "status", !.err = TRUE].inst = w.inst
    BY <1>1, Zenon DEF Reconcile
  <2>4. work'[c].inst = view[c]
    BY <1>1, <1>8, <2>2, <2>3, Zenon DEF EnterApply
  <2> QED
    BY <1>1, <1>2, <1>5, <1>8, <2>4, Zenon
<1>9. CASE view[c].deleting /\ work'[c] = Enter(c, w, "delRules")
  <2>1. "delRules" \in Pcs
    BY Zenon DEF Pcs, AllStages, DeleteStages
  <2>2. Enter(c, w, "delRules").inst = w.inst
    BY <1>1, <2>1, EnterFields, Zenon
  <2> QED
    BY <1>1, <1>5, <1>9, <2>2, Zenon
<1> QED
  BY <1>6, <1>7, <1>8, <1>9, Zenon

LEMMA CurrentStep ==
    ASSUME TypeOK, OneAtATime, \A c \in CRs : CacheFits(c) /\ Current(c), Next
    PROVE  \A c \in CRs : Current(c)'
<1> SUFFICES ASSUME NEW c \in CRs, work'[c].pc # "idle", c \notin queue'
             PROVE  view'[c].exists /\ view'[c].cfg = work'[c].inst.cfg
  BY Zenon DEF Current
<1>a. work \in [CRs -> Reconcile]
  BY Zenon DEF TypeOK
<1>1. ~Crash
  <2>1. Crash => work'[c] = Idle
    BY Zenon DEF Crash
  <2> QED
    BY <2>1 DEF Idle
<1>2. Steady(c) /\ (c \notin queue \/ Start(c))
  BY <1>1, CacheStep, Zenon
<1>3. CASE Start(c)
  <2>1. view' = view
    BY <1>3, Zenon DEF Start
  <2> QED
    BY <1>3, <2>1, StartFields, Zenon
<1>4. CASE ~Start(c)
  <2>1. work[c].pc # "idle" /\ work'[c].inst = work[c].inst
    <3>1. CASE \E d \in CRs : ReconcileStep(d)
      BY <3>1, ReconcileLocal, Zenon
    <3>2. ASSUME NEW d \in CRs, Start(d) PROVE work'[c] = work[c]
      BY <1>4, <1>a, <3>2, Zenon DEF Start
    <3> QED
      BY <1>1, <3>1, <3>2, Zenon
     DEF Next, Sync, EnsureAuthMethod, Create, Edit, Delete
  <2>2. view[c].exists /\ view[c].cfg = work[c].inst.cfg
    BY <1>2, <1>4, <2>1, Zenon DEF Current
  <2> QED
    BY <1>2, <2>1, <2>2, Zenon DEF Steady
<1> QED
  BY <1>3, <1>4, Zenon

\* The siblings are listed when the stages that ask for them begin.
LEMMA EnterListed ==
    ASSUME TypeOK, NEW c \in CRs, NEW w \in Reconcile, NEW pc \in {"staleRules", "delRules"},
           w.inst.cfg.explicit
    PROVE  Enter(c, w, pc).kept = SiblingEntities(c)
<1>1. pc \in Pcs
  BY Zenon DEF Pcs, AllStages, ReleaseStages, DeleteStages
<1>2. Enter(c, w, pc).kept = WithSiblings(c, w).kept
  BY <1>1, EnterFields, Zenon
<1>3. WithSiblings(c, w).kept = SiblingEntities(c)
  BY Zenon DEF WithSiblings, Reconcile
<1> QED
  BY <1>2, <1>3, Zenon

\* A stage ends.
LEMMA LeaveFields ==
    ASSUME TypeOK, NEW c \in CRs, LeaveStage(c)
    PROVE  LET w == work[c]
               pc == IF w.err THEN "status" ELSE NextStage(w.pc) IN
           /\ w \in Reconcile /\ pc \in Pcs /\ w.pc \in AllStages /\ w.todo = {}
           /\ work'[c] = Enter(c, w, pc)
           /\ UNCHANGED <<view, queue, consul>>
<1>1. work \in [CRs -> Reconcile]
  BY Zenon DEF TypeOK
<1>2. work[c].pc \in AllStages
  BY Zenon DEF LeaveStage, AllStages
<1> QED
  BY <1>1, <1>2, StageTypes, Zenon DEF LeaveStage

LEMMA ListedStep ==
    ASSUME TypeOK, NEW c \in CRs, ReconcileStep(c), work'[c].pc \in ListedStages
    PROVE  \/ /\ work[c].pc \in ListedStages
              /\ work'[c].kept = work[c].kept /\ work'[c].all = work[c].all
           \/ view' = view /\ (work[c].inst.cfg.explicit => work'[c].kept = SiblingEntities(c))
<1>a. work \in [CRs -> Reconcile] /\ work[c] \in Reconcile
  BY Zenon DEF TypeOK
<1>b. ListedStages = {"staleRules", "staleRoles", "stalePolicies",
                      "delRules", "delLegacy", "delRoles", "delPolicies"}
  BY Zenon DEF ListedStages, StaleStages, ReleaseStages, DeleteStages
<1>c. ~End(c)
  <2>1. End(c) => work'[c] = Idle
    BY <1>a, Zenon DEF End
  <2>2. Idle.pc \notin ListedStages
    BY <1>b, Zenon DEF Idle
  <2> QED
    BY <2>1, <2>2, Zenon
<1>1. ~(UpdateStatus(c) \/ RemoveFinalizer(c) \/ UpdateFails(c))
  BY <1>c, Zenon DEF UpdateStatus, RemoveFinalizer, UpdateFails
<1>2. ~AddFinalizer(c)
  <2>1. EnterApply(c, work[c]).pc \in {"policies", "status"}
    <3>1. "policies" \in Pcs
      BY Zenon DEF Pcs, AllStages, ApplyStages
    <3>2. Enter(c, work[c], "policies").pc = "policies"
      BY <1>a, <3>1, EnterFields
    <3>3. [work[c] EXCEPT !.pc = "status", !.err = TRUE].pc = "status"
      BY <1>a, Zenon DEF Reconcile
    <3> QED
      BY <3>2, <3>3, Zenon DEF EnterApply
  <2>2. AddFinalizer(c) => work'[c] = EnterApply(c, work[c])
    BY <1>a, Zenon DEF AddFinalizer
  <2> QED
    BY <1>b, <2>1, <2>2, Zenon
<1>3. ~StageFails(c)
  <2>1. StageFails(c) => work'[c] = [work[c] EXCEPT !.pc = "status", !.todo = {}, !.err = TRUE]
    BY <1>a, <1>c, Zenon DEF StageFails
  <2> QED
    BY <1>a, <1>b, <2>1, ZenonT(90) DEF Reconcile
<1>4. CASE ApplyEntity(c) \/ ApplyFails(c) \/ ReleaseEntity(c)
  <2>1. PICK e, v : /\ work' = [work EXCEPT ![c] = v]
                    /\ \/ v = [work[c] EXCEPT !.todo = @ \ {e}, !.done = @ \cup {e}]
                       \/ v = [work[c] EXCEPT !.todo = @ \ {e}]
                       \/ \E t : v = [work[c] EXCEPT !.todo = @ \ {e}, !.failed = @ \cup {e},
                                                     !.err = @ \/ t]
    BY <1>4, ZenonT(90) DEF ApplyEntity, ApplyFails, ReleaseEntity, Skip
  <2>2. v.pc = work[c].pc /\ v.kept = work[c].kept /\ v.all = work[c].all
    BY <1>a, <2>1, Zenon DEF Reconcile
  <2>3. work'[c] = v
    BY <1>a, <2>1, Zenon
  <2> QED
    BY <2>2, <2>3, Zenon
<1>5. CASE LeaveStage(c)
  <2> DEFINE pc == IF work[c].err THEN "status" ELSE NextStage(work[c].pc)
  <2>1. pc \in Pcs /\ work[c].pc \in AllStages /\ work'[c] = Enter(c, work[c], pc) /\ view' = view
    BY <1>5, LeaveFields, Zenon
  <2>2. work'[c].pc = pc
    BY <1>a, <2>1, EnterFields
  <2>3. CASE pc = "staleRules"
    BY <1>a, <2>1, <2>3, EnterListed, Zenon
  <2>4. CASE pc # "staleRules"
    <3>1. work[c].pc \in ListedStages /\ pc # "delRules"
      BY <1>b, <2>1, <2>2, <2>4, Stages, Zenon
            DEF AllStages, ApplyStages, ReleaseStages, DeleteStages
    <3>2. pc \notin {"staleRules", "delRules"}
      BY <2>4, <3>1, Zenon
    <3> HIDE DEF pc
    <3>3. Enter(c, work[c], pc).kept = work[c].kept /\ Enter(c, work[c], pc).all = work[c].all
      BY <1>a, <2>1, <3>2, EnterFields
    <3> QED
      BY <2>1, <3>1, <3>3, ZenonT(90)
  <2> QED
    BY <2>3, <2>4, Zenon
<1> QED
  BY <1>1, <1>2, <1>3, <1>4, <1>5, Zenon DEF ReconcileStep

LEMMA SiblingsStep ==
    ASSUME TypeOK, OneAtATime, \A c \in CRs : CacheFits(c) /\ SiblingsListed(c), Next
    PROVE  \A c \in CRs : SiblingsListed(c)'
<1> SUFFICES ASSUME NEW c \in CRs, work'[c].pc \in ListedStages, work'[c].inst.cfg.explicit,
                    NEW d \in CRs \ {c}, Namespace[d] = Namespace[c], d \notin queue',
                    view'[d].exists, ~view'[d].deleting
             PROVE  Declared(d, view'[d].cfg) \subseteq work'[c].kept
  BY ZenonT(90) DEF SiblingsListed
<1>a. work \in [CRs -> Reconcile]
  BY Zenon DEF TypeOK
<1>b. "idle" \notin ListedStages /\ "policies" \notin ListedStages /\ "status" \notin ListedStages
      /\ "addFinalizer" \notin ListedStages
  BY Zenon DEF ListedStages, StaleStages, ReleaseStages, DeleteStages
<1>1. ~Crash
  <2>1. Crash => work'[c] = Idle
    BY Zenon DEF Crash
  <2> QED
    BY <1>b, <2>1 DEF Idle
<1>2. Steady(d) /\ (d \notin queue \/ Start(d))
  BY <1>1, CacheStep, Zenon
<1>3. d \in Siblings(c) => Declared(d, view[d].cfg) \subseteq SiblingEntities(c)
  BY Zenon DEF SiblingEntities
<1>4. view[d].exists /\ ~view[d].deleting /\ view'[d].cfg = view[d].cfg
  BY <1>2, Zenon DEF Steady
<1>5. d \in Siblings(c)
  BY <1>4, Zenon DEF Siblings
<1>6. CASE Start(c)
  <2>1. work'[c].pc # "idle"
    BY <1>b, Zenon
  <2>2. PICK w \in Reconcile : w.inst = view[c] /\ work'[c] = Enter(c, w, "delRules")
    <3>1. ASSUME NEW w \in Reconcile, work'[c] = EnterApply(c, w) PROVE FALSE
      <4>1. "policies" \in Pcs
        BY Zenon DEF Pcs, AllStages, ApplyStages
      <4>2. Enter(c, w, "policies").pc = "policies"
        BY <4>1, EnterFields
      <4>3. [w EXCEPT !.pc = "status", !.err = TRUE].pc = "status"
        BY Zenon DEF Reconcile
      <4> QED
        BY <1>b, <3>1, <4>2, <4>3, ZenonT(90) DEF EnterApply
    <3> QED
      BY <1>6, <1>b, <2>1, <3>1, StartFields, Zenon
  <2>3. work'[c].inst = w.inst
    BY <1>6, <2>1, <2>2, StartFields, Zenon
  <2>4. work'[c].kept = SiblingEntities(c)
    BY <2>2, <2>3, EnterListed, Zenon
  <2> QED
    BY <1>3, <1>4, <1>5, <2>4, Zenon
<1>7. CASE ReconcileStep(c)
  <2>1. work'[c].inst = work[c].inst
    BY <1>7, <1>b, ReconcileLocal, Zenon
  <2>2. CASE work[c].pc \in ListedStages /\ work'[c].kept = work[c].kept
    <3>1. d \notin queue
      BY <1>2, <1>7, ReconcileLocal, Zenon DEF Start
    <3> QED
      BY <1>4, <2>1, <2>2, <3>1, Zenon DEF SiblingsListed
  <2>3. CASE work'[c].kept = SiblingEntities(c)
    BY <1>3, <1>4, <1>5, <2>3, Zenon
  <2> QED
    BY <1>7, <2>1, <2>2, <2>3, ListedStep, Zenon
<1>8. CASE ~Start(c) /\ ~ReconcileStep(c)
  <2>1. work'[c] = work[c]
    <3>1. CASE \E x \in CRs : ReconcileStep(x)
      BY <1>8, <3>1, ReconcileLocal, Zenon
    <3>2. ASSUME NEW x \in CRs, Start(x) PROVE work'[c] = work[c]
      BY <1>8, <1>a, <3>2, Zenon DEF Start
    <3> QED
      BY <1>1, <3>1, <3>2, Zenon
     DEF Next, Sync, EnsureAuthMethod, Create, Edit, Delete
  <2>2. ~Start(d)
    BY <1>b, <2>1, Zenon DEF Start
  <2> QED
    BY <1>2, <1>4, <2>1, <2>2, Zenon DEF SiblingsListed
<1> QED
  BY <1>6, <1>7, <1>8, Zenon

-----------------------------------------------------------------------------
(* The progress of a reconcile.                                            *)

\* What is stale depends on the resource and on its siblings.
LEMMA SameStale ==
    ASSUME NEW c, NEW v, NEW w, v.inst = w.inst, v.kept = w.kept, v.all = w.all
    PROVE  /\ \A e : InUse(v, e) <=> InUse(w, e)
           /\ \A kind : Stale(c, v, kind) = Stale(c, w, kind)
<1>1. \A e : InUse(v, e) <=> InUse(w, e)
  BY Zenon DEF InUse
<1>2. \A kind : Stale(c, v, kind) = Stale(c, w, kind)
  BY <1>1, Zenon DEF Stale
<1> QED
  BY <1>1, <1>2, Zenon

LEMMA EnterTodo ==
    ASSUME TypeOK, NEW c \in CRs, NEW w \in Reconcile,
           NEW pc \in AllStages \cup {"status", "removeFinalizer"}
    PROVE  TodoFits(c, Enter(c, w, pc))
<1> DEFINE u == IF pc \in {"staleRules", "delRules"} THEN WithSiblings(c, w) ELSE w
<1>1. PICK v : v = Enter(c, w, pc)
  BY Zenon
<1>2. pc \in Pcs
  BY Zenon DEF Pcs, AllStages
<1>3. /\ v.pc = pc /\ v.inst = w.inst /\ v.failed = w.failed
      /\ v.todo = Todo(c, u, pc) /\ v.kept = u.kept /\ v.all = u.all
  BY <1>1, <1>2, EnterFields
<1>4. u.inst = w.inst /\ u.failed = w.failed
  BY Zenon DEF WithSiblings, Reconcile
<1> HIDE DEF u
<1> DEFINE D == Declared(c, w.inst.cfg)
<1>5. \A e : InUse(v, e) <=> InUse(u, e)
  BY <1>3, <1>4, SameStale, Zenon
<1>6. \A e \in D : Has(D, e)
  BY Zenon DEF Has
<1> SUFFICES TodoFits(c, v)
  BY <1>1, Zenon
<1>7. CASE pc \in ApplyStages
  <2>1. v.todo \subseteq OfKind(KindOf(pc), D)
    BY <1>3, <1>4, <1>7, KindsOfStages, Zenon DEF Todo, ApplyStages
  <2>2. /\ pc \notin {"legacy", "delLegacy"} /\ pc \notin StaleStages /\ pc \notin DeleteStages
        /\ pc # "status" /\ pc # "addFinalizer" /\ pc # "legacy"
    BY <1>7, Zenon DEF ApplyStages, StaleStages, ReleaseStages, DeleteStages
  <2> QED
    BY <1>3, <2>1, <2>2, Zenon DEF TodoFits
<1>8. CASE pc = "legacy"
  <2>1. v.todo = Legacy(c, u, TRUE)
    BY <1>3, <1>8, Zenon DEF Todo
  <2>2. ASSUME NEW e \in v.todo PROVE e.of = c /\ e \notin D /\ ~Has(v.failed, e)
    <3>1. /\ e.of = c /\ e \in OfKind("rule", Entities) /\ ~Has(v.failed, e)
          /\ \A b \in w.inst.cfg.rules : b.method = e.method => b.name # e.name
      BY <1>3, <1>4, <2>1, Zenon DEF Legacy
    <3>2. e \notin D
      BY <3>1, DeclaredFields DEF OfKind
    <3> QED
      BY <3>1, <3>2, Zenon
  <2>3. /\ pc \notin ApplyStages /\ pc \notin StaleStages /\ pc \notin DeleteStages
        /\ pc # "status" /\ pc # "addFinalizer"
    BY <1>8, Zenon DEF ApplyStages, StaleStages, ReleaseStages, DeleteStages
  <2> QED
    BY <1>3, <2>2, <2>3, Zenon DEF TodoFits
<1>9. CASE pc \in StaleStages
  <2>1. PICK kind : v.todo = Stale(c, u, kind)
    BY <1>3, <1>9, Zenon DEF Todo, StaleStages, ReleaseStages
  <2>2. \A e \in v.todo : ~Has(D, e) /\ (IF w.inst.cfg.explicit THEN ~InUse(v, e) ELSE e.of = c)
    BY <1>4, <1>5, <2>1, Zenon DEF Stale
  <2>3. /\ pc \notin ApplyStages /\ pc \notin {"legacy", "delLegacy"} /\ pc \notin DeleteStages
        /\ pc # "status" /\ pc # "addFinalizer" /\ pc # "legacy"
    BY <1>9, Zenon DEF ApplyStages, StaleStages, ReleaseStages, DeleteStages
  <2> QED
    BY <1>3, <2>2, <2>3, Zenon DEF TodoFits
<1>10. CASE pc = "delLegacy"
  <2>1. v.todo = Legacy(c, u, FALSE)
    BY <1>3, <1>10, Zenon DEF Todo
  <2>2. \A e \in v.todo : e.of = c
    BY <2>1, Zenon DEF Legacy
  <2>3. /\ pc \notin ApplyStages /\ pc \notin StaleStages
        /\ pc # "status" /\ pc # "addFinalizer" /\ pc # "legacy"
    BY <1>10, Zenon DEF ApplyStages, StaleStages, ReleaseStages
  <2> QED
    BY <1>3, <1>10, <2>2, <2>3, Zenon DEF TodoFits
<1>11. CASE pc \in DeleteStages \ {"delLegacy"}
  <2>1. PICK kind : v.todo = ToDelete(c, u, kind)
    BY <1>3, <1>11, Zenon DEF Todo, DeleteStages
  <2>2. \A e \in v.todo : Has(D, e) /\ ~InUse(v, e)
    BY <1>4, <1>5, <2>1, Zenon DEF ToDelete
  <2>3. /\ pc \notin ApplyStages /\ pc \notin {"legacy", "delLegacy"} /\ pc \notin StaleStages
        /\ pc # "status" /\ pc # "addFinalizer" /\ pc # "legacy"
    BY <1>11, Zenon DEF ApplyStages, StaleStages, ReleaseStages, DeleteStages
  <2> QED
    BY <1>3, <2>2, <2>3, Zenon DEF TodoFits
<1>12. CASE pc \in {"status", "removeFinalizer"}
  <2>1. v.todo = {}
    BY <1>3, <1>12, Zenon DEF Todo
  <2>2. pc \notin ApplyStages /\ pc # "addFinalizer"
    BY <1>12, Zenon DEF ApplyStages
  <2> QED
    BY <1>3, <2>1, <2>2, Zenon DEF TodoFits
<1> QED
  BY <1>7, <1>8, <1>9, <1>10, <1>11, <1>12, Zenon DEF AllStages, StaleStages

LEMMA IdleFits ==
    ASSUME NEW c, work'[c].pc = "idle"
    PROVE  Progress(c)' /\ LinksFit(c, work[c])'
<1>1. "idle" \notin AllStages
  BY Zenon DEF AllStages, ApplyStages, ReleaseStages, DeleteStages
<1>2. TodoFits(c, work[c])'
  BY <1>1, Zenon DEF AllStages, StaleStages, TodoFits
<1>3. ~Applying(work'[c])
  BY <1>1, Zenon DEF AllStages, Applying
<1> QED
  BY <1>2, <1>3, Zenon DEF ApplyFits, StaleFits, LinksFit, Progress

\* Nothing is applied yet.
LEMMA EnterApplyFits ==
    ASSUME TypeOK, NEW c \in CRs, NEW w \in Reconcile, w.done = {}, w.todo = {}
    PROVE  LET v == EnterApply(c, w) IN
           TodoFits(c, v) /\ ApplyFits(c, v) /\ StaleFits(c, v) /\ LinksFit(c, v)
<1>1. CASE w.inst.cfg.valid
  <2>1. PICK v : v = Enter(c, w, "policies")
    BY Zenon
  <2>2. "policies" \in Pcs /\ "policies" \in AllStages /\ "policies" \in ApplyStages
    BY Zenon DEF Pcs, AllStages, ApplyStages
  <2>3. TodoFits(c, v)
    BY <2>1, <2>2, EnterTodo, ZenonT(90)
  <2>4. v.pc = "policies" /\ v.inst = w.inst /\ v.done = {} /\ v.todo = Todo(c, w, "policies")
    BY <2>1, <2>2, EnterFields
  <2>5. v.todo = OfKind("policy", Declared(c, v.inst.cfg))
    BY <2>4, Zenon DEF Todo
  <2>6. ApplyFits(c, v)
    <3>1. ReachedKinds("policies") = {"policy"}
      BY Zenon DEF ReachedKinds
    <3>2. \A e \in Declared(c, v.inst.cfg) : e.kind \in ReachedKinds(v.pc) => e \in v.todo
      BY <2>4, <2>5, <3>1, Zenon DEF OfKind
    <3> QED
      BY <2>2, <2>4, <3>2, Zenon DEF ApplyFits
  <2>7. StaleFits(c, v)
    <3>1. ListedKinds("policies") = {}
      BY Zenon DEF ListedKinds
    <3> QED
      BY <2>4, <3>1, Zenon DEF StaleFits
  <2>8. LinksFit(c, v)
    BY <2>4, Zenon DEF LinksFit, OfKind
  <2> QED
    BY <1>1, <2>1, <2>3, <2>6, <2>7, <2>8, Zenon DEF EnterApply
<1>2. CASE ~w.inst.cfg.valid
  <2>1. PICK v : v = [w EXCEPT !.pc = "status", !.err = TRUE]
    BY Zenon
  <2>2. v.pc = "status" /\ v.err /\ v.done = {} /\ v.todo = {}
    BY <2>1, Zenon DEF Reconcile
  <2>3. "status" \notin AllStages
    BY Zenon DEF AllStages, ApplyStages, ReleaseStages, DeleteStages
  <2>4. TodoFits(c, v) /\ ApplyFits(c, v) /\ StaleFits(c, v)
    BY <2>2, <2>3, Zenon DEF AllStages, StaleStages, TodoFits, ApplyFits, StaleFits, Applying
  <2>5. LinksFit(c, v)
    BY <2>2, <2>3, Zenon DEF AllStages, LinksFit, Applying
  <2> QED
    BY <1>2, <2>1, <2>4, <2>5, Zenon DEF EnterApply
<1> QED
  BY <1>1, <1>2, Zenon

\* The next stage begins with what the stages before it have left.
LEMMA LeaveFits ==
    ASSUME TypeOK, NEW c \in CRs, Progress(c), LeaveStage(c)
    PROVE  Progress(c)'
<1> DEFINE w == work[c]
           D == Declared(c, w.inst.cfg)
<1>1. PICK pc : pc = IF w.err THEN "status" ELSE NextStage(w.pc)
  BY Zenon
<1>2. PICK v : v = Enter(c, w, pc)
  BY Zenon
<1>3. /\ w \in Reconcile /\ pc \in Pcs /\ w.pc \in AllStages /\ w.todo = {}
      /\ work'[c] = v /\ consul' = consul
  BY <1>1, <1>2, LeaveFields, ZenonT(90)
<1>4. pc \in AllStages \cup {"status", "removeFinalizer"}
  BY <1>1, <1>3, Stages, Zenon DEF AllStages, ApplyStages, ReleaseStages, DeleteStages
<1>5. TodoFits(c, v)
  BY <1>2, <1>3, <1>4, EnterTodo, ZenonT(90)
<1>6. /\ v.pc = pc /\ v.inst = w.inst /\ v.err = w.err /\ v.done = w.done /\ v.failed = w.failed
      /\ v.todo = Todo(c, IF pc \in {"staleRules", "delRules"} THEN WithSiblings(c, w) ELSE w, pc)
      /\ pc \notin {"staleRules", "delRules"} => v.kept = w.kept /\ v.all = w.all
      /\ pc \in {"staleRules", "delRules"} =>
           v.kept = WithSiblings(c, w).kept /\ v.all = WithSiblings(c, w).all
  BY <1>2, <1>3, EnterFields
<1>7. \/ w.pc \in ApplyStages \cup ReleaseStages /\ ~w.err
      \/ pc = "status" /\ w.err
      \/ pc \in DeleteStages \cup {"removeFinalizer"} /\ w.pc \in DeleteStages
  BY <1>1, <1>3, Stages, Zenon DEF AllStages, ApplyStages, ReleaseStages, DeleteStages
<1>8. CASE ~Applying(v)
  <2>1. ApplyFits(c, v)' /\ StaleFits(c, v)'
    BY <1>8, Zenon DEF ApplyFits, StaleFits, Applying
  <2> QED
    BY <1>3, <1>5, <2>1, Zenon DEF Progress
<1>9. CASE Applying(v)
  <2>1. w.pc \in ApplyStages \cup ReleaseStages /\ ~w.err
    BY <1>6, <1>7, <1>9, Zenon DEF Applying, ApplyStages, ReleaseStages, DeleteStages
  <2>2. /\ \A e \in w.done : e \in D /\ consul[e].present /\ Namespace[c] \in consul[e].owners
        /\ \A e \in D : e.kind \in ReachedKinds(w.pc) => e \in w.done \cup w.failed
    BY <1>3, <2>1, ZenonT(90) DEF Applying, ApplyFits, Progress
  <2>3. pc # "policies"
    BY <1>1, <1>3, <2>1, Stages, Zenon DEF AllStages, ApplyStages, ReleaseStages, DeleteStages
  <2>4. ASSUME NEW e \in D, e.kind \in ReachedKinds(pc)
        PROVE  e \in w.done \cup w.failed \/ (pc \in ApplyStages /\ e \in v.todo)
    <3>1. CASE pc = "roles"
      <4>1. w.pc = "policies" /\ v.todo = OfKind("role", D)
        BY <1>1, <1>6, <2>1, <3>1, Stages, ZenonT(90) DEF ApplyStages, ReleaseStages, Todo
      <4>2. e.kind = "policy" \/ e.kind = "role"
        BY <2>4, <3>1, Zenon DEF ReachedKinds
      <4>3. e.kind = "policy" => e \in w.done \cup w.failed
        BY <2>2, <4>1, Zenon DEF ReachedKinds
      <4>4. e.kind = "role" => e \in v.todo
        BY <4>1, Zenon DEF OfKind
      <4> QED
        BY <3>1, <4>2, <4>3, <4>4, Zenon DEF ApplyStages
    <3>2. CASE pc = "rules"
      <4>1. w.pc = "roles" /\ v.todo = OfKind("rule", D)
        BY <1>1, <1>6, <2>1, <3>2, Stages, ZenonT(90) DEF ApplyStages, ReleaseStages, Todo
      <4>2. e.kind \in {"policy", "role"} \/ e.kind = "rule"
        BY <2>4, <3>2, Zenon DEF ReachedKinds
      <4>3. e.kind \in {"policy", "role"} => e \in w.done \cup w.failed
        BY <2>2, <4>1, Zenon DEF ReachedKinds
      <4>4. e.kind = "rule" => e \in v.todo
        BY <4>1, Zenon DEF OfKind
      <4> QED
        BY <3>2, <4>2, <4>3, <4>4, Zenon DEF ApplyStages
    <3>3. CASE pc \notin {"roles", "rules"}
      <4>1. w.pc \notin {"policies", "roles"}
        BY <1>1, <2>1, <3>3, Stages, Zenon
      <4>2. ReachedKinds(w.pc) = ReachedKinds(pc)
        BY <2>3, <3>3, <4>1, Zenon DEF ReachedKinds
      <4> QED
        BY <2>2, <2>4, <4>2, Zenon
    <3> QED
      BY <3>1, <3>2, <3>3, Zenon
  <2>5. ApplyFits(c, v)'
    BY <1>3, <1>6, <2>2, <2>3, <2>4, Zenon DEF ApplyFits
  <2>6. ASSUME NEW kind \in ListedKinds(pc) PROVE Stale(c, v, kind) \subseteq v.todo
    <3>1. CASE pc = "staleRules"
      <4>1. PICK u : u = WithSiblings(c, w)
        BY Zenon
      <4>2. u.inst = v.inst /\ u.kept = v.kept /\ u.all = v.all
        <5>1. u.inst = w.inst
          BY <1>3, <4>1, Zenon DEF WithSiblings, Reconcile
        <5> QED
          BY <1>6, <3>1, <4>1, <5>1, Zenon
      <4>3. v.todo = Stale(c, u, "rule")
        BY <1>6, <3>1, <4>1, Zenon DEF Todo
      <4>4. kind = "rule"
        BY <2>6, <3>1, Zenon DEF ListedKinds
      <4> QED
        BY <4>2, <4>3, <4>4, SameStale
    <3>2. CASE pc \in {"staleRoles", "stalePolicies", "status"}
      <4>1. v.kept = w.kept /\ v.all = w.all
        BY <1>6, <3>2, Zenon
      <4>2. Stale(c, v, kind) = Stale(c, w, kind)
        BY <1>6, <4>1, SameStale
      <4>3. CASE kind \in ListedKinds(w.pc)
        BY <1>3, <2>1, <4>2, <4>3, Zenon DEF Applying, StaleFits, Progress
      <4>4. CASE kind \notin ListedKinds(w.pc)
        <5>1. w.pc \in {"staleRules", "staleRoles", "stalePolicies"}
          BY <1>1, <2>1, <3>2, Stages, Zenon DEF ApplyStages, ReleaseStages
        <5>2. \/ pc = "staleRoles" /\ kind = "role"
              \/ pc = "stalePolicies" /\ kind = "policy"
          BY <1>1, <2>1, <2>6, <3>2, <4>4, <5>1, Stages, Zenon DEF ListedKinds
        <5>3. v.todo = Stale(c, w, kind)
          BY <1>6, <5>2, Zenon DEF Todo
        <5> QED
          BY <4>2, <5>3, Zenon
      <4> QED
        BY <4>3, <4>4, Zenon
    <3>3. CASE pc \notin {"staleRules", "staleRoles", "stalePolicies", "status"}
      BY <2>6, <3>3, Zenon DEF ListedKinds
    <3> QED
      BY <3>1, <3>2, <3>3, Zenon
  <2>7. StaleFits(c, v)'
    BY <1>3, <1>6, <2>6, Zenon DEF StaleFits, Stale
  <2> QED
    BY <1>3, <1>5, <2>5, <2>7, ZenonT(90) DEF Progress
<1> QED
  BY <1>8, <1>9, Zenon

\* One entity less to handle in the stage.
LEMMA TodoStill ==
    ASSUME NEW c, NEW v, NEW w, TodoFits(c, w), v.pc = w.pc, w.pc \in AllStages, v.inst = w.inst,
           v.kept = w.kept, v.all = w.all, v.todo \subseteq w.todo,
           w.pc \in ApplyStages \/ v.failed = w.failed
    PROVE  TodoFits(c, v)
<1>1. \A e : InUse(v, e) <=> InUse(w, e)
  BY SameStale, Zenon
<1>2. w.pc # "addFinalizer" /\ w.pc # "status" /\ (w.pc = "legacy" => w.pc \notin ApplyStages)
  BY Zenon DEF AllStages, ApplyStages, ReleaseStages, DeleteStages
<1>3. \A e \in v.todo : e \in w.todo
  BY Zenon
<1>4. w.pc \in ApplyStages => v.todo \subseteq OfKind(KindOf(w.pc), Declared(c, w.inst.cfg))
  BY Zenon DEF TodoFits
<1> QED
  BY <1>1, <1>2, <1>3, <1>4, Zenon DEF TodoFits

\* An entity is applied, or recorded as failed.
LEMMA ApplyProgress ==
    ASSUME TypeOK, NEW c \in CRs, Progress(c), work[c].pc \in ApplyStages, NEW e \in work[c].todo,
           work'[c].pc = work[c].pc, work'[c].inst = work[c].inst, work'[c].kept = work[c].kept,
           work'[c].all = work[c].all, work'[c].todo = work[c].todo \ {e},
           \/ consul' = consul /\ work'[c].done = work[c].done
           \/ \E lost : consul' = [consul EXCEPT ![e] = Applied(c, work[c], e, lost)],
           \/ work'[c].done = work[c].done \cup {e} /\ work'[c].failed = work[c].failed
           \/ work'[c].done = work[c].done /\ work'[c].failed = work[c].failed \cup {e}
    PROVE  Progress(c)'
<1> DEFINE w == work[c]
           v == work'[c]
           D == Declared(c, w.inst.cfg)
<1>a. w \in Reconcile /\ e \in Entities
  BY Zenon DEF TypeOK, Reconcile
<1>1. TodoFits(c, v)
  BY TodoStill, Zenon DEF Progress, AllStages
<1>2. Applying(w) /\ Applying(v)
  BY Zenon DEF Applying
<1>3. /\ \A x \in w.done : x \in D /\ consul[x].present /\ Namespace[c] \in consul[x].owners
      /\ w.pc = "policies" => \A x \in w.done : x.kind = "policy"
      /\ \A x \in D : x.kind \in ReachedKinds(w.pc) => x \in w.done \cup w.failed \/ x \in w.todo
  BY <1>2, ZenonT(90) DEF Progress, ApplyFits
<1>4. e \in D /\ (w.pc = "policies" => e.kind = "policy")
  <2>1. e \in OfKind(KindOf(w.pc), D)
    BY ZenonT(90) DEF Progress, TodoFits
  <2> QED
    BY <2>1, KindsOfStages, Zenon DEF OfKind
<1>5. Namespace[c] \in Owners(c, e)
  BY Zenon DEF Owners
<1>b. \/ consul' = consul /\ v.done = w.done
      \/ /\ \A x \in Entities \ {e} : consul'[x] = consul[x]
         /\ consul'[e].present /\ Namespace[c] \in consul'[e].owners
  <2>1. ASSUME NEW lost, consul' = [consul EXCEPT ![e] = Applied(c, work[c], e, lost)]
        PROVE  /\ \A x \in Entities \ {e} : consul'[x] = consul[x]
               /\ consul'[e].present /\ Namespace[c] \in consul'[e].owners
    <3>1. /\ \A x \in Entities \ {e} : consul'[x] = consul[x]
          /\ consul'[e].present /\ consul'[e].owners = Owners(c, e)
      BY <1>a, <2>1, ApplyEffect, ZenonT(90)
    <3> QED
      BY <1>5, <3>1, ZenonT(90)
  <2> QED
    BY <2>1, Zenon
<1>6. ASSUME NEW x \in w.done PROVE consul'[x].present /\ Namespace[c] \in consul'[x].owners
  <2>1. x \in Entities
    BY <1>a, Zenon DEF Reconcile
  <2> QED
    BY <1>3, <1>b, <2>1, Zenon
<1>7. \/ v.done = w.done
      \/ v.done = w.done \cup {e} /\ consul'[e].present /\ Namespace[c] \in consul'[e].owners
  BY <1>b, Zenon
<1>8. \A x \in v.done : x \in D /\ consul'[x].present /\ Namespace[c] \in consul'[x].owners
  BY <1>3, <1>4, <1>6, <1>7, Zenon
<1>9. w.pc = "policies" => \A x \in v.done : x.kind = "policy"
  BY <1>3, <1>4, <1>7, Zenon
<1>10. \A x \in D : x.kind \in ReachedKinds(w.pc) => x \in v.done \cup v.failed \/ x \in v.todo
  BY <1>3, Zenon
<1>11. ApplyFits(c, work[c])'
  BY <1>8, <1>9, <1>10, Zenon DEF ApplyFits
<1>12. StaleFits(c, work[c])'
  <2>1. ListedKinds(w.pc) = {}
    BY Zenon DEF ListedKinds, ApplyStages
  <2> QED
    BY <2>1, Zenon DEF StaleFits
<1> QED
  BY <1>1, <1>11, <1>12, ZenonT(90) DEF Progress

\* Prefixed entities that are stale are deleted outright.
LEMMA OutrightRelease ==
    ASSUME NEW c, NEW e \in Entities, consul' = AfterRelease(c, work[c], e),
           work[c].pc \in ReleaseStages, ~work[c].inst.cfg.explicit
    PROVE  ~consul'[e].present
<1>1. consul' = Deleted({e})
  BY Zenon DEF AfterRelease
<1>2. consul'[e] = Absent
  BY <1>1, Zenon DEF Deleted
<1> QED
  BY <1>2 DEF Absent

\* What a stage releases is not declared, so it has not been applied.
LEMMA ReleasedNotDone ==
    ASSUME NEW c \in CRs, NEW w, TodoFits(c, w), w.pc \in ReleaseStages, NEW e \in w.todo
    PROVE  e \notin Declared(c, w.inst.cfg)
<1>1. CASE w.pc = "legacy"
  BY <1>1, Zenon DEF TodoFits
<1>2. CASE w.pc # "legacy"
  <2>1. ~Has(Declared(c, w.inst.cfg), e)
    BY <1>2, Zenon DEF TodoFits, StaleStages
  <2> QED
    BY <2>1, Zenon DEF Has
<1> QED
  BY <1>1, <1>2, Zenon

LEMMA ReleaseProgress ==
    ASSUME TypeOK, NEW c \in CRs, Progress(c), work[c].pc \in ReleaseStages, NEW e \in work[c].todo,
           work'[c] = [work[c] EXCEPT !.todo = @ \ {e}], consul' = AfterRelease(c, work[c], e)
    PROVE  Progress(c)'
<1> DEFINE w == work[c]
           v == work'[c]
           D == Declared(c, w.inst.cfg)
<1>a. w \in Reconcile /\ e \in Entities
  BY Zenon DEF TypeOK, Reconcile
<1>b. /\ v.pc = w.pc /\ v.inst = w.inst /\ v.kept = w.kept /\ v.all = w.all /\ v.err = w.err
      /\ v.done = w.done /\ v.failed = w.failed /\ v.todo = w.todo \ {e}
  BY <1>a, Zenon DEF Reconcile
<1>c. Applying(w) /\ w.pc \notin ApplyStages /\ w.pc # "policies"
  BY Zenon DEF Applying, ApplyStages, ReleaseStages
<1>1. TodoFits(c, v)
  BY <1>b, TodoStill, Zenon DEF Progress, AllStages
<1>2. e \notin D
  BY ReleasedNotDone, Zenon DEF Progress
<1>3. \A x \in Entities \ {e} : /\ consul'[x].present = consul[x].present
                                /\ consul'[x].owners = consul[x].owners
  BY <1>a, ReleaseEffect
<1>4. ApplyFits(c, work[c])'
  <2>1. /\ \A x \in w.done : x \in D /\ consul[x].present /\ Namespace[c] \in consul[x].owners
        /\ \A x \in D : x.kind \in ReachedKinds(w.pc) => x \in w.done \cup w.failed
    BY <1>c, Zenon DEF Progress, ApplyFits
  <2>2. ASSUME NEW x \in w.done
        PROVE  x \in D /\ consul'[x].present /\ Namespace[c] \in consul'[x].owners
    <3>1. x \in D /\ consul[x].present /\ Namespace[c] \in consul[x].owners
      BY <2>1, Zenon
    <3>2. x \in Entities \ {e}
      BY <1>2, <1>a, <3>1, Zenon DEF Reconcile
    <3> QED
      BY <1>3, <3>1, <3>2, Zenon
  <2> QED
    BY <1>b, <1>c, <2>1, <2>2, Zenon DEF ApplyFits
<1>5. StaleFits(c, work[c])'
  <2> SUFFICES ASSUME NEW kind \in ListedKinds(w.pc), NEW x \in OfKind(kind, Entities),
                      consul'[x].present,
                      kind = "rule" => x.method \in RuleMethods(w.inst.cfg),
                      ~Has(D, x),
                      IF w.inst.cfg.explicit
                      THEN Namespace[c] \in consul'[x].owners /\ ~InUse(w, x)
                      ELSE x.of = c
               PROVE  x \in w.todo \ {e}
    <3>1. \A y : InUse(v, y) <=> InUse(w, y)
      BY <1>b, Zenon DEF InUse
    <3> QED
      BY <1>b, <3>1, Zenon DEF StaleFits, Stale
  <2>1. x \in Entities
    BY Zenon DEF OfKind
  <2>2. CASE x # e
    <3>1. consul'[x].present = consul[x].present /\ consul'[x].owners = consul[x].owners
      BY <1>3, <2>1, <2>2, Zenon
    <3>2. x \in Stale(c, w, kind)
      BY <3>1, Zenon DEF Stale
    <3>3. Stale(c, w, kind) \subseteq w.todo
      BY <1>c, Zenon DEF Progress, StaleFits
    <3> QED
      BY <2>2, <3>2, <3>3, Zenon
  <2>3. CASE x = e
    <3>1. CASE w.inst.cfg.explicit
      <4>1. Namespace[c] \notin consul'[e].owners
        BY <1>a, ReleaseEffect
      <4> QED
        BY <2>3, <3>1, <4>1, Zenon
    <3>2. CASE ~w.inst.cfg.explicit
      BY <1>a, <2>3, <3>2, OutrightRelease, Zenon
    <3> QED
      BY <3>1, <3>2, Zenon
  <2> QED
    BY <2>2, <2>3, Zenon
<1> QED
  BY <1>1, <1>4, <1>5, Zenon DEF Progress

LEMMA ReconcileProgress ==
    ASSUME TypeOK, NEW c \in CRs, Progress(c), ReconcileStep(c)
    PROVE  Progress(c)'
<1> DEFINE w == work[c]
<1>a. work \in [CRs -> Reconcile] /\ w \in Reconcile
  BY Zenon DEF TypeOK
<1>b. End(c) => Progress(c)'
  <2>1. End(c) => work'[c] = Idle
    BY <1>a, Zenon DEF End
  <2>2. Idle.pc = "idle"
    BY Zenon DEF Idle
  <2> QED
    BY <2>1, <2>2, IdleFits, Zenon
<1>1. CASE UpdateStatus(c) \/ RemoveFinalizer(c) \/ UpdateFails(c)
  BY <1>1, <1>b, Zenon DEF UpdateStatus, RemoveFinalizer, UpdateFails
<1>2. CASE AddFinalizer(c)
  <2>1. w.done = {} /\ w.todo = {}
    BY <1>2, Zenon DEF AddFinalizer, Progress, TodoFits
  <2>2. PICK v : v = EnterApply(c, w)
    BY Zenon
  <2>3. work'[c] = v /\ consul' = consul
    BY <1>2, <1>a, <2>2, ZenonT(90) DEF AddFinalizer
  <2>4. TodoFits(c, v) /\ ApplyFits(c, v) /\ StaleFits(c, v)
    BY <1>a, <2>1, <2>2, EnterApplyFits, Zenon
  <2>5. ApplyFits(c, v)' /\ StaleFits(c, v)'
    BY <2>3, <2>4, Zenon DEF ApplyFits, StaleFits, Stale
  <2> QED
    BY <2>3, <2>4, <2>5, Zenon DEF Progress
<1>3. CASE ApplyEntity(c)
  <2>1. PICK e \in w.todo :
           /\ \E lost : consul' = [consul EXCEPT ![e] = Applied(c, w, e, lost)]
           /\ work' = [work EXCEPT ![c] = [w EXCEPT !.todo = @ \ {e}, !.done = @ \cup {e}]]
    BY <1>3, Zenon DEF ApplyEntity
  <2>2. work'[c] = [w EXCEPT !.todo = @ \ {e}, !.done = @ \cup {e}]
    BY <1>a, <2>1, Zenon
  <2>3. /\ work'[c].pc = w.pc /\ work'[c].inst = w.inst /\ work'[c].kept = w.kept
        /\ work'[c].all = w.all /\ work'[c].todo = w.todo \ {e}
        /\ work'[c].done = w.done \cup {e} /\ work'[c].failed = w.failed
    BY <1>a, <2>2, Zenon DEF Reconcile
  <2>4. w.pc \in ApplyStages
    BY <1>3, Zenon DEF ApplyEntity
  <2> QED
    BY <2>1, <2>3, <2>4, ApplyProgress, Zenon
<1>4. CASE ApplyFails(c)
  <2>1. PICK e \in w.todo :
           /\ \E t \in BOOLEAN : Skip(c, e, t)
           /\ consul' = consul \/ consul' = [consul EXCEPT ![e] = Applied(c, w, e, {})]
    BY <1>4, Zenon DEF ApplyFails
  <2>2. PICK t \in BOOLEAN :
           work'[c] = [w EXCEPT !.todo = @ \ {e}, !.failed = @ \cup {e}, !.err = @ \/ t]
    BY <1>a, <2>1, Zenon DEF Skip
  <2>3. /\ work'[c].pc = w.pc /\ work'[c].inst = w.inst /\ work'[c].kept = w.kept
        /\ work'[c].all = w.all /\ work'[c].todo = w.todo \ {e}
        /\ work'[c].done = w.done /\ work'[c].failed = w.failed \cup {e}
    BY <1>a, <2>2, Zenon DEF Reconcile
  <2>4. w.pc \in ApplyStages
    BY <1>4, Zenon DEF ApplyFails
  <2>5. \/ consul' = consul /\ work'[c].done = w.done
        \/ \E lost : consul' = [consul EXCEPT ![e] = Applied(c, work[c], e, lost)]
    BY <2>1, <2>3, Zenon
  <2> QED
    BY <2>3, <2>4, <2>5, ApplyProgress, Zenon
<1>5. CASE ReleaseEntity(c)
  <2>1. PICK e \in w.todo : /\ consul' = AfterRelease(c, w, e)
                            /\ work'[c] = [w EXCEPT !.todo = @ \ {e}]
    BY <1>5, <1>a, Zenon DEF ReleaseEntity
  <2>2. CASE w.pc \in ReleaseStages
    BY <2>1, <2>2, ReleaseProgress, Zenon
  <2>3. CASE w.pc \in DeleteStages
    <3>1. /\ work'[c].pc = w.pc /\ work'[c].inst = w.inst /\ work'[c].kept = w.kept
          /\ work'[c].all = w.all /\ work'[c].todo = w.todo \ {e}
          /\ work'[c].failed = w.failed
      BY <1>a, <2>1, Zenon DEF Reconcile
    <3>2. TodoFits(c, work'[c])
      <4>1. TodoFits(c, w) /\ w.pc \in AllStages
        BY <2>3, Zenon DEF Progress, AllStages
      <4> QED
        BY <3>1, <4>1, TodoStill, Zenon
    <3>3. ~Applying(work'[c])
      BY <2>3, <3>1, Zenon DEF Applying, ApplyStages, ReleaseStages, DeleteStages
    <3> QED
      BY <3>2, <3>3, Zenon DEF Progress, ApplyFits, StaleFits
  <2> QED
    BY <1>5, <2>2, <2>3, Zenon DEF ReleaseEntity
<1>6. CASE LeaveStage(c)
  BY <1>6, LeaveFits, Zenon
<1>7. CASE StageFails(c)
  <2> SUFFICES ASSUME work'[c] = [w EXCEPT !.pc = "status", !.todo = {}, !.err = TRUE]
               PROVE  Progress(c)'
    BY <1>7, <1>a, <1>b, Zenon DEF StageFails
  <2>1. work'[c].pc = "status" /\ work'[c].todo = {} /\ work'[c].err
    BY <1>a, Zenon DEF Reconcile
  <2>2. "status" \notin AllStages
    BY Zenon DEF AllStages, ApplyStages, ReleaseStages, DeleteStages
  <2>3. ~Applying(work'[c])
    BY <2>1, <2>2, Zenon DEF Applying, AllStages
  <2>4. TodoFits(c, work'[c])
    BY <2>1, <2>2, Zenon DEF TodoFits, AllStages, StaleStages
  <2> QED
    BY <2>3, <2>4, Zenon DEF Progress, ApplyFits, StaleFits
<1> QED
  BY <1>1, <1>2, <1>3, <1>4, <1>5, <1>6, <1>7, ZenonT(90) DEF ReconcileStep

-----------------------------------------------------------------------------
(* Only a reconcile writes to Consul.                                      *)

LEMMA ConsulStep ==
    ASSUME NEW c \in CRs, ReconcileStep(c), consul' # consul
    PROVE  \E e \in work[c].todo :
             \/ /\ work[c].pc \in ApplyStages
                /\ \E lost : /\ lost = {} \/ "lookup" \in Faults
                             /\ consul' = [consul EXCEPT ![e] = Applied(c, work[c], e, lost)]
             \/ /\ work[c].pc \in ReleaseStages \cup DeleteStages
                /\ consul' = AfterRelease(c, work[c], e)
<1>1. CASE ApplyEntity(c)
  BY <1>1, Zenon DEF ApplyEntity, Fault
<1>2. CASE ApplyFails(c)
  BY <1>2, Zenon DEF ApplyFails
<1>3. CASE ReleaseEntity(c)
  BY <1>3, Zenon DEF ReleaseEntity
<1>4. CASE StageFails(c)
  <2>1. /\ work[c].pc \in {"rules"} \cup ReleaseStages \cup DeleteStages /\ work[c].pc # "rules"
        /\ \E e \in work[c].todo : consul' = AfterRelease(c, work[c], e)
    BY <1>4, Zenon DEF StageFails
  <2> QED
    BY <2>1, Zenon
<1>5. CASE \/ AddFinalizer(c) \/ LeaveStage(c) \/ UpdateStatus(c) \/ RemoveFinalizer(c)
           \/ UpdateFails(c)
  BY <1>5, Zenon DEF AddFinalizer, LeaveStage, UpdateStatus, RemoveFinalizer, UpdateFails
<1> QED
  BY <1>1, <1>2, <1>3, <1>4, <1>5, Zenon DEF ReconcileStep

LEMMA OtherConsul ==
    ASSUME Next, ~\E c \in CRs : ReconcileStep(c)
    PROVE  consul' = consul
BY Zenon DEF Next, Start, Sync, EnsureAuthMethod, Crash, Create, Edit, Delete

\* An entity that is applied has an explicit name or the prefix of the resource.
LEMMA AppliedName ==
    ASSUME TypeOK, NEW c \in CRs, Progress(c), work[c].pc \in ApplyStages, NEW e \in work[c].todo
    PROVE  e \in Declared(c, work[c].inst.cfg) /\ e.of \in {NoCR, c} /\ e \in Entities
<1>1. e \in Declared(c, work[c].inst.cfg)
  BY ZenonT(90) DEF Progress, TodoFits, OfKind
<1>2. e.of \in {NoCR, c}
  BY <1>1, DeclaredFields
<1> QED
  BY <1>1, <1>2, Zenon DEF TypeOK, Reconcile

\* An entity that is deleted outright has the prefix of the resource.
LEMMA OutrightName ==
    ASSUME NEW c \in CRs, Progress(c), NEW e \in work[c].todo,
           \/ work[c].pc \in {"legacy", "delLegacy"}
           \/ work[c].pc \in ReleaseStages /\ ~work[c].inst.cfg.explicit
    PROVE  e.of = c
<1>1. CASE work[c].pc \in {"legacy", "delLegacy"}
  BY <1>1, Zenon DEF Progress, TodoFits
<1>2. CASE work[c].pc \notin {"legacy", "delLegacy"}
  <2>1. work[c].pc \in StaleStages
    BY <1>2, Zenon DEF StaleStages
  <2> QED
    BY <1>2, <2>1, Zenon DEF Progress, TodoFits
<1> QED
  BY <1>1, <1>2, Zenon

LEMMA OwnersStep ==
    ASSUME TypeOK, OwnersFit, \A c \in CRs : Progress(c), Next
    PROVE  OwnersFit'
<1>a. consul' = consul => OwnersFit'
  BY Zenon DEF OwnersFit
<1>1. ASSUME NEW c \in CRs, ReconcileStep(c), consul' # consul PROVE OwnersFit'
  <2>1. PICK e \in work[c].todo :
             \/ /\ work[c].pc \in ApplyStages
                /\ \E lost : consul' = [consul EXCEPT ![e] = Applied(c, work[c], e, lost)]
             \/ consul' = AfterRelease(c, work[c], e)
    BY <1>1, ConsulStep, Zenon
  <2>2. e \in Entities
    BY Zenon DEF TypeOK, Reconcile
  <2> SUFFICES ASSUME NEW x \in Entities
               PROVE  /\ consul'[x].owners # {} => consul'[x].present
                      /\ \A d \in CRs : x.of = d => consul'[x].owners \subseteq {Namespace[d]}
    BY Zenon DEF OwnersFit
  <2>3. /\ consul[x].owners # {} => consul[x].present
        /\ \A d \in CRs : x.of = d => consul[x].owners \subseteq {Namespace[d]}
    BY Zenon DEF OwnersFit
  <2>4. ASSUME work[c].pc \in ApplyStages,
               NEW lost, consul' = [consul EXCEPT ![e] = Applied(c, work[c], e, lost)]
        PROVE  /\ consul'[x].owners # {} => consul'[x].present
               /\ \A d \in CRs : x.of = d => consul'[x].owners \subseteq {Namespace[d]}
    <3>1. /\ \A y \in Entities \ {e} : consul'[y] = consul[y]
          /\ consul'[e].present /\ consul'[e].owners = Owners(c, e)
      BY <2>2, <2>4, ApplyEffect, ZenonT(90)
    <3>2. CASE x # e
      BY <2>3, <3>1, <3>2, Zenon
    <3>3. CASE x = e
      <4>1. e.of \in {NoCR, c}
        BY <2>4, AppliedName, Zenon
      <4>2. \A d \in CRs : e.of = d => d = c
        BY <4>1, ConstantsAssumption, Zenon
      <4>3. e.of = c => Owners(c, e) \subseteq {Namespace[c]}
        BY <2>3, <3>3, Zenon DEF Owners
      <4> QED
        BY <3>1, <3>3, <4>2, <4>3, Zenon
    <3> QED
      BY <3>2, <3>3, Zenon
  <2>5. CASE consul' = AfterRelease(c, work[c], e)
    <3>1. CASE x # e
      <4>1. consul'[x].present = consul[x].present /\ consul'[x].owners = consul[x].owners
        BY <2>2, <2>5, <3>1, ReleaseEffect
      <4> QED
        BY <2>3, <4>1, Zenon
    <3>2. CASE x = e
      <4>1. \/ consul'[e].owners = {}
            \/ /\ consul'[e].present = consul[e].present
               /\ consul'[e].owners = consul[e].owners \ {Namespace[c]}
        BY <2>2, <2>5, ReleaseEffect, Zenon
      <4> QED
        BY <2>3, <3>2, <4>1, Zenon
    <3> QED
      BY <3>1, <3>2, Zenon
  <2> QED
    BY <2>1, <2>4, <2>5, Zenon
<1> QED
  BY <1>1, <1>a, OtherConsul, Zenon

-----------------------------------------------------------------------------
(* The invariant is inductive.                                             *)

LEMMA ProgressStep ==
    ASSUME TypeOK, OneAtATime, \A c \in CRs : Progress(c), Next
    PROVE  \A c \in CRs : Progress(c)'
<1> SUFFICES ASSUME NEW c \in CRs PROVE Progress(c)'
  BY Zenon
<1>a. work \in [CRs -> Reconcile]
  BY Zenon DEF TypeOK
<1>b. ASSUME work'[c] = work[c], consul' = consul PROVE Progress(c)'
  <2>1. PICK w : w = work[c]
    BY Zenon
  <2>2. TodoFits(c, w) /\ ApplyFits(c, w) /\ StaleFits(c, w)
    BY <2>1, Zenon DEF Progress
  <2>3. ApplyFits(c, w)'
    BY <1>b, <2>2, Zenon DEF ApplyFits
  <2>4. StaleFits(c, w)'
    BY <1>b, <2>2, Zenon DEF StaleFits, Stale
  <2> QED
    BY <1>b, <2>1, <2>2, <2>3, <2>4, Zenon DEF Progress
<1>1. CASE ReconcileStep(c)
  BY <1>1, ReconcileProgress, Zenon
<1>2. ASSUME NEW d \in CRs \ {c}, ReconcileStep(d) PROVE Progress(c)'
  <2>1. work'[c] = work[c] /\ work[d].pc # "idle"
    BY <1>2, ReconcileLocal, Zenon
  <2>2. work'[c].pc = "idle"
    BY <2>1, Zenon DEF OneAtATime
  <2> QED
    BY <2>2, IdleFits, Zenon
<1>3. CASE Start(c)
  <2>1. consul' = consul
    BY <1>3, Zenon DEF Start
  <2>2. CASE work'[c].pc = "idle"
    BY <2>2, IdleFits, Zenon
  <2>3. CASE work'[c].pc = "addFinalizer" /\ work'[c].done = {} /\ work'[c].todo = {}
    <3>1. "addFinalizer" \notin AllStages
      BY Zenon DEF AllStages, ApplyStages, ReleaseStages, DeleteStages
    <3>2. ~Applying(work'[c])
      BY <2>3, <3>1, Zenon DEF Applying, AllStages
    <3>3. TodoFits(c, work'[c])
      BY <2>3, <3>1, Zenon DEF TodoFits, AllStages, StaleStages
    <3> QED
      BY <3>2, <3>3, Zenon DEF Progress, ApplyFits, StaleFits
  <2>4. ASSUME NEW w \in Reconcile, w.done = {}, w.todo = {}, work'[c] = EnterApply(c, w)
        PROVE  Progress(c)'
    <3>1. PICK v : v = EnterApply(c, w)
      BY Zenon
    <3>2. TodoFits(c, v) /\ ApplyFits(c, v) /\ StaleFits(c, v)
      BY <2>4, <3>1, EnterApplyFits, Zenon
    <3>3. ApplyFits(c, v)' /\ StaleFits(c, v)'
      BY <2>1, <3>2, Zenon DEF ApplyFits, StaleFits, Stale
    <3> QED
      BY <2>4, <3>1, <3>2, <3>3, Zenon DEF Progress
  <2>5. ASSUME NEW w \in Reconcile, work'[c] = Enter(c, w, "delRules") PROVE Progress(c)'
    <3>1. "delRules" \in AllStages /\ "delRules" \in Pcs
      BY Zenon DEF AllStages, DeleteStages, Pcs
    <3>2. TodoFits(c, work'[c])
      BY <2>5, <3>1, EnterTodo, ZenonT(90)
    <3>3. work'[c].pc = "delRules"
      BY <2>5, <3>1, EnterFields
    <3>4. ~Applying(work'[c])
      BY <3>3, Zenon DEF Applying, ApplyStages, ReleaseStages
    <3> QED
      BY <3>2, <3>4, Zenon DEF Progress, ApplyFits, StaleFits
  <2> QED
    BY <1>3, <2>2, <2>3, <2>4, <2>5, StartFields, Zenon
<1>4. ASSUME NEW d \in CRs \ {c}, Start(d) PROVE Progress(c)'
  <2>1. work'[c] = work[c] /\ consul' = consul
    BY <1>4, <1>a, Zenon DEF Start
  <2> QED
    BY <1>b, <2>1, Zenon
<1>5. CASE Crash
  <2>1. work'[c] = Idle
    BY <1>5, Zenon DEF Crash
  <2>2. work'[c].pc = "idle"
    BY <2>1 DEF Idle
  <2> QED
    BY <2>2, IdleFits, Zenon
<1>6. CASE UNCHANGED <<work, consul>>
  BY <1>6, <1>b, Zenon
<1> QED
  BY <1>1, <1>2, <1>3, <1>4, <1>5, <1>6, Zenon
     DEF Next, Sync, EnsureAuthMethod, Create, Edit, Delete

LEMMA InitInv == Init => IInv
<1> SUFFICES ASSUME Init PROVE IInv
  BY Zenon
<1>1. TypeOK
  BY InitTypes, Zenon
<1>2. Idle.pc = "idle" /\ ~Gone.exists
  BY Zenon DEF Idle, Gone
<1>3. \A c \in CRs : work[c] = Idle /\ api[c] = Gone /\ view[c] = Gone
  BY Zenon DEF Init
<1>4. OneAtATime
  BY <1>2, <1>3, Zenon DEF OneAtATime
<1>5. OwnersFit
  <2>1. \A e \in Entities : consul[e].owners = {}
    BY Zenon DEF Init, Absent
  <2> QED
    BY <2>1, Zenon DEF OwnersFit
<1>6. "idle" \notin AllStages
  BY Zenon DEF AllStages, ApplyStages, ReleaseStages, DeleteStages
<1>7. ASSUME NEW c \in CRs PROVE ReconcileInv(c)
  <2>1. CacheFits(c)
    BY <1>2, <1>3, Zenon DEF CacheFits
  <2>2. Current(c) /\ SiblingsListed(c)
    BY <1>2, <1>3, <1>6, Zenon DEF Current, SiblingsListed, ListedStages, StaleStages, AllStages
  <2>3. Progress(c)
    BY <1>2, <1>3, <1>6, Zenon
       DEF Progress, TodoFits, ApplyFits, StaleFits, Applying, AllStages, StaleStages
  <2> QED
    BY <2>1, <2>2, <2>3, Zenon DEF ReconcileInv
<1> QED
  BY <1>1, <1>4, <1>5, <1>7, Zenon DEF IInv

LEMMA InvStep == IInv /\ [Next]_vars => IInv'
<1> SUFFICES ASSUME IInv, [Next]_vars PROVE IInv'
  BY Zenon
<1>1. TypeOK'
  BY TypesStep, Zenon DEF IInv
<1>2. CASE Next
  <2>1. \A c \in CRs : CacheFits(c) /\ Current(c) /\ SiblingsListed(c) /\ Progress(c)
    BY Zenon DEF IInv, ReconcileInv
  <2>2. TypeOK /\ OneAtATime /\ OwnersFit
    BY Zenon DEF IInv
  <2>3. OneAtATime' /\ OwnersFit'
    BY <1>2, <2>1, <2>2, OneAtATimeStep, OwnersStep, Zenon
  <2>4. \A c \in CRs : CacheFits(c)'
    <3>1. CASE Crash
      <4>1. \A c \in CRs : view'[c] = api'[c] /\ api'[c].gen =< api'[c].gen
        BY <1>1, <3>1 DEF Crash, TypeOK, Resource
      <4> QED
        BY <4>1, Zenon DEF CacheFits
    <3>2. CASE ~Crash
      BY <1>2, <2>1, <2>2, <3>2, CacheStep, Zenon
    <3> QED
      BY <3>1, <3>2, Zenon
  <2>5. \A c \in CRs : Current(c)' /\ SiblingsListed(c)'
    BY <1>2, <2>1, <2>2, CurrentStep, SiblingsStep, Zenon
  <2>6. \A c \in CRs : Progress(c)'
    BY <1>2, <2>1, <2>2, ProgressStep, Zenon
  <2> QED
    BY <1>1, <2>3, <2>4, <2>5, <2>6, Zenon DEF IInv, ReconcileInv
<1>3. CASE UNCHANGED vars
  <2>1. UNCHANGED <<api, view, queue, work, consul>>
    BY <1>3, Zenon DEF vars
  <2>2. OneAtATime' /\ OwnersFit'
    BY <2>1, Zenon DEF IInv, OneAtATime, OwnersFit
  <2>3. ASSUME NEW c \in CRs PROVE ReconcileInv(c)'
    <3>1. ReconcileInv(c)
      BY Zenon DEF IInv
    <3>2. CacheFits(c)' /\ Current(c)'
      BY <2>1, <3>1, Zenon DEF ReconcileInv, CacheFits, Current
    <3>3. SiblingsListed(c)'
      BY <2>1, <3>1, Zenon DEF ReconcileInv, SiblingsListed
    <3>4. Progress(c)'
      BY <2>1, <3>1, ZenonT(90) DEF ReconcileInv, Progress, TodoFits, ApplyFits, StaleFits, Stale
    <3> QED
      BY <3>2, <3>3, <3>4, Zenon DEF ReconcileInv
  <2> QED
    BY <1>1, <2>2, <2>3, Zenon DEF IInv
<1> QED
  BY <1>2, <1>3, Zenon

LEMMA Inductive == Spec => []IInv
<1>1. Init => IInv
  BY InitInv, Zenon
<1>2. IInv /\ [Next]_vars => IInv'
  BY InvStep, Zenon
<1> QED
  BY <1>1, <1>2, PTL DEF Spec
=============================================================================
