----------------------------- MODULE ConsulACL ------------------------------
(***************************************************************************)
(* The ConsulACL reconciler of the ACL configurator operator               *)
(* (controllers/consulacl_controller.go): it applies the policies, roles   *)
(* and binding rules declared by ConsulACL custom resources and records    *)
(* the owning namespaces in the description of each entity.                *)
(*                                                                         *)
(* Leader election and the single worker of the controller leave one       *)
(* reconcile at a time, and nobody else writes the entities it manages, so *)
(* the read and the write of one entity are one step.  Users, the informer *)
(* cache, failures and restarts interleave between the steps.              *)
(*                                                                         *)
(* Abstractions.  A configuration is a set of entries: the entries of one  *)
(* list are independent of each other, nameless ones are skipped           *)
(* everywhere.  A description is the set of owners it lists.  A prefixed   *)
(* name {crName}_{crNamespace}_{name} is the pair of the name and the      *)
(* resource: Kubernetes names have no underscore, so no two resources      *)
(* share a prefix.  An ID in an entry is the one of the entity that bears  *)
(* the name of the entry.  Token revocation, whose result the code ignores, and   *)
(* selectors are left out.                                                 *)
(***************************************************************************)
EXTENDS KubeAPI, FiniteSets

CONSTANTS
    Namespace,      \* the namespace of a resource
    NoCR,           \* the prefix of an explicit name
    NoMethod,       \* the auth method of a policy or a role
    GlobalMethod,   \* CONSUL_AUTH_METHOD_NAME
    LegacyMethods,  \* CONSUL_LEGACY_AUTH_METHODS
    OtherMethods,   \* auth methods that exist from the start
    Configs,        \* the configurations users write
    WithID,         \* kinds and names of the entries that set an ID
    Existing        \* entities of earlier versions, without owners

Namespaces == {Namespace[c] : c \in CRs}

-----------------------------------------------------------------------------
(* Names of entities.                                                      *)

\* resolveEntityName.
Entity(kind, n, c, explicit, m) ==
    [kind |-> kind, name |-> n, of |-> IF explicit THEN NoCR ELSE c, method |-> m]

PolicyEntity(c, cfg, n) == Entity("policy", n, c, cfg.explicit, NoMethod)

\* The entities configuration cfg of resource c declares (declaredEntities.add).
Declared(c, cfg) ==
    {PolicyEntity(c, cfg, n) : n \in cfg.policies}
      \cup {Entity("role", r.name, c, cfg.explicit, NoMethod) : r \in cfg.roles}
      \cup {Entity("rule", b.name, c, cfg.explicit, b.method) : b \in cfg.rules}

Entities == Existing \cup UNION {Declared(c, cfg) : c \in CRs, cfg \in Configs}

OfKind(kind, s) == {e \in s : e.kind = kind}

\* hasPolicy, hasRole and hasBindRule compare names: the auth method is ignored.
Has(s, e) == \E d \in s : d.kind = e.kind /\ d.name = e.name /\ d.of = e.of

\* bindRuleAuthMethods.
RuleMethods(cfg) == {GlobalMethod} \cup {b.method : b \in cfg.rules}

ASSUME ConstantsAssumption ==
    /\ IsFiniteSet(CRs)
    /\ NoCR \notin CRs
    /\ NoMethod \notin {GlobalMethod} \cup LegacyMethods \cup OtherMethods
    /\ \A cfg \in Configs :
         /\ cfg.explicit \in BOOLEAN
         /\ cfg.valid \in BOOLEAN
         /\ ~cfg.valid => cfg.policies = {} /\ cfg.roles = {} /\ cfg.rules = {}
    /\ \A e \in Existing : e.kind \in {"policy", "role", "rule"}
    /\ MaxEdits \in Nat
    /\ MaxFaults \in Nat

VARIABLES
    work,     \* the reconcile in progress for a resource
    consul,   \* the ACL entities in Consul
    methods   \* the auth methods that exist in Consul

vars == <<api, view, queue, edits, faults, work, consul, methods>>

Absent == [present |-> FALSE, owners |-> {}, links |-> {}]

NoConfig == [explicit |-> FALSE, valid |-> TRUE, policies |-> {}, roles |-> {}, rules |-> {}]

\* A resource that does not exist.
Gone == [exists |-> FALSE, gen |-> 0, cfg |-> NoConfig, deleting |-> FALSE, fin |-> FALSE,
         bad |-> {}, ok |-> FALSE, obs |-> 0]

\* No reconcile in progress.
Idle == [pc |-> "idle", inst |-> Gone, todo |-> {}, done |-> {}, failed |-> {},
         reached |-> {}, kept |-> {}, all |-> FALSE, err |-> FALSE]

Init ==
    /\ api = [c \in CRs |-> Gone]
    /\ view = [c \in CRs |-> Gone]
    /\ queue = {}
    /\ work = [c \in CRs |-> Idle]
    /\ consul = [e \in Entities |-> [Absent EXCEPT !.present = (e \in Existing)]]
    /\ methods = OtherMethods
    /\ edits = 0
    /\ faults = 0

-----------------------------------------------------------------------------
(* The entities a stage of a reconcile has to handle.                      *)

\* siblingEntities: the other live resources of the namespace, as cached.
Siblings(c) ==
    {d \in CRs \ {c} : Namespace[d] = Namespace[c] /\ view[d].exists /\ ~view[d].deleting}

SiblingEntities(c) == UNION {Declared(d, view[d].cfg) : d \in Siblings(c)}

SiblingBroken(c) == \E d \in Siblings(c) : ~view[d].cfg.valid

\* Mutant of InUse: the siblings are not asked.
BrokenSiblingOnly(w, e) == w.all

InUse(w, e) == w.all \/ Has(w.kept, e)

\* Mutant of Stale: entities with explicit names are never stale.
PrefixedStale(c, w, kind) ==
    {e \in OfKind(kind, Entities) :
        /\ consul[e].present
        /\ kind = "rule" => e.method \in RuleMethods(w.inst.cfg)
        /\ ~Has(Declared(c, w.inst.cfg), e)
        /\ e.of = c}

\* removeStaleEntities and removeStaleExplicitEntities.
Stale(c, w, kind) ==
    {e \in OfKind(kind, Entities) :
        /\ consul[e].present
        /\ kind = "rule" => e.method \in RuleMethods(w.inst.cfg)
        /\ ~Has(Declared(c, w.inst.cfg), e)
        /\ IF w.inst.cfg.explicit
           THEN Namespace[c] \in consul[e].owners /\ ~InUse(w, e)
           ELSE e.of = c}

\* deleteBindingRules, deleteRoles and deletePolicies.
ToDelete(c, w, kind) ==
    {e \in OfKind(kind, Entities) :
        /\ consul[e].present
        /\ kind = "rule" => e.method \in RuleMethods(w.inst.cfg)
        /\ Has(Declared(c, w.inst.cfg), e)
        /\ ~InUse(w, e)}

\* Mutant of Legacy: a rule whose replacement failed is removed too.
LegacyAndFailed(c, w, keepDeclared) ==
    {e \in OfKind("rule", Entities) :
        /\ consul[e].present
        /\ e.of = c
        /\ e.method \in (LegacyMethods \cap methods) \ {GlobalMethod}
        /\ keepDeclared => \A b \in w.inst.cfg.rules : b.method = e.method => b.name # e.name}

\* Mutant of Legacy: the rules declared under a legacy method are removed too.
LegacyAndDeclared(c, w, keepDeclared) ==
    {e \in OfKind("rule", Entities) :
        /\ consul[e].present
        /\ e.of = c
        /\ e.method \in (LegacyMethods \cap methods) \ {GlobalMethod}}

\* removeLegacyBindingRules; on deletion nothing is kept.
Legacy(c, w, keepDeclared) ==
    {e \in OfKind("rule", Entities) :
        /\ consul[e].present
        /\ e.of = c
        /\ e.method \in (LegacyMethods \cap methods) \ {GlobalMethod}
        /\ keepDeclared =>
             /\ \A b \in w.inst.cfg.rules : b.method = e.method => b.name # e.name
             /\ ~Has(w.failed, e)}

ApplyStages == {"policies", "roles", "rules"}

ReleaseStages == {"legacy", "staleRules", "staleRoles", "stalePolicies"}

DeleteStages == {"delRules", "delLegacy", "delRoles", "delPolicies"}

\* The order of the stages: applyACL and deleteAclEntities.
NextStage(pc) ==
    [policies |-> "roles", roles |-> "rules", rules |-> "legacy", legacy |-> "staleRules",
     staleRules |-> "staleRoles", staleRoles |-> "stalePolicies", stalePolicies |-> "status",
     delRules |-> "delLegacy", delLegacy |-> "delRoles", delRoles |-> "delPolicies",
     delPolicies |-> "removeFinalizer"][pc]

Todo(c, w, pc) ==
    CASE pc = "policies" -> OfKind("policy", Declared(c, w.inst.cfg))
      [] pc = "roles" -> OfKind("role", Declared(c, w.inst.cfg))
      [] pc = "rules" -> OfKind("rule", Declared(c, w.inst.cfg))
      [] pc = "legacy" -> Legacy(c, w, TRUE)
      [] pc = "staleRules" -> Stale(c, w, "rule")
      [] pc = "staleRoles" -> Stale(c, w, "role")
      [] pc = "stalePolicies" -> Stale(c, w, "policy")
      [] pc = "delRules" -> ToDelete(c, w, "rule")
      [] pc = "delLegacy" -> Legacy(c, w, FALSE)
      [] pc = "delRoles" -> ToDelete(c, w, "role")
      [] pc = "delPolicies" -> ToDelete(c, w, "policy")
      [] OTHER -> {}

KindOf(pc) == [policies |-> "policy", roles |-> "role", rules |-> "rule"][pc]

\* The siblings are listed before the first stage that releases entities.
WithSiblings(c, w) ==
    IF w.inst.cfg.explicit
    THEN [w EXCEPT !.kept = SiblingEntities(c), !.all = SiblingBroken(c)]
    ELSE w

\* The reconcile w enters stage pc.
Enter(c, w, pc) ==
    LET v == IF pc \in {"staleRules", "delRules"} THEN WithSiblings(c, w) ELSE w IN
    [v EXCEPT !.pc = pc, !.todo = Todo(c, v, pc),
              !.reached = IF pc \in ApplyStages THEN @ \cup {KindOf(pc)} ELSE @]

-----------------------------------------------------------------------------
(* One reconcile.                                                          *)

EnterApply(c, w) ==
    IF w.inst.cfg.valid THEN Enter(c, w, "policies")
    ELSE [w EXCEPT !.pc = "status", !.err = TRUE]

\* The first step of Reconcile for the cached resource o.
Begin(c, o) ==
    LET w == [Idle EXCEPT !.inst = o] IN
    IF ~o.exists \/ (o.deleting /\ (~o.fin \/ ~o.cfg.valid)) THEN Idle
    ELSE IF o.deleting THEN Enter(c, w, "delRules")
    ELSE IF o.fin THEN EnterApply(c, w)
    ELSE [w EXCEPT !.pc = "addFinalizer"]

\* One reconcile at a time; a resource that is deleted while its configuration
\* can not be parsed is tried again and again.
Start(c) ==
    /\ c \in queue
    /\ \A d \in CRs : work[d].pc = "idle"
    /\ work' = [work EXCEPT ![c] = Begin(c, view[c])]
    /\ queue' = IF view[c].exists /\ view[c].deleting /\ view[c].fin /\ ~view[c].cfg.valid
                THEN queue ELSE queue \ {c}
    /\ UNCHANGED <<api, view, edits, faults, consul, methods>>

End(c) == work' = [work EXCEPT ![c] = Idle]

\* updateWithRetry takes a resource that is not found for an updated one.
NotFound(c) == ~view[c].exists \/ ~api[c].exists

AddFinalizer(c) ==
    /\ work[c].pc = "addFinalizer"
    /\ \/ UpToDate(c) /\ Publish(c, [api[c] EXCEPT !.fin = TRUE], {})
       \/ NotFound(c) /\ UNCHANGED <<api, view, queue>>
    /\ work' = [work EXCEPT ![c] = EnterApply(c, work[c])]
    /\ UNCHANGED <<edits, faults, consul, methods>>

RemoveFinalizer(c) ==
    /\ work[c].pc = "removeFinalizer"
    /\ \/ UpToDate(c) /\ Publish(c, Gone, {})
       \/ NotFound(c) /\ UNCHANGED <<api, view, queue>>
    /\ End(c)
    /\ UNCHANGED <<edits, faults, consul, methods>>

\* Mutant of UpdateFails: the error is swallowed.
UpdateFailsSilently(c) ==
    /\ work[c].pc \in {"addFinalizer", "removeFinalizer", "status"}
    /\ \/ ~UpToDate(c) /\ ~NotFound(c) /\ Fault("staleCache")
       \/ Fault("apiServer")
    /\ End(c)
    /\ UNCHANGED <<api, view, queue, edits, consul, methods>>

\* The conflicts outlast the retries or the API server fails.
UpdateFails(c) ==
    /\ work[c].pc \in {"addFinalizer", "removeFinalizer", "status"}
    /\ \/ ~UpToDate(c) /\ ~NotFound(c) /\ Fault("staleCache")
       \/ Fault("apiServer")
    /\ End(c)
    /\ queue' = queue \cup {c}
    /\ UNCHANGED <<api, view, edits, consul, methods>>

\* Mutant of UpdateStatus: a failed apply is not tried again.
UpdateWithoutRetry(c) ==
    /\ work[c].pc = "status"
    /\ UpToDate(c)
    /\ Publish(c, [api[c] EXCEPT !.bad = work[c].failed, !.ok = ~work[c].err,
                                 !.obs = api[c].gen], {})
    /\ End(c)
    /\ UNCHANGED <<edits, faults, consul, methods>>

\* The status keeps the entries of the kinds this reconcile did not reach.
UpdateStatus(c) ==
    LET w == work[c]
        bad == {e \in api[c].bad : e.kind \notin w.reached} \cup w.failed
        requeued == IF w.err THEN {c} ELSE {} IN
    /\ w.pc = "status"
    /\ \/ /\ UpToDate(c)
          /\ Publish(c, [api[c] EXCEPT !.bad = bad, !.ok = ~w.err, !.obs = api[c].gen], requeued)
       \/ NotFound(c) /\ queue' = queue \cup requeued /\ UNCHANGED <<api, view>>
    /\ End(c)
    /\ UNCHANGED <<edits, faults, consul, methods>>

-----------------------------------------------------------------------------
(* processPolicies, processRoles and processBindRules.                     *)

\* An entry that sets an ID is updated, never created; Consul answers an update of
\* an ID it does not know with status 500.
IdUnknown(e) == <<e.kind, e.name>> \in WithID /\ ~consul[e].present

MethodMissing(e) == e.kind = "rule" /\ e.method \notin methods

\* Mutant of Owners: the list of owners is replaced.
SoleOwner(c, e) == {Namespace[c]}

\* Mutant of Owners: the resource is recorded in place of its namespace.
OwnersByName(c, e) == {c} \cup consul[e].owners

\* withOwnerAdded; a policy whose entry sets the ID is not read, so its owners are
\* unknown.
Owners(c, e) ==
    {Namespace[c]} \cup (IF e.kind = "policy" /\ <<"policy", e.name>> \in WithID THEN {}
                         ELSE consul[e].owners)

\* The policies the entry of role e names.
NamedPolicies(c, cfg, e) ==
    {PolicyEntity(c, cfg, n) : n \in UNION {r.links : r \in {q \in cfg.roles : q.name = e.name}}}

\* getPolicyLinks reads the policies that this reconcile has not written, if
\* names are explicit; lost are the ones whose read fails.
LookedUp(c, w, e) ==
    IF e.kind = "role" /\ w.inst.cfg.explicit
    THEN {p \in NamedPolicies(c, w.inst.cfg, e) \cap Entities : p \notin w.done} ELSE {}

\* Mutant of PolicyLinks: explicit names are looked up with the prefix.
PrefixedLinks(c, w, e, lost) ==
    NamedPolicies(c, [w.inst.cfg EXCEPT !.explicit = FALSE], e) \cap w.done

PolicyLinks(c, w, e, lost) ==
    (NamedPolicies(c, w.inst.cfg, e) \cap w.done)
      \cup {p \in LookedUp(c, w, e) \ lost : consul[p].present}

Applied(c, w, e, lost) ==
    [present |-> TRUE, owners |-> Owners(c, e),
     links |-> IF e.kind = "role" THEN PolicyLinks(c, w, e, lost) ELSE {}]

\* Create or update one entity.
ApplyEntity(c) ==
    LET w == work[c] IN
    /\ w.pc \in ApplyStages
    /\ \E e \in w.todo :
        /\ ~IdUnknown(e)
        /\ ~MethodMissing(e)
        /\ \E lost \in SUBSET LookedUp(c, w, e) :
            /\ IF lost = {} THEN faults' = faults ELSE Fault("lookup")
            /\ consul' = [consul EXCEPT ![e] = Applied(c, w, e, lost)]
        /\ work' = [work EXCEPT ![c] = [w EXCEPT !.todo = @ \ {e}, !.done = @ \cup {e}]]
    /\ UNCHANGED <<api, view, queue, edits, methods>>

\* The entity is recorded as failed and the loop goes on with the next one;
\* firstRetryableError keeps a transient error for the end of the stage.
Skip(c, e, transient) ==
    work' = [work EXCEPT ![c] = [work[c] EXCEPT !.todo = @ \ {e}, !.failed = @ \cup {e},
                                                !.err = @ \/ transient]]

ApplyFails(c) ==
    /\ work[c].pc \in ApplyStages
    /\ \E e \in work[c].todo :
        \/ /\ IdUnknown(e) \/ MethodMissing(e)
           /\ Skip(c, e, TRUE) /\ UNCHANGED <<consul, faults>>
        \/ Fault("transient") /\ Skip(c, e, TRUE) /\ UNCHANGED consul
        \/ Fault("permanent") /\ Skip(c, e, FALSE) /\ UNCHANGED consul
        \/ /\ ~IdUnknown(e) /\ ~MethodMissing(e)
           /\ Fault("lostReply") /\ Skip(c, e, TRUE)
           /\ consul' = [consul EXCEPT ![e] = Applied(c, work[c], e, {})]
    /\ UNCHANGED <<api, view, queue, edits, methods>>

-----------------------------------------------------------------------------
(* Stages that release entities.                                           *)

\* The entities of s are deleted; the links to deleted policies go with them.
Deleted(s) ==
    [e \in Entities |-> IF e \in s THEN Absent ELSE [consul[e] EXCEPT !.links = @ \ s]]

\* withOwnerRemoved: no owner is left.
IsLast(c, e) == consul[e].owners \ {Namespace[c]} = {}

\* releaseBindingRule, releaseRole and releasePolicy.
Released(c, e) ==
    IF IsLast(c, e) THEN Deleted({e}) ELSE [consul EXCEPT ![e].owners = @ \ {Namespace[c]}]

\* Legacy rules, and stale entities with prefixed names, are deleted outright.
AfterRelease(c, w, e) ==
    IF w.pc \in {"legacy", "delLegacy"} \/ (w.pc \in ReleaseStages /\ ~w.inst.cfg.explicit)
    THEN Deleted({e}) ELSE Released(c, e)

ReleaseEntity(c) ==
    LET w == work[c] IN
    /\ w.pc \in ReleaseStages \cup DeleteStages
    /\ \E e \in w.todo :
        /\ consul' = AfterRelease(c, w, e)
        /\ work' = [work EXCEPT ![c] = [w EXCEPT !.todo = @ \ {e}]]
    /\ UNCHANGED <<api, view, queue, edits, faults, methods>>

\* All entities of the stage are handled; an error ends applyACL.
LeaveStage(c) ==
    LET w == work[c] IN
    /\ w.pc \in ApplyStages \cup ReleaseStages \cup DeleteStages
    /\ w.todo = {}
    /\ work' = [work EXCEPT ![c] = Enter(c, w, IF w.err THEN "status" ELSE NextStage(w.pc))]
    /\ UNCHANGED <<api, view, queue, edits, faults, consul, methods>>

\* A request fails on which the code returns at once: a list of binding rules,
\* roles or policies, the read of an auth method, or a release.  The last one may
\* have taken effect.
StageFails(c) ==
    LET w == work[c] IN
    /\ w.pc \in {"rules"} \cup ReleaseStages \cup DeleteStages
    /\ w.pc \in {"rules", "delRoles", "delPolicies"} => w.todo # {}
    /\ \/ Fault("transient") /\ UNCHANGED consul
       \/ Fault("permanent") /\ UNCHANGED consul
       \/ /\ w.pc # "rules"
          /\ Fault("lostReply")
          /\ \E e \in w.todo : consul' = AfterRelease(c, w, e)
    /\ IF w.pc \in DeleteStages
       THEN End(c) /\ queue' = queue \cup {c}
       ELSE /\ work' = [work EXCEPT ![c] = [w EXCEPT !.pc = "status", !.todo = {}, !.err = TRUE]]
            /\ queue' = queue
    /\ UNCHANGED <<api, view, edits, methods>>

-----------------------------------------------------------------------------
(* The surroundings: the informer, the start-up task, restarts and users.  *)

Sync(c) == Deliver(c) /\ UNCHANGED <<api, edits, faults, work, consul, methods>>

\* EnsureApplicationsAuthMethodWithRetry succeeds.
EnsureAuthMethod ==
    /\ GlobalMethod \notin methods
    /\ methods' = methods \cup {GlobalMethod}
    /\ UNCHANGED <<api, view, queue, edits, faults, work, consul>>

Crash ==
    /\ Fault("crash")
    /\ work' = [c \in CRs |-> Idle]
    /\ view' = api
    /\ queue' = {c \in CRs : api[c].exists}
    /\ UNCHANGED <<api, edits, consul, methods>>

\* A name is used again only when the operator has seen the deletion.
Create(c) ==
    /\ Edited
    /\ ~api[c].exists /\ ~view[c].exists
    /\ \E cfg \in Configs : Publish(c, [Gone EXCEPT !.exists = TRUE, !.gen = 1, !.cfg = cfg], {})
    /\ UNCHANGED <<faults, work, consul, methods>>

Edit(c) ==
    /\ Edited
    /\ api[c].exists
    /\ \E cfg \in Configs \ {api[c].cfg} :
        Publish(c, [api[c] EXCEPT !.gen = @ + 1, !.cfg = cfg], {})
    /\ UNCHANGED <<faults, work, consul, methods>>

Delete(c) ==
    /\ Edited
    /\ api[c].exists
    /\ ~api[c].deleting
    /\ Publish(c, IF api[c].fin THEN [api[c] EXCEPT !.deleting = TRUE, !.gen = @ + 1]
                  ELSE Gone, {})
    /\ UNCHANGED <<faults, work, consul, methods>>

ReconcileStep(c) ==
    \/ AddFinalizer(c) \/ ApplyEntity(c) \/ ApplyFails(c) \/ ReleaseEntity(c) \/ LeaveStage(c)
    \/ StageFails(c) \/ UpdateStatus(c) \/ RemoveFinalizer(c) \/ UpdateFails(c)

Next ==
    \/ \E c \in CRs : Start(c) \/ ReconcileStep(c) \/ Sync(c)
    \/ EnsureAuthMethod \/ Crash
    \/ \E c \in CRs : Create(c) \/ Edit(c) \/ Delete(c)

Spec == Init /\ [][Next]_vars

\* The controller takes what is in its queue, a reconcile goes on, the watch
\* delivers, and the start-up task retries until it succeeds.
FairSpec ==
    /\ Spec
    /\ WF_vars(EnsureAuthMethod)
    /\ \A c \in CRs : WF_vars(Start(c)) /\ WF_vars(ReconcileStep(c)) /\ WF_vars(Sync(c))

-----------------------------------------------------------------------------
Resource == [exists : BOOLEAN, gen : Nat, cfg : Configs \cup {NoConfig}, deleting : BOOLEAN,
             fin : BOOLEAN, bad : SUBSET Entities, ok : BOOLEAN, obs : Nat]

Reconcile == [pc : {"idle", "addFinalizer", "status", "removeFinalizer"}
                     \cup ApplyStages \cup ReleaseStages \cup DeleteStages,
              inst : Resource, todo : SUBSET Entities, done : SUBSET Entities,
              failed : SUBSET Entities, reached : SUBSET {"policy", "role", "rule"},
              kept : SUBSET Entities, all : BOOLEAN, err : BOOLEAN]

\* The type invariant of the reconciler and of the ACL entities.
TypeOK ==
    /\ api \in [CRs -> Resource]
    /\ view \in [CRs -> Resource]
    /\ queue \subseteq CRs
    /\ edits \in Nat
    /\ faults \in Nat
    /\ work \in [CRs -> Reconcile]
    /\ consul \in [Entities -> [present : BOOLEAN, owners : SUBSET Namespaces,
                                links : SUBSET Entities]]
    /\ methods \subseteq {GlobalMethod} \cup OtherMethods

\* The operator is done with c and reported success.
Settled(c) ==
    /\ api[c].exists /\ ~api[c].deleting /\ api[c].ok /\ api[c].obs = api[c].gen
    /\ view[c] = api[c] /\ c \notin queue /\ work[c] = Idle

\* What a settled resource declares is in Consul with its namespace as an owner,
\* whatever the reconciles and deletions of its siblings and of resources of other
\* namespaces do meanwhile.
DeclaredKept ==
    \A c \in CRs : Settled(c) =>
        \A e \in Declared(c, api[c].cfg) \ api[c].bad :
            consul[e].present /\ Namespace[c] \in consul[e].owners

\* withOwnerRemoved and withOwnerAdded: only the reconcile of a resource of a
\* namespace takes the namespace off an owner list, and only it deletes an entity
\* the namespace owns.
OthersKept ==
    [][\A e \in Entities : \A n \in consul[e].owners \ consul'[e].owners :
         \E c \in CRs : Namespace[c] = n /\ work[c].pc # "idle"]_vars

\* When applyACL succeeds with explicit names, what the namespace still owns is
\* declared by the resource or by a sibling.
StaleReleased ==
    \A c \in CRs : LET w == work[c] IN
        (w.pc = "status" /\ ~w.err /\ w.inst.cfg.explicit) =>
            \A e \in Entities :
                (/\ Namespace[c] \in consul[e].owners
                 /\ e.kind = "rule" => e.method \in RuleMethods(w.inst.cfg))
                   => Has(Declared(c, w.inst.cfg), e) \/ InUse(w, e)

\* removeLegacyBindingRules on apply: a rule under a legacy method is removed
\* only when the rule that replaces it is in place.
ReplacedBeforeRemoved ==
    [][\A c \in CRs : work[c].pc = "legacy" =>
         \A e \in OfKind("rule", Entities) : (consul[e].present /\ ~consul'[e].present) =>
            \A d \in Declared(c, work[c].inst.cfg) : Has({e}, d) => consul[d].present]_vars

\* When applyACL succeeds, the roles it wrote link to every policy they name
\* that exists in Consul.
LinksResolved ==
    \A c \in CRs : LET w == work[c] IN
        (w.pc = "status" /\ ~w.err) =>
            \A e \in OfKind("role", w.done) : \A p \in NamedPolicies(c, w.inst.cfg, e) :
                (p \in Entities /\ p \notin w.failed /\ consul[p].present) => p \in consul[e].links

\* The deletion of a resource whose configuration can be parsed completes.
DeletionCompletes ==
    \A c \in CRs : (api[c].deleting /\ api[c].cfg.valid) ~> (~api[c].exists \/ ~api[c].cfg.valid)

\* When users and failures come to rest, every live resource with a valid
\* configuration is reported as successful.  Not so one with an ID that Consul does
\* not know: isRetryable takes the answer for a transient failure, so it is
\* reported as failed and tried again for ever.
Converges ==
    \A c \in CRs :
        <>[]((/\ api[c].exists /\ ~api[c].deleting /\ api[c].cfg.valid
              /\ \A e \in Declared(c, api[c].cfg) : ~IdUnknown(e))
                => api[c].ok /\ api[c].obs = api[c].gen)
=============================================================================
