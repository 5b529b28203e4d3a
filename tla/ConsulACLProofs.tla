--------------------------- MODULE ConsulACLProofs ---------------------------
(***************************************************************************)
(* The safety properties of the ConsulACL reconciler, for any number of    *)
(* resources, namespaces, configurations and failures.                     *)
(***************************************************************************)
EXTENDS ConsulACLInvariant

-----------------------------------------------------------------------------
(* Owners.                                                                 *)

\* No policy entry sets an ID: every policy is read before it is written.
PoliciesRead == \A n : <<"policy", n>> \notin WithID

\* If every policy is read before it is written, a reconcile removes no owner but
\* its own namespace.
LEMMA OwnerLost ==
    ASSUME PoliciesRead, IInv, NEW c \in CRs, ReconcileStep(c), NEW x \in Entities,
           NEW n \in consul[x].owners, n \notin consul'[x].owners
    PROVE  /\ n = Namespace[c]
           /\ work[c].pc \in ReleaseStages \cup DeleteStages
           /\ x \in work[c].todo
<1>a. TypeOK /\ OwnersFit /\ Progress(c)
  BY Zenon DEF IInv, ReconcileInv
<1>b. consul' # consul
  BY Zenon
<1>1. PICK e \in work[c].todo :
         \/ /\ work[c].pc \in ApplyStages
            /\ \E lost : consul' = [consul EXCEPT ![e] = Applied(c, work[c], e, lost)]
         \/ /\ work[c].pc \in ReleaseStages \cup DeleteStages
            /\ consul' = AfterRelease(c, work[c], e)
  BY <1>b, ConsulStep, ZenonT(90)
<1>2. e \in Entities
  BY <1>a, Zenon DEF TypeOK, Reconcile
<1>3. ASSUME NEW lost, consul' = [consul EXCEPT ![e] = Applied(c, work[c], e, lost)]
      PROVE  FALSE
  <2>1. /\ \A y \in Entities \ {e} : consul'[y] = consul[y]
        /\ consul'[e].owners = Owners(c, e)
    BY <1>a, <1>2, <1>3, ApplyEffect, Zenon
  <2>2. consul[e].owners \subseteq Owners(c, e)
    BY Zenon DEF Owners, PoliciesRead
  <2> QED
    BY <2>1, <2>2, ZenonT(90)
<1>4. CASE work[c].pc \in ReleaseStages \cup DeleteStages /\ consul' = AfterRelease(c, work[c], e)
  <2>1. /\ \A y \in Entities \ {e} : consul'[y].owners = consul[y].owners
        /\ \/ work[c].pc \in {"legacy", "delLegacy"}
           \/ work[c].pc \in ReleaseStages /\ ~work[c].inst.cfg.explicit
           \/ consul[e].owners \subseteq {Namespace[c]}
           \/ consul'[e].owners = consul[e].owners \ {Namespace[c]}
    BY <1>a, <1>2, <1>4, ReleaseEffect
  <2>2. x = e
    BY <2>1, Zenon
  <2>3. \/ work[c].pc \in {"legacy", "delLegacy"}
        \/ work[c].pc \in ReleaseStages /\ ~work[c].inst.cfg.explicit
        => consul[e].owners \subseteq {Namespace[c]}
    <3>1. \/ work[c].pc \in {"legacy", "delLegacy"}
          \/ work[c].pc \in ReleaseStages /\ ~work[c].inst.cfg.explicit
          => e.of = c
      BY <1>a, OutrightName, ZenonT(90)
    <3> QED
      BY <1>a, <1>2, <3>1, Zenon DEF OwnersFit
  <2>4. n = Namespace[c]
    BY <2>1, <2>2, <2>3, Zenon
  <2> QED
    BY <1>4, <2>2, <2>4, Zenon
<1> QED
  BY <1>1, <1>3, <1>4, Zenon

\* withOwnerAdded and withOwnerRemoved keep the other owners of an entity, if no
\* policy entry sets an ID: only a reconcile of a resource of a namespace takes
\* the namespace off an owner list or deletes an entity the namespace owns.
THEOREM OwnersKept == ASSUME PoliciesRead PROVE Spec => OthersKept
<1> DEFINE Keeps == \A e \in Entities : \A n \in consul[e].owners \ consul'[e].owners :
                        \E c \in CRs : Namespace[c] = n /\ work[c].pc # "idle"
<1>1. IInv /\ [Next]_vars => [Keeps]_vars
  <2> SUFFICES ASSUME IInv, Next, NEW e \in Entities, NEW n \in consul[e].owners \ consul'[e].owners
               PROVE  \E c \in CRs : Namespace[c] = n /\ work[c].pc # "idle"
    BY ZenonT(90)
  <2>1. consul' # consul
    BY Zenon
  <2>2. PICK c \in CRs : ReconcileStep(c)
    BY <2>1, OtherConsul, ZenonT(90)
  <2>3. n = Namespace[c]
    BY <2>2, OwnerLost, Zenon
  <2>4. work[c].pc # "idle"
    BY <2>2, ReconcileLocal, Zenon DEF IInv
  <2> QED
    BY <2>3, <2>4, Zenon
<1> QED
  BY <1>1, Inductive, PTL DEF Spec, OthersKept

\* removeStaleExplicitEntities: when applyACL succeeds with explicit names, what
\* the namespace still owns is declared by the resource or by a sibling.
THEOREM NothingStale == Spec => []StaleReleased
<1>1. IInv => StaleReleased
  <2> SUFFICES ASSUME IInv, NEW c \in CRs, work[c].pc = "status", ~work[c].err,
                      work[c].inst.cfg.explicit, NEW e \in Entities,
                      Namespace[c] \in consul[e].owners,
                      e.kind = "rule" => e.method \in RuleMethods(work[c].inst.cfg)
               PROVE  Has(Declared(c, work[c].inst.cfg), e) \/ InUse(work[c], e)
    BY Zenon DEF StaleReleased
  <2>1. TodoFits(c, work[c]) /\ StaleFits(c, work[c]) /\ OwnersFit
    BY Zenon DEF IInv, ReconcileInv, Progress
  <2>2. work[c].todo = {}
    BY <2>1, Zenon DEF TodoFits
  <2>3. consul[e].present
    BY <2>1, Zenon DEF OwnersFit
  <2>4. e.kind \in ListedKinds(work[c].pc)
    BY EntityKinds, Zenon DEF Kinds, ListedKinds
  <2>5. e \notin Stale(c, work[c], e.kind)
    BY <2>1, <2>2, <2>4, Zenon DEF StaleFits, Applying
  <2> QED
    BY <2>3, <2>5, Zenon DEF Stale, OfKind
<1> QED
  BY <1>1, Inductive, PTL

\* removeLegacyBindingRules on apply: a rule under a legacy method is removed only
\* when the rule that replaces it is in place.
THEOREM LegacyReplaced == Spec => ReplacedBeforeRemoved
<1> DEFINE Replaced ==
      \A c \in CRs : work[c].pc = "legacy" =>
         \A e \in OfKind("rule", Entities) : (consul[e].present /\ ~consul'[e].present) =>
            \A d \in Declared(c, work[c].inst.cfg) : Has({e}, d) => consul[d].present
<1>1. IInv /\ [Next]_vars => [Replaced]_vars
  <2> SUFFICES ASSUME IInv, Next, NEW c \in CRs, work[c].pc = "legacy",
                      NEW x \in Entities, consul[x].present, ~consul'[x].present,
                      NEW d \in Declared(c, work[c].inst.cfg), Has({x}, d)
               PROVE  consul[d].present
    BY Zenon DEF OfKind
  <2>a. TypeOK /\ OneAtATime /\ TodoFits(c, work[c]) /\ ApplyFits(c, work[c])
    BY Zenon DEF IInv, ReconcileInv, Progress
  <2>b. consul' # consul
    BY Zenon
  <2>1. PICK b \in CRs : ReconcileStep(b)
    BY <2>b, OtherConsul, ZenonT(90)
  <2>2. work[b].pc # "idle"
    BY <2>a, <2>1, ReconcileLocal, Zenon
  <2>3. b = c
    BY <2>a, <2>2, Zenon DEF OneAtATime
  <2>4. "legacy" \notin ApplyStages /\ "legacy" \in ReleaseStages
    BY Zenon DEF ApplyStages, ReleaseStages
  <2>5. PICK e \in work[c].todo : consul' = AfterRelease(c, work[c], e)
    BY <2>b, <2>1, <2>3, <2>4, ConsulStep, ZenonT(90)
  <2>6. e \in Entities
    BY <2>a, Zenon DEF TypeOK, Reconcile
  <2>7. x = e
    BY <2>5, <2>6, <2>a, ReleaseEffect
  <2>8. ~Has(work[c].failed, e)
    BY <2>a, Zenon DEF TodoFits
  <2>9. d \notin work[c].failed
    BY <2>7, <2>8, Zenon DEF Has
  <2>10. d.kind \in ReachedKinds(work[c].pc)
    BY DeclaredFields DEF ReachedKinds, Kinds
  <2>11. Applying(work[c])
    BY <2>4, Zenon DEF Applying
  <2>12. d \in work[c].done
    BY <2>a, <2>4, <2>9, <2>10, <2>11, Zenon DEF ApplyFits
  <2> QED
    BY <2>a, <2>11, <2>12, Zenon DEF ApplyFits
<1> QED
  BY <1>1, Inductive, PTL DEF Spec, ReplacedBeforeRemoved

-----------------------------------------------------------------------------
(* Settled resources.                                                      *)

\* How a reconcile ends without another one to follow.
LEMMA ReconcileEnds ==
    ASSUME TypeOK, NEW c \in CRs, ReconcileStep(c), work'[c].pc = "idle", c \notin queue'
    PROVE  UpdateStatus(c) \/ RemoveFinalizer(c)
<1>a. work \in [CRs -> Reconcile] /\ work[c] \in Reconcile
  BY Zenon DEF TypeOK
<1>b. work[c].pc # "idle"
  BY ReconcileLocal, Zenon
<1>c. ASSUME NEW v, work' = [work EXCEPT ![c] = v] PROVE work'[c] = v
  BY <1>a, <1>c, Zenon
<1>1. CASE AddFinalizer(c)
  <2>1. "policies" \in Pcs
    BY Zenon DEF Pcs, AllStages, ApplyStages
  <2>2. Enter(c, work[c], "policies").pc = "policies"
    BY <1>a, <2>1, EnterFields
  <2>3. [work[c] EXCEPT !.pc = "status", !.err = TRUE].pc = "status"
    BY <1>a, Zenon DEF Reconcile
  <2>4. work'[c] = EnterApply(c, work[c])
    BY <1>1, <1>c, Zenon DEF AddFinalizer
  <2> QED
    BY <2>2, <2>3, <2>4, Zenon DEF EnterApply
<1>2. CASE ApplyEntity(c) \/ ApplyFails(c) \/ ReleaseEntity(c)
  <2>1. PICK e, v : /\ work' = [work EXCEPT ![c] = v]
                    /\ \/ v = [work[c] EXCEPT !.todo = @ \ {e}, !.done = @ \cup {e}]
                       \/ v = [work[c] EXCEPT !.todo = @ \ {e}]
                       \/ \E t : v = [work[c] EXCEPT !.todo = @ \ {e}, !.failed = @ \cup {e},
                                                     !.err = @ \/ t]
    BY <1>2, Zenon DEF ApplyEntity, ApplyFails, ReleaseEntity, Skip
  <2>2. v.pc = work[c].pc
    BY <1>a, <2>1, ZenonT(90) DEF Reconcile
  <2> QED
    BY <1>b, <1>c, <2>1, <2>2, Zenon
<1>3. CASE LeaveStage(c)
  <2>1. PICK pc : /\ pc = IF work[c].err THEN "status" ELSE NextStage(work[c].pc)
                  /\ pc \in Pcs /\ work[c].pc \in AllStages
                  /\ work'[c] = Enter(c, work[c], pc)
    BY <1>3, LeaveFields, Zenon
  <2>2. NextStage(work[c].pc) # "idle"
    BY <2>1, Stages, Zenon DEF AllStages, ApplyStages, ReleaseStages, DeleteStages
  <2>3. Enter(c, work[c], pc).pc = pc
    BY <1>a, <2>1, EnterFields
  <2> QED
    BY <2>1, <2>2, <2>3, Zenon
<1>4. CASE StageFails(c)
  <2> DEFINE v == [work[c] EXCEPT !.pc = "status", !.todo = {}, !.err = TRUE]
  <2>1. v.pc = "status"
    BY <1>a, Zenon DEF Reconcile
  <2>2. c \in queue' \/ work' = [work EXCEPT ![c] = v]
    BY <1>4, Zenon DEF StageFails
  <2> HIDE DEF v
  <2> QED
    BY <1>c, <2>1, <2>2, Zenon
<1>5. CASE UpdateFails(c)
  BY <1>5, Zenon DEF UpdateFails
<1> QED
  BY <1>1, <1>2, <1>3, <1>4, <1>5, Zenon DEF ReconcileStep

\* A live resource is not skipped.
LEMMA StartNotIdle ==
    ASSUME TypeOK, NEW c \in CRs, Start(c), view[c].exists, ~view[c].deleting
    PROVE  work'[c].pc # "idle"
<1>a. work \in [CRs -> Reconcile] /\ view[c] \in Resource
  BY Zenon DEF TypeOK
<1> DEFINE w == [Idle EXCEPT !.inst = view[c]]
<1>1. w \in Reconcile
  BY <1>a, StartTypes, Zenon DEF Reconcile
<1>2. work'[c] = Begin(c, view[c])
  BY <1>a, Zenon DEF Start
<1>3. work'[c] = EnterApply(c, w) \/ work'[c] = [w EXCEPT !.pc = "addFinalizer"]
  BY <1>2, Zenon DEF Begin
<1> HIDE DEF w
<1>4. "policies" \in Pcs
  BY Zenon DEF Pcs, AllStages, ApplyStages
<1>5. Enter(c, w, "policies").pc = "policies"
  BY <1>1, <1>4, EnterFields, Zenon
<1>6. [w EXCEPT !.pc = "status", !.err = TRUE].pc = "status"
      /\ [w EXCEPT !.pc = "addFinalizer"].pc = "addFinalizer"
  BY <1>1, Zenon DEF Reconcile
<1> QED
  BY <1>3, <1>5, <1>6, Zenon DEF EnterApply

\* The API server's copy of a resource that is quiet after a step of a user or of
\* the informer.
LEMMA SameResource ==
    ASSUME TypeOK, NEW c \in CRs, CacheFits(c), Steady(c), Quiet(c)',
           NEW d \in CRs, Sync(d) \/ Create(d) \/ Edit(d) \/ Delete(d)
    PROVE  api'[c] = api[c]
<1>a. api \in [CRs -> Resource] /\ api[c] \in Resource /\ view[c] \in Resource
  BY Zenon DEF TypeOK
<1>b. /\ api'[c].exists /\ ~api'[c].deleting /\ view[c].exists
      /\ view[c].gen = api'[c].gen
  BY Zenon DEF Quiet, Steady
<1>c. ASSUME NEW o, Publish(d, o, {})
      PROVE  IF d = c THEN api'[c] = o ELSE api'[c] = api[c]
  BY <1>a, <1>c, Zenon DEF Publish
<1>1. CASE Sync(d)
  BY <1>1, Zenon DEF Sync
<1>2. CASE Create(d)
  <2>1. d # c
    BY <1>2, <1>b, Zenon DEF Create
  <2> QED
    BY <1>2, <1>c, <2>1, Zenon DEF Create
<1>3. CASE Edit(d)
  <2>1. PICK cfg \in Configs : Publish(d, [api[d] EXCEPT !.gen = @ + 1, !.cfg = cfg], {})
    BY <1>3, ZenonT(90) DEF Edit
  <2>2. CASE d = c
    <3>1. api'[c] = [api[c] EXCEPT !.gen = @ + 1, !.cfg = cfg]
      BY <1>c, <2>1, <2>2, Zenon
    <3>2. api'[c].gen = api[c].gen + 1
      BY <1>a, <3>1, Zenon DEF Resource
    <3>3. api[c].exists
      BY <1>3, <2>2, Zenon DEF Edit
    <3>4. view[c].gen =< api[c].gen
      BY <1>b, <3>3, ZenonT(90) DEF CacheFits
    <3>5. api[c].gen \in Nat
      BY <1>a, Zenon DEF Resource
    <3> QED
      BY <1>b, <3>2, <3>4, <3>5
  <2> QED
    BY <1>c, <2>1, <2>2, Zenon
<1>4. CASE Delete(d)
  <2> DEFINE o == IF api[d].fin THEN [api[d] EXCEPT !.deleting = TRUE, !.gen = @ + 1] ELSE Gone
  <2>1. Publish(d, o, {})
    BY <1>4, Zenon DEF Delete
  <2>2. CASE d = c
    <3>1. api'[c] = o
      BY <1>c, <2>1, <2>2, Zenon
    <3>2. o.deleting \/ ~o.exists
      BY <1>a, <2>2, Zenon DEF Gone, Resource
    <3> QED
      BY <1>b, <3>1, <3>2, Zenon
  <2> QED
    BY <1>c, <2>1, <2>2, Zenon
<1> QED
  BY <1>1, <1>2, <1>3, <1>4, Zenon

\* What a reconcile of d may release.
LEMMA ReleasedName ==
    ASSUME NEW d \in CRs, NEW w, TodoFits(d, w), w.inst.cfg.explicit \in BOOLEAN,
           w.pc \in ReleaseStages \cup DeleteStages, NEW e \in w.todo
    PROVE  \/ e.of = d
           \/ w.pc \in ListedStages /\ w.inst.cfg.explicit /\ ~InUse(w, e)
<1>1. CASE w.pc \in {"legacy", "delLegacy"}
  BY <1>1, Zenon DEF TodoFits
<1>2. CASE w.pc \in StaleStages
  BY <1>2, ZenonT(90) DEF TodoFits, ListedStages
<1>3. CASE w.pc \in DeleteStages \ {"delLegacy"}
  <2>1. Has(Declared(d, w.inst.cfg), e) /\ (w.inst.cfg.explicit => ~InUse(w, e))
    BY <1>3, Zenon DEF TodoFits
  <2>2. PICK x \in Declared(d, w.inst.cfg) : x.of = e.of
    BY <2>1, ZenonT(90) DEF Has
  <2>3. x.of = IF w.inst.cfg.explicit THEN NoCR ELSE d
    BY DeclaredFields
  <2> QED
    BY <1>3, <2>1, <2>2, <2>3, Zenon DEF ListedStages
<1> QED
  BY <1>1, <1>2, <1>3, Zenon DEF StaleStages

\* A reconcile of another resource leaves what a quiet resource declares.
LEMMA QuietOther ==
    ASSUME PoliciesRead, IInv, NEW c \in CRs, Quiet(c), NEW d \in CRs \ {c}, ReconcileStep(d),
           NEW e \in Declared(c, api[c].cfg), Namespace[c] \in consul[e].owners
    PROVE  Namespace[c] \in consul'[e].owners
<1> SUFFICES ASSUME Namespace[c] \notin consul'[e].owners PROVE FALSE
  BY Zenon
<1>a. TypeOK /\ CacheFits(c) /\ SiblingsListed(d) /\ Progress(d)
  BY ZenonT(90) DEF IInv, ReconcileInv
<1>b. api[c].cfg \in AllConfigs /\ work[d].inst.cfg \in AllConfigs
  BY <1>a, Zenon DEF TypeOK, Reconcile, Resource, AllConfigs
<1>c. e \in Entities
  BY <1>b, DeclaredEntities, Zenon
<1>1. /\ Namespace[c] = Namespace[d] /\ e \in work[d].todo
      /\ work[d].pc \in ReleaseStages \cup DeleteStages
  BY <1>c, OwnerLost, Zenon
<1>2. e.of \in {NoCR, c}
  BY DeclaredFields
<1>3. e.of # d
  BY <1>2, ConstantsAssumption, Zenon
<1>4. work[d].inst.cfg.explicit \in BOOLEAN
  <2>1. \A cfg \in Configs : cfg.explicit \in BOOLEAN
    BY ConstantsAssumption, ZenonT(90)
  <2>2. NoConfig.explicit \in BOOLEAN
    BY Zenon DEF NoConfig
  <2> QED
    BY <1>b, <2>1, <2>2, Zenon DEF AllConfigs
<1>5. work[d].pc \in ListedStages /\ work[d].inst.cfg.explicit /\ ~InUse(work[d], e)
  <2>1. PICK w : w = work[d]
    BY Zenon
  <2>2. TodoFits(d, w)
    BY <1>a, <2>1, Zenon DEF Progress
  <2> QED
    BY <1>1, <1>3, <1>4, <2>1, <2>2, ReleasedName, ZenonT(90)
<1>6. view[c].exists /\ ~view[c].deleting /\ view[c].cfg = api[c].cfg /\ c \notin queue
  BY <1>a, Zenon DEF Quiet, CacheFits
<1>7. Declared(c, view[c].cfg) \subseteq work[d].kept
  BY <1>a, <1>1, <1>5, <1>6, Zenon DEF SiblingsListed
<1> QED
  BY <1>5, <1>6, <1>7, ZenonT(90) DEF InUse, Has

\* A reconcile that ends with success has applied what the resource declares.
LEMMA QuietOwn ==
    ASSUME IInv, NEW c \in CRs, Steady(c), ReconcileStep(c), Quiet(c)',
           NEW e \in Declared(c, api'[c].cfg), e \notin api'[c].bad
    PROVE  Namespace[c] \in consul'[e].owners
<1>a. TypeOK /\ Current(c) /\ CacheFits(c) /\ TodoFits(c, work[c]) /\ ApplyFits(c, work[c])
  BY ZenonT(90) DEF IInv, ReconcileInv, Progress
<1>b. api \in [CRs -> Resource] /\ api[c] \in Resource
  BY <1>a, Zenon DEF TypeOK
<1>c. queue \subseteq queue'
  BY <1>a, ReconcileCache, Zenon
<1>d. /\ api'[c].exists /\ view[c].exists /\ c \notin queue' /\ work'[c].pc = "idle"
      /\ c \notin queue
  BY <1>c, ZenonT(90) DEF Quiet, Steady
<1>1. UpdateStatus(c)
  <2>1. ASSUME RemoveFinalizer(c) PROVE FALSE
    <3>1. Publish(c, Gone, {}) => api'[c] = Gone
      BY <1>b, Zenon DEF Publish
    <3>2. NotFound(c) /\ api' = api => ~api'[c].exists
      BY <1>d, ZenonT(90) DEF NotFound
    <3>3. ~Gone.exists
      BY Zenon DEF Gone
    <3> QED
      BY <1>d, <2>1, <3>1, <3>2, <3>3, Zenon DEF RemoveFinalizer
  <2> QED
    BY <1>a, <1>d, <2>1, ReconcileEnds, Zenon
<1> DEFINE w == work[c]
           bad == {x \in api[c].bad : x.kind \notin w.reached} \cup w.failed
           requeued == IF w.err THEN {c} ELSE {}
           ok == ~w.err
           o == [api[c] EXCEPT !.bad = bad, !.ok = ok, !.obs = api[c].gen]
<1>2. consul' = consul /\ work[c].pc = "status"
  BY <1>1, Zenon DEF UpdateStatus
<1>3. UpToDate(c) /\ Publish(c, o, requeued)
  <2>1. NotFound(c) /\ api' = api => ~api'[c].exists
    BY <1>d, Zenon DEF NotFound
  <2>2. (UpToDate(c) /\ Publish(c, o, requeued)) \/ (NotFound(c) /\ api' = api)
    BY <1>1, Zenon DEF UpdateStatus
  <2> QED
    BY <1>d, <2>1, <2>2, Zenon
<1>4. ~work[c].err
  <2>1. c \notin requeued
    BY <1>3, <1>d, Zenon DEF Publish
  <2> QED
    BY <2>1, Zenon
<1>5. api'[c].cfg = api[c].cfg /\ api'[c].bad = bad
  <2>1. api'[c] = o
    BY <1>3, <1>b, Zenon DEF Publish
  <2> HIDE DEF bad, ok
  <2> QED
    BY <2>1, <1>b, Zenon DEF Resource
<1>6. api[c].cfg = work[c].inst.cfg
  BY <1>a, <1>d, <1>2, <1>3, Zenon DEF Current, UpToDate
<1>7. e \in Declared(c, work[c].inst.cfg) /\ e \notin work[c].failed
  BY <1>5, <1>6, Zenon
<1>8. e.kind \in ReachedKinds(work[c].pc)
  BY <1>2, <1>7, DeclaredFields DEF ReachedKinds, Kinds
<1>9. work[c].pc \notin ApplyStages
  BY <1>2, Zenon DEF ApplyStages
<1>10. e \in work[c].done /\ Applying(work[c])
  BY <1>a, <1>2, <1>4, <1>7, <1>8, <1>9, Zenon DEF ApplyFits, Applying
<1> QED
  BY <1>a, <1>2, <1>10, Zenon DEF ApplyFits

LEMMA QuietStep ==
    ASSUME PoliciesRead, IInv, IInv', \A c \in CRs : QuietKept(c), Next
    PROVE  \A c \in CRs : QuietKept(c)'
<1> SUFFICES ASSUME NEW c \in CRs, Quiet(c)',
                    NEW e \in Declared(c, api'[c].cfg), e \notin api'[c].bad
             PROVE  Namespace[c] \in consul'[e].owners
  <2>1. ASSUME NEW c \in CRs, NEW x \in Declared(c, api'[c].cfg),
               Namespace[c] \in consul'[x].owners
        PROVE  consul'[x].present
    <3>1. api'[c].cfg \in AllConfigs
      BY Zenon DEF IInv, TypeOK, Resource, AllConfigs
    <3>2. x \in Entities
      BY <3>1, DeclaredEntities, Zenon
    <3> QED
      BY <2>1, <3>2, ZenonT(90) DEF IInv, OwnersFit
  <2> QED
    BY <2>1, Zenon DEF QuietKept
<1>a. /\ TypeOK /\ OneAtATime
      /\ \A d \in CRs : CacheFits(d)
      /\ CacheFits(c)'
  BY Zenon DEF IInv, ReconcileInv
<1>b. /\ api'[c].exists /\ ~api'[c].deleting /\ view'[c].exists /\ ~view'[c].deleting
      /\ c \notin queue' /\ work'[c].pc = "idle"
  BY <1>a, ZenonT(90) DEF Quiet, CacheFits
<1>c. work \in [CRs -> Reconcile]
  BY <1>a, Zenon DEF TypeOK
<1>1. ~Crash
  <2>1. Crash => queue' = {d \in CRs : api[d].exists} /\ api' = api
    BY Zenon DEF Crash
  <2> QED
    BY <1>b, <2>1, Zenon
<1>2. Steady(c) /\ (c \in queue => c \in queue' \/ Start(c))
  BY <1>a, <1>1, CacheStep, Zenon
<1>3. view[c].exists /\ ~view[c].deleting /\ view'[c].gen = view[c].gen
  BY <1>2, <1>b, Zenon DEF Steady
<1>4. ~Start(c)
  BY <1>a, <1>b, <1>3, StartNotIdle, ZenonT(90)
<1>5. c \notin queue
  BY <1>2, <1>4, <1>b, Zenon
<1>6. ASSUME api'[c] = api[c], work'[c] = work[c]
      PROVE  Quiet(c) /\ Namespace[c] \in consul[e].owners
  <2>1. Quiet(c)
    BY <1>b, <1>3, <1>5, <1>6, ZenonT(90) DEF Quiet
  <2> QED
    BY <1>6, <2>1, Zenon DEF QuietKept
<1>7. CASE ReconcileStep(c)
  BY <1>2, <1>7, QuietOwn, Zenon
<1>8. ASSUME NEW d \in CRs \ {c}, ReconcileStep(d) PROVE Namespace[c] \in consul'[e].owners
  <2>1. api'[c] = api[c] /\ work'[c] = work[c]
    BY <1>8, <1>a, ReconcileCache, ReconcileLocal, Zenon
  <2>2. Quiet(c) /\ Namespace[c] \in consul[e].owners
    BY <1>6, <2>1, Zenon
  <2>3. e \in Declared(c, api[c].cfg)
    BY <2>1, Zenon
  <2> QED
    BY <1>8, <2>2, <2>3, QuietOther, Zenon
<1>9. ASSUME NEW d \in CRs \ {c}, Start(d) PROVE Namespace[c] \in consul'[e].owners
  BY <1>9, <1>6, <1>c, Zenon DEF Start
<1>10. ASSUME NEW d \in CRs, Sync(d) \/ Create(d) \/ Edit(d) \/ Delete(d)
       PROVE  Namespace[c] \in consul'[e].owners
  <2>1. api'[c] = api[c]
    BY <1>10, <1>a, <1>2, SameResource, Zenon
  <2>2. work' = work /\ consul' = consul
    BY <1>10, Zenon DEF Sync, Create, Edit, Delete
  <2> QED
    BY <1>6, <2>1, <2>2, ZenonT(90)
<1>11. CASE EnsureAuthMethod
  BY <1>11, <1>6, Zenon DEF EnsureAuthMethod
<1> QED
  BY <1>1, <1>4, <1>7, <1>8, <1>9, <1>10, <1>11, Zenon DEF Next

\* What a resource declares stays in Consul with its namespace as an owner once
\* the operator is done with it, if no policy entry sets an ID: no reconcile or
\* deletion of a sibling or of a resource of another namespace takes it away.
THEOREM DeclaredStays == ASSUME PoliciesRead PROVE Spec => []DeclaredKept
<1> DEFINE QInv == IInv /\ \A c \in CRs : QuietKept(c)
<1>1. Init => QInv
  <2> SUFFICES ASSUME Init PROVE \A c \in CRs : ~api[c].exists
    BY InitInv, Zenon DEF QuietKept, Quiet
  <2> QED
    BY Zenon DEF Init, Gone
<1>2. QInv /\ [Next]_vars => QInv'
  <2> SUFFICES ASSUME QInv, [Next]_vars PROVE QInv'
    BY Zenon
  <2>1. IInv'
    BY InvStep, Zenon
  <2>2. CASE Next
    BY <2>1, <2>2, QuietStep, Zenon
  <2>3. CASE UNCHANGED vars
    <3>1. UNCHANGED <<api, view, queue, work, consul>>
      BY <2>3, Zenon DEF vars
    <3> QED
      BY <2>1, <3>1, Zenon DEF QuietKept, Quiet
  <2> QED
    BY <2>2, <2>3, Zenon
<1>3. QInv => DeclaredKept
  <2>1. Idle.pc = "idle"
    BY Zenon DEF Idle
  <2>2. ASSUME NEW c \in CRs, Settled(c) PROVE Quiet(c)
    BY <2>1, <2>2, Zenon DEF Settled, Quiet
  <2> QED
    BY <2>2, Zenon DEF DeclaredKept, QuietKept
<1> QED
  BY <1>1, <1>2, <1>3, PTL DEF Spec

-----------------------------------------------------------------------------
(* Links.                                                                  *)

\* The policies an entry names.
LEMMA NamedFields ==
    ASSUME NEW c, NEW cfg, NEW e, NEW p \in NamedPolicies(c, cfg, e)
    PROVE  /\ p.kind = "policy" /\ p.of = IF cfg.explicit THEN NoCR ELSE c
           /\ \E n : p = PolicyEntity(c, cfg, n) /\ n = p.name
<1>1. PICK n : p = PolicyEntity(c, cfg, n)
  BY Zenon DEF NamedPolicies
<1> QED
  BY <1>1, Zenon DEF PolicyEntity, Entity

LEMMA ReleaseLinks ==
    ASSUME TypeOK, NEW c \in CRs, NEW e \in Entities, consul' = AfterRelease(c, work[c], e),
           consul'[e].present, NEW x \in Entities \ {e}
    PROVE  consul'[x] = consul[x]
<1>1. consul' # Deleted({e})
  <2>1. consul' = Deleted({e}) => consul'[e] = Absent
    BY Zenon DEF Deleted
  <2>2. ~Absent.present
    BY Zenon DEF Absent
  <2> QED
    BY <2>1, <2>2, Zenon
<1>2. consul' = [consul EXCEPT ![e].owners = @ \ {Namespace[c]}]
  BY <1>1, ZenonT(90) DEF AfterRelease, Released
<1> QED
  BY <1>2, Zenon DEF TypeOK

\* A role is written with links to the policies it names, in so far as they exist.
LEMMA RoleLinks ==
    ASSUME TypeOK, NEW c \in CRs, NEW e \in Entities, e.kind = "role",
           consul' = [consul EXCEPT ![e] = Applied(c, work[c], e, {})],
           NEW p \in NamedPolicies(c, work[c].inst.cfg, e), p \in Entities, consul'[p].present
    PROVE  p \in consul'[e].links \/ (~work[c].inst.cfg.explicit /\ p \notin work[c].done)
<1>1. p # e
  BY NamedFields
<1>2. consul[p].present /\ consul'[e].links = PolicyLinks(c, work[c], e, {})
  BY <1>1, ApplyEffect, ZenonT(90)
<1>3. CASE p \in work[c].done
  BY <1>2, <1>3, Zenon DEF PolicyLinks
<1>4. CASE p \notin work[c].done /\ work[c].inst.cfg.explicit
  <2>1. p \in LookedUp(c, work[c], e)
    BY <1>4, Zenon DEF LookedUp
  <2> QED
    BY <1>2, <2>1, Zenon DEF PolicyLinks
<1> QED
  BY <1>3, <1>4, Zenon

LEMMA ApplyLinks ==
    ASSUME TypeOK, NEW c \in CRs, Progress(c), LinksFit(c, work[c]),
           work[c].pc \in ApplyStages, NEW x \in work[c].todo,
           work'[c].pc = work[c].pc, work'[c].inst = work[c].inst,
           \/ consul' = consul /\ work'[c].done = work[c].done
           \/ consul' = [consul EXCEPT ![x] = Applied(c, work[c], x, {})],
           \/ work'[c].done = work[c].done \cup {x} /\ work'[c].failed = work[c].failed
           \/ work'[c].done = work[c].done /\ work'[c].failed = work[c].failed \cup {x}
    PROVE  LinksFit(c, work[c])'
<1> DEFINE w == work[c]
           v == work'[c]
<1> SUFFICES ASSUME NEW e \in v.done, e.kind = "role", NEW p \in NamedPolicies(c, w.inst.cfg, e),
                    p \in Entities, p \notin v.failed, consul'[p].present
             PROVE  p \in consul'[e].links \/ (~w.inst.cfg.explicit /\ p \notin v.done)
  BY Zenon DEF LinksFit, OfKind
<1>a. w \in Reconcile /\ x \in Entities
  BY Zenon DEF TypeOK, Reconcile
<1>b. e \in Entities /\ Applying(w)
  <2>1. w.done \subseteq Entities
    BY <1>a, Zenon DEF Reconcile
  <2> QED
    BY <1>a, <2>1, Zenon DEF Applying
<1>c. p.kind = "policy"
  BY NamedFields
<1>d. e \in w.done /\ consul[p].present =>
          p \in consul[e].links \/ (~w.inst.cfg.explicit /\ p \notin w.done)
  BY <1>b, ZenonT(90) DEF LinksFit, OfKind
<1>1. CASE x = p
  <2>1. x \in OfKind(KindOf(w.pc), Declared(c, w.inst.cfg))
    BY ZenonT(90) DEF Progress, TodoFits
  <2>2. w.pc = "policies"
    BY <1>1, <1>c, <2>1, KindsOfStages, Zenon DEF OfKind, ApplyStages
  <2>3. e \notin w.done
    BY <1>b, <2>2, Zenon DEF Progress, ApplyFits
  <2> QED
    BY <1>1, <1>c, <2>3, Zenon
<1>2. CASE x = e
  <2>1. CASE consul' = consul /\ v.done = w.done
    BY <1>d, <2>1, ZenonT(90)
  <2>2. CASE consul' = [consul EXCEPT ![x] = Applied(c, w, x, {})]
    <3>1. p \in consul'[e].links \/ (~w.inst.cfg.explicit /\ p \notin w.done)
      BY <1>a, <1>2, <2>2, RoleLinks, ZenonT(90)
    <3> QED
      BY <1>2, <1>c, <3>1, Zenon
  <2> QED
    BY <2>1, <2>2, Zenon
<1>3. CASE x # p /\ x # e
  <2>1. consul'[p] = consul[p] /\ consul'[e] = consul[e]
    <3>1. consul' = [consul EXCEPT ![x] = Applied(c, w, x, {})]
            => \A y \in Entities \ {x} : consul'[y] = consul[y]
      BY <1>a, ApplyEffect
    <3> QED
      BY <1>3, <1>b, <3>1, Zenon
  <2>2. e \in w.done /\ (p \in v.done => p \in w.done)
    BY <1>3, Zenon
  <2> QED
    BY <1>d, <2>1, <2>2, Zenon
<1> QED
  BY <1>1, <1>2, <1>3, Zenon

LEMMA ReleasedLinks ==
    ASSUME TypeOK, NEW c \in CRs, Progress(c), LinksFit(c, work[c]),
           work[c].pc \in ReleaseStages, NEW x \in work[c].todo,
           consul' = AfterRelease(c, work[c], x),
           work'[c].inst = work[c].inst,
           work'[c].done = work[c].done, work'[c].failed = work[c].failed
    PROVE  LinksFit(c, work[c])'
<1> DEFINE w == work[c]
<1> SUFFICES ASSUME NEW e \in w.done, e.kind = "role", NEW p \in NamedPolicies(c, w.inst.cfg, e),
                    p \in Entities, p \notin w.failed, consul'[p].present
             PROVE  p \in consul'[e].links \/ (~w.inst.cfg.explicit /\ p \notin w.done)
  BY ZenonT(90) DEF LinksFit, OfKind
<1>a. e \in Entities /\ x \in Entities /\ Applying(w)
  BY Zenon DEF TypeOK, Reconcile, Applying
<1>b. e # x
  <2>1. PICK u : u = work[c]
    BY Zenon
  <2>2. TodoFits(c, u) /\ u.pc \in ReleaseStages /\ x \in u.todo
    BY <2>1, ZenonT(90) DEF Progress
  <2>3. x \notin Declared(c, u.inst.cfg)
    BY <2>2, ReleasedNotDone, Zenon
  <2>4. e \in Declared(c, w.inst.cfg)
    BY <1>a, Zenon DEF Progress, ApplyFits
  <2> QED
    BY <2>1, <2>3, <2>4, ZenonT(90)
<1>1. consul[p].present =>
          p \in consul[e].links \/ (~w.inst.cfg.explicit /\ p \notin w.done)
  BY <1>a, Zenon DEF LinksFit, OfKind
<1>2. CASE p = x
  <2>1. consul'[e] = consul[e]
    BY <1>2, <1>a, <1>b, ReleaseLinks, Zenon
  <2>2. consul[p].present
    BY <1>2, <1>a, ReleaseEffect, Zenon
  <2> QED
    BY <1>1, <2>1, <2>2, ZenonT(90)
<1>3. CASE p # x
  <2>1. consul[p].present /\ consul[e].links \ {x} \subseteq consul'[e].links
    BY <1>3, <1>a, <1>b, ReleaseEffect, ZenonT(90)
  <2> QED
    BY <1>1, <1>3, <2>1, Zenon
<1> QED
  BY <1>2, <1>3, Zenon

LEMMA ReconcileLinks ==
    ASSUME "lookup" \notin Faults, TypeOK, NEW c \in CRs, Progress(c), LinksFit(c, work[c]),
           ReconcileStep(c)
    PROVE  LinksFit(c, work[c])'
<1> DEFINE w == work[c]
<1>a. work \in [CRs -> Reconcile] /\ w \in Reconcile
  BY Zenon DEF TypeOK
<1>b. ~Applying(work'[c]) => LinksFit(c, work[c])'
  BY Zenon DEF LinksFit, Applying
<1>c. End(c) => LinksFit(c, work[c])'
  <2>1. End(c) => work'[c] = Idle
    BY <1>a, ZenonT(90) DEF End
  <2>2. ~Applying(Idle)
    BY Zenon DEF Idle, Applying, ApplyStages, ReleaseStages
  <2> QED
    BY <1>b, <2>1, <2>2, Zenon
<1>1. CASE UpdateStatus(c) \/ RemoveFinalizer(c) \/ UpdateFails(c)
  BY <1>1, <1>c, Zenon DEF UpdateStatus, RemoveFinalizer, UpdateFails
<1>2. CASE AddFinalizer(c)
  <2>1. w.done = {} /\ w.todo = {}
    BY <1>2, Zenon DEF AddFinalizer, Progress, TodoFits
  <2>2. PICK v : v = EnterApply(c, w)
    BY Zenon
  <2>3. work'[c] = v /\ consul' = consul
    BY <1>2, <1>a, <2>2, ZenonT(90) DEF AddFinalizer
  <2>4. LinksFit(c, v)
    BY <1>a, <2>1, <2>2, EnterApplyFits, Zenon
  <2> QED
    BY <2>3, <2>4, Zenon DEF LinksFit
<1>3. CASE ApplyEntity(c)
  <2>1. PICK e \in w.todo :
           /\ consul' = [consul EXCEPT ![e] = Applied(c, w, e, {})]
           /\ work' = [work EXCEPT ![c] = [w EXCEPT !.todo = @ \ {e}, !.done = @ \cup {e}]]
    BY <1>3, Zenon DEF ApplyEntity, Fault
  <2>2. work'[c] = [w EXCEPT !.todo = @ \ {e}, !.done = @ \cup {e}]
    BY <1>a, <2>1, Zenon
  <2>3. /\ work'[c].pc = w.pc /\ work'[c].inst = w.inst
        /\ work'[c].done = w.done \cup {e} /\ work'[c].failed = w.failed
    BY <1>a, <2>2, Zenon DEF Reconcile
  <2>4. w.pc \in ApplyStages
    BY <1>3, Zenon DEF ApplyEntity
  <2> QED
    BY <2>1, <2>3, <2>4, ApplyLinks, Zenon
<1>4. CASE ApplyFails(c)
  <2>1. PICK e \in w.todo :
           /\ \E t \in BOOLEAN : Skip(c, e, t)
           /\ consul' = consul \/ consul' = [consul EXCEPT ![e] = Applied(c, w, e, {})]
    BY <1>4, Zenon DEF ApplyFails
  <2>2. PICK t \in BOOLEAN :
           work'[c] = [w EXCEPT !.todo = @ \ {e}, !.failed = @ \cup {e}, !.err = @ \/ t]
    BY <1>a, <2>1, Zenon DEF Skip
  <2>3. /\ work'[c].pc = w.pc /\ work'[c].inst = w.inst
        /\ work'[c].done = w.done /\ work'[c].failed = w.failed \cup {e}
    BY <1>a, <2>2, Zenon DEF Reconcile
  <2>4. w.pc \in ApplyStages
    BY <1>4, Zenon DEF ApplyFails
  <2> QED
    BY <2>1, <2>3, <2>4, ApplyLinks, Zenon
<1>5. CASE ReleaseEntity(c)
  <2>1. PICK e \in w.todo : /\ consul' = AfterRelease(c, w, e)
                            /\ work'[c] = [w EXCEPT !.todo = @ \ {e}]
    BY <1>5, <1>a, Zenon DEF ReleaseEntity
  <2>2. /\ work'[c].pc = w.pc /\ work'[c].inst = w.inst
        /\ work'[c].done = w.done /\ work'[c].failed = w.failed
    BY <1>a, <2>1, Zenon DEF Reconcile
  <2>3. CASE w.pc \in ReleaseStages
    BY <2>1, <2>2, <2>3, ReleasedLinks, Zenon
  <2>4. CASE w.pc \in DeleteStages
    <3>1. ~Applying(work'[c])
      BY <2>2, <2>4, Zenon DEF Applying, ApplyStages, ReleaseStages, DeleteStages
    <3> QED
      BY <1>b, <3>1, Zenon
  <2> QED
    BY <1>5, <2>3, <2>4, Zenon DEF ReleaseEntity
<1>6. CASE LeaveStage(c)
  <2>1. PICK pc : /\ pc = IF w.err THEN "status" ELSE NextStage(w.pc)
                  /\ pc \in Pcs /\ w.pc \in AllStages
                  /\ work'[c] = Enter(c, w, pc) /\ consul' = consul
    BY <1>6, LeaveFields, Zenon
  <2>2. PICK v : v = Enter(c, w, pc)
    BY Zenon
  <2>3. /\ v.pc = pc /\ v.inst = w.inst /\ v.err = w.err
        /\ v.done = w.done /\ v.failed = w.failed
    BY <1>a, <2>1, <2>2, EnterKeeps
  <2>4. \/ w.pc \in ApplyStages \cup ReleaseStages /\ ~w.err
        \/ pc = "status" /\ w.err
        \/ pc \in DeleteStages \cup {"removeFinalizer"} /\ w.pc \in DeleteStages
    BY <2>1, Stages, Zenon DEF AllStages, ApplyStages, ReleaseStages, DeleteStages
  <2>5. CASE ~Applying(v)
    BY <1>b, <2>1, <2>2, <2>5, Zenon
  <2>6. CASE Applying(v)
    <3>1. Applying(w)
      BY <2>3, <2>4, <2>6, Zenon DEF Applying, ApplyStages, ReleaseStages, DeleteStages
    <3>2. LinksFit(c, v)
      BY <2>3, <3>1, Zenon DEF LinksFit
    <3> QED
      BY <2>1, <2>2, <3>2, ZenonT(90) DEF LinksFit
  <2> QED
    BY <2>5, <2>6, Zenon
<1>7. CASE StageFails(c)
  <2> DEFINE v == [w EXCEPT !.pc = "status", !.todo = {}, !.err = TRUE]
  <2>1. v.pc = "status" /\ v.err
    BY <1>a, Zenon DEF Reconcile
  <2>2. End(c) \/ work' = [work EXCEPT ![c] = v]
    BY <1>7, Zenon DEF StageFails
  <2> HIDE DEF v
  <2>3. ~Applying(v)
    BY <2>1, Zenon DEF Applying, ApplyStages, ReleaseStages
  <2> QED
    BY <1>a, <1>b, <1>c, <2>2, <2>3, Zenon
<1> QED
  BY <1>1, <1>2, <1>3, <1>4, <1>5, <1>6, <1>7, Zenon DEF ReconcileStep

LEMMA LinksStep ==
    ASSUME "lookup" \notin Faults, IInv, \A c \in CRs : LinksFit(c, work[c]), Next
    PROVE  \A c \in CRs : LinksFit(c, work[c])'
<1> SUFFICES ASSUME NEW c \in CRs PROVE LinksFit(c, work[c])'
  BY Zenon
<1>a. TypeOK /\ OneAtATime /\ Progress(c) /\ work \in [CRs -> Reconcile]
  BY Zenon DEF IInv, ReconcileInv, TypeOK
<1>b. work'[c] = work[c] /\ consul' = consul => LinksFit(c, work[c])'
  BY Zenon DEF LinksFit
<1>c. work'[c].pc = "idle" => LinksFit(c, work[c])'
  <2>1. work'[c].pc = "idle" => ~Applying(work'[c])
    BY Zenon DEF Applying, ApplyStages, ReleaseStages
  <2> QED
    BY <2>1, Zenon DEF LinksFit
<1>1. CASE ReconcileStep(c)
  BY <1>1, <1>a, ReconcileLinks, Zenon
<1>2. ASSUME NEW d \in CRs \ {c}, ReconcileStep(d) PROVE LinksFit(c, work[c])'
  <2>1. work'[c] = work[c] /\ work[d].pc # "idle"
    BY <1>2, <1>a, ReconcileLocal, Zenon
  <2>2. work'[c].pc = "idle"
    BY <1>a, <2>1, Zenon DEF OneAtATime
  <2> QED
    BY <1>c, <2>2, Zenon
<1>3. CASE Start(c)
  <2>1. CASE work'[c].pc = "idle"
    BY <1>c, <2>1, Zenon
  <2>2. CASE work'[c].pc = "addFinalizer"
    <3>1. ~Applying(work'[c])
      BY <2>2, Zenon DEF Applying, ApplyStages, ReleaseStages
    <3> QED
      BY <3>1, Zenon DEF LinksFit
  <2>3. ASSUME NEW w \in Reconcile, w.done = {}, w.todo = {}, work'[c] = EnterApply(c, w)
        PROVE  LinksFit(c, work[c])'
    <3>1. PICK v : v = EnterApply(c, w)
      BY Zenon
    <3>2. LinksFit(c, v)
      BY <1>a, <2>3, <3>1, EnterApplyFits, Zenon
    <3>3. consul' = consul
      BY <1>3, Zenon DEF Start
    <3> QED
      BY <2>3, <3>1, <3>2, <3>3, Zenon DEF LinksFit
  <2>4. ASSUME NEW w \in Reconcile, work'[c] = Enter(c, w, "delRules") PROVE LinksFit(c, work[c])'
    <3>1. "delRules" \in Pcs
      BY Zenon DEF AllStages, DeleteStages, Pcs
    <3>2. work'[c].pc = "delRules"
      BY <1>a, <2>4, <3>1, EnterKeeps
    <3>3. ~Applying(work'[c])
      BY <3>2, Zenon DEF Applying, ApplyStages, ReleaseStages
    <3> QED
      BY <3>3, Zenon DEF LinksFit
  <2> QED
    BY <1>3, <1>a, <2>1, <2>2, <2>3, <2>4, StartFields, ZenonT(90)
<1>4. ASSUME NEW d \in CRs \ {c}, Start(d) PROVE LinksFit(c, work[c])'
  BY <1>4, <1>a, <1>b, ZenonT(90) DEF Start
<1>5. CASE Crash
  <2>1. work'[c] = Idle
    BY <1>5, Zenon DEF Crash
  <2>2. Idle.pc = "idle"
    BY Zenon DEF Idle
  <2> QED
    BY <1>c, <2>1, <2>2, Zenon
<1>6. CASE UNCHANGED <<work, consul>>
  BY <1>6, <1>b, Zenon
<1> QED
  BY <1>1, <1>2, <1>3, <1>4, <1>5, <1>6, ZenonT(90)
     DEF Next, Sync, EnsureAuthMethod, Create, Edit, Delete

\* When applyACL succeeds with prefixed names, a policy that exists under the prefix
\* has been written by this reconcile: it is neither stale nor failed.
LEMMA PrefixedDone ==
    ASSUME NEW c \in CRs, NEW w, w.pc = "status", ~w.inst.cfg.explicit,
           TodoFits(c, w), ApplyFits(c, w), StaleFits(c, w), Applying(w),
           NEW e, NEW p \in NamedPolicies(c, w.inst.cfg, e),
           p \in Entities, p \notin w.failed, consul[p].present
    PROVE  p \in w.done
<1> SUFFICES ASSUME p \notin w.done PROVE FALSE
  BY Zenon
<1> DEFINE D == Declared(c, w.inst.cfg)
<1>1. p.kind = "policy" /\ p.of = c /\ \E n : p = PolicyEntity(c, w.inst.cfg, n) /\ n = p.name
  BY NamedFields
<1>2. p.kind \in ReachedKinds(w.pc) /\ w.pc \notin ApplyStages
  BY <1>1, Zenon DEF ReachedKinds, ApplyStages
<1>3. p \notin D
  BY <1>2, Zenon DEF ApplyFits
<1>4. ASSUME NEW d \in D, d.kind = p.kind, d.name = p.name PROVE FALSE
  <2>1. PICK n : d = PolicyEntity(c, w.inst.cfg, n)
    BY <1>1, <1>4, DeclaredPolicy
  <2>2. d.name = n
    BY <2>1, Zenon DEF PolicyEntity, Entity
  <2> QED
    BY <1>1, <1>3, <1>4, <2>1, <2>2, Zenon
<1>5. ~Has(D, p)
  BY <1>4, Zenon DEF Has
<1>6. "policy" \in ListedKinds(w.pc)
  BY Zenon DEF ListedKinds
<1>7. p \notin Stale(c, w, "policy")
  BY <1>6, Zenon DEF StaleFits, TodoFits
<1> QED
  BY <1>1, <1>5, <1>7, Zenon DEF Stale, OfKind

\* getPolicyLinks: when applyACL succeeds, the roles it wrote link to every policy
\* they name that exists in Consul, if no look-up of a policy fails.
THEOREM LinksHold == ASSUME "lookup" \notin Faults PROVE Spec => []LinksResolved
<1> DEFINE LInv == IInv /\ \A c \in CRs : LinksFit(c, work[c])
<1>1. Init => LInv
  <2> SUFFICES ASSUME Init, NEW c \in CRs PROVE ~Applying(work[c])
    BY InitInv, Zenon DEF LinksFit
  <2> QED
    BY Zenon DEF Init, Idle, Applying, ApplyStages, ReleaseStages
<1>2. LInv /\ [Next]_vars => LInv'
  <2> SUFFICES ASSUME LInv, [Next]_vars PROVE LInv'
    BY Zenon
  <2>1. IInv'
    BY InvStep, Zenon
  <2>2. CASE Next
    BY <2>1, <2>2, LinksStep, Zenon
  <2>3. CASE UNCHANGED vars
    <3>1. UNCHANGED <<work, consul>>
      BY <2>3, Zenon DEF vars
    <3> QED
      BY <2>1, <3>1, Zenon DEF LinksFit
  <2> QED
    BY <2>2, <2>3, Zenon
<1>3. LInv => LinksResolved
  <2> SUFFICES ASSUME LInv, NEW c \in CRs, work[c].pc = "status", ~work[c].err,
                      NEW e \in OfKind("role", work[c].done),
                      NEW p \in NamedPolicies(c, work[c].inst.cfg, e),
                      p \in Entities, p \notin work[c].failed, consul[p].present
               PROVE  p \in consul[e].links
    BY Zenon DEF LinksResolved
  <2> DEFINE w == work[c]
             D == Declared(c, w.inst.cfg)
  <2>a. TodoFits(c, w) /\ ApplyFits(c, w) /\ StaleFits(c, w) /\ Applying(w) /\ LinksFit(c, w)
    BY Zenon DEF IInv, ReconcileInv, Progress, Applying
  <2>1. p \in consul[e].links \/ (~w.inst.cfg.explicit /\ p \notin w.done)
    BY <2>a, ZenonT(90) DEF LinksFit
  <2>2. ~w.inst.cfg.explicit => p \in w.done
    BY <2>a, PrefixedDone, Zenon
  <2> QED
    BY <2>1, <2>2, Zenon
<1> QED
  BY <1>1, <1>2, <1>3, PTL DEF Spec
=============================================================================
