-------------------------- MODULE ConsulKVInvariants -------------------------
(* purgeOnDelete leaves nothing behind when one operator has all           *)
(* resources, and a resource that has the store to itself is reported as   *)
(* applied only with the values it declares.  For every value of the other *)
(* constants.  At the end: why a resource has one operator.                *)
EXTENDS ConsulKVTypes

-----------------------------------------------------------------------------
(* What the steps of a reconcile keep.                                     *)

\* A chunk that is left changes nothing but the chunk and what was read of it.
LEMMA LeaveChunkFields ==
    ASSUME NEW w \in Reconcile
    PROVE  LET l == LeaveChunk(w) IN
           /\ l.pc = w.pc /\ l.inst = w.inst /\ l.todo = w.todo /\ l.chunk = {}
           /\ l.committed = w.committed /\ l.err = w.err /\ l.released = w.released
  BY DEF LeaveChunk, Reconcile

\* Where a reconcile goes after its loop over batches, and with which error.
LEMMA AfterBatchesFields ==
    ASSUME NEW w \in Reconcile, NEW failed \in BOOLEAN
    PROVE  LET n == AfterBatches(w, failed) IN
           /\ w.pc = "apply" => n.pc = "remove" /\ n.todo = RemovedKeys(w.inst)
           /\ w.pc = "remove" => n.pc = "status" /\ n.todo = {}
           /\ w.pc \in {"apply", "remove"} =>
                n.inst = w.inst /\ n.chunk = {} /\ n.err = (w.err \/ failed)
           /\ w.pc \notin {"apply", "remove"} =>
                \/ n = Idle
                \/ n.pc = "partial" /\ n.inst = w.inst
                \/ n.pc = "removeFinalizer" /\ n.inst = w.inst /\ ~w.err /\ ~failed
<1> DEFINE left == [LeaveChunk(w) EXCEPT !.todo = {}, !.err = @ \/ failed]
<1>1. left \in Reconcile
  BY LeaveChunkType, Zenon DEF Reconcile
<1>2. /\ left.inst = w.inst /\ left.chunk = {} /\ left.todo = {}
      /\ left.err = (w.err \/ failed)
  BY LeaveChunkType, LeaveChunkFields DEF Reconcile
<1>3. AfterBatches(w, failed) =
        IF w.pc = "apply" THEN [left EXCEPT !.pc = "remove", !.todo = RemovedKeys(w.inst)]
        ELSE IF w.pc = "remove" THEN [left EXCEPT !.pc = "status"]
        ELSE IF ~left.err THEN [left EXCEPT !.pc = "removeFinalizer"]
        ELSE IF w.pc = "release" /\ w.released # {} THEN [left EXCEPT !.pc = "partial"]
        ELSE Idle
  BY Zenon DEF AfterBatches
<1> HIDE DEF left
<1>4. LET n == [left EXCEPT !.pc = "remove", !.todo = RemovedKeys(w.inst)] IN
      /\ n.pc = "remove" /\ n.todo = RemovedKeys(w.inst)
      /\ n.inst = left.inst /\ n.chunk = left.chunk /\ n.err = left.err
  BY <1>1 DEF Reconcile
<1>5. ASSUME NEW pc PROVE LET n == [left EXCEPT !.pc = pc] IN
      n.pc = pc /\ n.todo = left.todo /\ n.inst = left.inst /\ n.chunk = left.chunk /\ n.err = left.err
  BY <1>1 DEF Reconcile
<1>6. CASE w.pc = "apply"
  BY <1>2, <1>3, <1>4, <1>6
<1>7. CASE w.pc = "remove"
  BY <1>2, <1>3, <1>5, <1>7
<1>8. CASE w.pc \notin {"apply", "remove"}
  <2>1. CASE ~left.err
    <3>1. AfterBatches(w, failed) = [left EXCEPT !.pc = "removeFinalizer"]
      BY <1>3, <1>8, <2>1, Zenon
    <3>2. /\ [left EXCEPT !.pc = "removeFinalizer"].pc = "removeFinalizer"
          /\ [left EXCEPT !.pc = "removeFinalizer"].inst = left.inst
      BY <1>5, Zenon
    <3> QED
      BY <1>2, <1>8, <2>1, <3>1, <3>2, Zenon
  <2>2. CASE left.err
    <3>1. \/ AfterBatches(w, failed) = [left EXCEPT !.pc = "partial"]
          \/ AfterBatches(w, failed) = Idle
      BY <1>3, <1>8, <2>2, Zenon
    <3>2. CASE AfterBatches(w, failed) = [left EXCEPT !.pc = "partial"]
      <4>1. /\ [left EXCEPT !.pc = "partial"].pc = "partial"
            /\ [left EXCEPT !.pc = "partial"].inst = left.inst
        BY <1>5, Zenon
      <4> QED
        BY <1>2, <1>8, <3>2, <4>1, Zenon
    <3>3. CASE AfterBatches(w, failed) = Idle
      BY <1>8, <3>3, Zenon
    <3> QED
      BY <3>1, <3>2, <3>3, Zenon
  <2> QED
    BY <2>1, <2>2
<1> QED
  BY <1>6, <1>7, <1>8

\* How a reconcile begins.
LEMMA BeginFields ==
    ASSUME NEW o \in Resource
    PROVE  LET n == Begin(o) IN
           \/ n = Idle /\ (~o.exists \/ o.deleting)
           \/ /\ o.exists /\ n.inst = o /\ n.chunk = {} /\ n.committed = {} /\ n.err = FALSE
              /\ \/ /\ ~o.deleting /\ n.pc \in {"apply", "addFinalizer"}
                    /\ n.todo = ValidKeys(o.spec)
                 \/ /\ o.deleting /\ o.purge /\ n.pc = "purge"
                    /\ n.todo = StatusKeys(o.entries)
                 \/ o.deleting /\ ~o.purge /\ n.pc = "release"
<1>2. CASE ~o.exists \/ (o.deleting /\ ~o.fin)
  BY <1>2, Zenon DEF Begin
<1>3. CASE o.exists /\ ~o.deleting
  <2> DEFINE pc == IF o.fin THEN "apply" ELSE "addFinalizer"
             n == [Idle EXCEPT !.inst = o, !.pc = pc, !.todo = ValidKeys(o.spec)]
  <2>1. Begin(o) = n
    BY <1>3, Zenon DEF Begin
  <2>2. pc \in {"apply", "addFinalizer"}
    BY Zenon
  <2> HIDE DEF pc
  <2>3. /\ n.inst = o /\ n.pc = pc /\ n.todo = ValidKeys(o.spec)
        /\ n.chunk = {} /\ n.committed = {} /\ n.err = FALSE
    BY DEF Idle
  <2> HIDE DEF n
  <2> QED
    BY <1>3, <2>1, <2>2, <2>3, Zenon
<1>4. CASE o.exists /\ o.deleting /\ o.fin /\ o.purge
  <2> DEFINE n == [Idle EXCEPT !.inst = o, !.pc = "purge", !.todo = StatusKeys(o.entries)]
  <2>1. Begin(o) = n
    BY <1>4, Zenon DEF Begin
  <2>2. /\ n.inst = o /\ n.pc = "purge" /\ n.todo = StatusKeys(o.entries)
        /\ n.chunk = {} /\ n.committed = {} /\ n.err = FALSE
    BY DEF Idle
  <2> HIDE DEF n
  <2> QED
    BY <1>4, <2>1, <2>2, Zenon
<1>5. CASE o.exists /\ o.deleting /\ o.fin /\ ~o.purge
  <2> DEFINE n == [Idle EXCEPT !.inst = o, !.pc = "release", !.todo = OwnedStatusKeys(o.entries)]
  <2>1. Begin(o) = n
    BY <1>5, Zenon DEF Begin
  <2>2. /\ n.inst = o /\ n.pc = "release"
        /\ n.chunk = {} /\ n.committed = {} /\ n.err = FALSE
    BY DEF Idle
  <2> HIDE DEF n
  <2> QED
    BY <1>5, <2>1, <2>2, Zenon
<1> QED
  BY <1>2, <1>3, <1>4, <1>5, Zenon

-----------------------------------------------------------------------------
(* purgeOnDelete, when one operator has all resources.                     *)

\* Nothing is left of the keys K and of the trees below them.
AllGone(K) == \A k \in K : \A d \in Tree[k] \cup {k} : ~store[d].present

\* The reconciles take turns.
InTurn ==
    /\ \A c, d \in CRs : work[c].pc # "idle" /\ work[d].pc # "idle" => c = d
    /\ \A c \in CRs : work[c].pc = "idle" => work[c].chunk = {}

\* The keys of the status that deleteKVTree is done with are gone.
Purging(c) ==
    LET w == work[c] IN
    /\ w.pc = "release" => ~w.inst.purge
    /\ w.pc = "purge" => /\ \A k \in w.chunk \ Dirs : ~store[k].present
                         /\ ~w.err => AllGone(StatusKeys(w.inst.entries) \ (w.todo \cup w.chunk))
    /\ w.pc = "removeFinalizer" /\ w.inst.purge => AllGone(StatusKeys(w.inst.entries))

\* The inductive invariant.
PurgeInv == InTurn /\ \A c \in CRs : Purging(c)

\* Purging is about three stages of a reconcile only.
LEMMA NotPurging ==
    ASSUME NEW c, work'[c].pc \notin {"release", "purge", "removeFinalizer"}
    PROVE  Purging(c)'
  BY DEF Purging

\* The loop is left for the finalizer only without an error and with all keys done.
LEMMA LeavesPurging ==
    ASSUME TypeOK, NEW c \in CRs, Purging(c), NEW failed \in BOOLEAN, LeaveBatches(c, failed),
           UNCHANGED store \/ failed,
           ~failed => work[c].pc \in {"apply", "remove", "release", "purge"}
                      /\ work[c].todo = {} /\ work[c].chunk = {}
    PROVE  Purging(c)'
<1> DEFINE w == work[c]
           n == AfterBatches(w, failed)
<1>1. w \in Reconcile /\ work'[c] = n
  BY DEF TypeOK, LeaveBatches
<1>2. n.pc = "removeFinalizer" => /\ n.inst = w.inst /\ ~w.err /\ ~failed
                                  /\ w.pc \notin {"apply", "remove"}
  BY <1>1, AfterBatchesFields DEF Idle
<1>3. n.pc \notin {"release", "purge"}
  BY <1>1, AfterBatchesFields DEF Idle
<1> HIDE DEF n
<1>4. CASE n.pc = "removeFinalizer"
  <2>1. /\ w.pc \in {"release", "purge"} /\ ~w.err /\ w.todo = {} /\ w.chunk = {}
        /\ store' = store
    BY <1>2, <1>4
  <2>2. CASE w.pc = "release"
    BY <1>1, <1>2, <1>4, <2>2 DEF Purging
  <2>3. CASE w.pc = "purge"
    <3>1. AllGone(StatusKeys(w.inst.entries))
      <4>1. StatusKeys(w.inst.entries) \ (w.todo \cup w.chunk) = StatusKeys(w.inst.entries)
        BY <2>1
      <4>2. AllGone(StatusKeys(w.inst.entries) \ (w.todo \cup w.chunk))
        BY <2>1, <2>3 DEF Purging
      <4> QED
        BY <4>1, <4>2
    <3>2. work'[c].inst = w.inst /\ work'[c].pc = "removeFinalizer"
      BY <1>1, <1>2, <1>4
    <3>3. \A k \in StatusKeys(work'[c].inst.entries) : \A d \in Tree[k] \cup {k} : ~store'[d].present
      BY <2>1, <3>1, <3>2, Zenon DEF AllGone
    <3> QED
      BY <3>2, <3>3 DEF Purging, AllGone
  <2> QED
    BY <2>1, <2>2, <2>3
<1> QED
  BY <1>1, <1>3, <1>4, NotPurging

\* Outside purge, the reconcile only has to keep its place.
LEMMA StaysPurging ==
    ASSUME NEW c, Purging(c), work[c].pc \in {"apply", "remove", "release"},
           work'[c].pc = work[c].pc, work'[c].inst = work[c].inst
    PROVE  Purging(c)'
  BY Zenon DEF Purging

\* The reconcile goes on with its batches or keys.
GoesOn(c) ==
    /\ work[c].pc \in {"apply", "remove", "release", "purge"}
    /\ work'[c].pc = work[c].pc /\ work'[c].inst = work[c].inst
    /\ \A d \in CRs \ {c} : work'[d] = work[d]
    /\ UNCHANGED <<api, view, queue>>

\* The steps that do not leave a reconcile where it is.
LEMMA ReconcileKinds ==
    ASSUME TypeOK, NEW c \in CRs, ReconcileStep(c)
    PROVE  \/ AddFinalizer(c) \/ RemoveFinalizer(c) \/ UpdateFails(c) \/ UpdateStatus(c)
           \/ UpdatePartial(c) \/ RequestFails(c) \/ ReplyLost(c) \/ BatchesDone(c)
           \/ Reject(c) /\ LeaveBatches(c, TRUE)
           \/ GoesOn(c)
<1> DEFINE w == work[c]
<1>w. w \in Reconcile
  BY Zenon DEF TypeOK
<1>1. ASSUME NEW n, work' = [work EXCEPT ![c] = n], n.pc = w.pc, n.inst = w.inst,
             w.pc \in {"apply", "remove", "release", "purge"}, UNCHANGED <<api, view, queue>>
      PROVE  GoesOn(c)
  <2>1. work'[c] = n /\ \A d \in CRs \ {c} : work'[d] = work[d]
    BY <1>1, Zenon DEF TypeOK
  <2> QED
    BY <1>1, <2>1, Zenon DEF GoesOn
<1>2. CASE OpenChunk(c)
  <2>1. PICK s : work' = [work EXCEPT ![c] = [w EXCEPT !.chunk = s, !.todo = @ \ s, !.attempt = 0]]
    BY <1>2, Zenon DEF OpenChunk
  <2> DEFINE n == [w EXCEPT !.chunk = s, !.todo = @ \ s, !.attempt = 0]
  <2>2. n.pc = w.pc /\ n.inst = w.inst
    BY <1>w DEF Reconcile
  <2> QED
    BY <1>1, <1>2, <2>1, <2>2, Zenon DEF OpenChunk
<1>3. CASE ReadKey(c)
  <2>1. PICK k : work' = [work EXCEPT ![c] = [w EXCEPT !.seen = @ \cup {k}, !.reads[k] = store[k]]]
    BY <1>3, Zenon DEF ReadKey
  <2> DEFINE n == [w EXCEPT !.seen = @ \cup {k}, !.reads[k] = store[k]]
  <2>2. n.pc = w.pc /\ n.inst = w.inst
    BY <1>w DEF Reconcile
  <2> QED
    BY <1>1, <1>3, <2>1, <2>2, Zenon DEF ReadKey
<1>4. CASE Commit(c)
  <2>1. Record(w).pc = w.pc /\ Record(w).inst = w.inst
    BY <1>w, LeaveChunkType, LeaveChunkFields DEF Record, Reconcile
  <2> QED
    BY <1>1, <1>4, <2>1, Zenon DEF Commit, ChunkRead
<1>5. CASE Reject(c) /\ ~LeaveBatches(c, TRUE)
  <2>1. NextAttempt(w).pc = w.pc /\ NextAttempt(w).inst = w.inst
    BY <1>w DEF NextAttempt, Reconcile
  <2> QED
    BY <1>1, <1>5, <2>1, Zenon DEF Reject, ChunkRead
<1>6. CASE PurgeKey(c)
  <2>1. PICK k : work' = [work EXCEPT ![c] = [w EXCEPT !.todo = @ \ {k}, !.chunk = {k}]]
    BY <1>6, Zenon DEF PurgeKey
  <2> DEFINE n == [w EXCEPT !.todo = @ \ {k}, !.chunk = {k}]
  <2>2. n.pc = w.pc /\ n.inst = w.inst
    BY <1>w DEF Reconcile
  <2> QED
    BY <1>1, <1>6, <2>1, <2>2, Zenon DEF PurgeKey
<1>7. CASE PurgeTree(c)
  BY <1>1, <1>7, <1>w, LeaveChunkFields, Zenon DEF PurgeTree
<1>8. CASE PurgeFails(c)
  <2>1. LET n == [w EXCEPT !.chunk = {}, !.err = TRUE] IN n.pc = w.pc /\ n.inst = w.inst
    BY <1>w DEF Reconcile
  <2>2. \A k : LET n == [w EXCEPT !.todo = @ \ {k}, !.err = TRUE] IN n.pc = w.pc /\ n.inst = w.inst
    BY <1>w DEF Reconcile
  <2>3. PICK n : n.pc = w.pc /\ n.inst = w.inst /\ work' = [work EXCEPT ![c] = n]
    BY <1>8, <2>1, <2>2, Zenon DEF PurgeFails
  <2> QED
    BY <1>1, <1>8, <2>3, Zenon DEF PurgeFails
<1> QED
  BY <1>2, <1>3, <1>4, <1>5, <1>6, <1>7, <1>8, Zenon DEF ReconcileStep

\* What follows a loop over batches: nothing but the state of this reconcile and
\* the queue changes.
LEMMA LeaveKinds ==
    ASSUME TypeOK, NEW c \in CRs, NEW failed \in BOOLEAN, LeaveBatches(c, failed)
    PROVE  /\ \A d \in CRs \ {c} : work'[d] = work[d]
           /\ queue \subseteq queue'
           /\ \/ work'[c] = Idle /\ c \in queue'
              \/ work'[c].pc # "idle" /\ work'[c].inst = work[c].inst
<1> DEFINE w == work[c]
           n == AfterBatches(w, failed)
<1>1. w \in Reconcile /\ (\A d \in CRs \ {c} : work'[d] = work[d]) /\ work'[c] = n
  BY Zenon DEF LeaveBatches, TypeOK
<1>2. queue' = queue \cup (IF n = Idle THEN {c} ELSE {})
  BY Zenon DEF LeaveBatches
<1>3. n = Idle \/ (n.pc # "idle" /\ n.inst = w.inst)
  BY <1>1, AfterBatchesFields
<1> HIDE DEF n
<1> QED
  BY <1>1, <1>2, <1>3, Zenon

\* One step of a reconcile changes the state of that reconcile only, goes on with
\* the same instance, and ends idle.
LEMMA StepShape ==
    ASSUME TypeOK, NEW c \in CRs, work[c].pc = "idle" => work[c].chunk = {}, ReconcileStep(c)
    PROVE  /\ work[c].pc # "idle"
           /\ \A d \in CRs \ {c} : work'[d] = work[d]
           /\ \/ work'[c] = Idle
              \/ work'[c].pc # "idle" /\ work'[c].inst = work[c].inst
<1>1. CASE AddFinalizer(c)
  <2>1. /\ work[c] \in Reconcile /\ work[c].pc = "addFinalizer"
        /\ work' = [work EXCEPT ![c] = [work[c] EXCEPT !.pc = "apply"]]
    BY <1>1, Zenon DEF AddFinalizer, TypeOK
  <2>2. work'[c] = [work[c] EXCEPT !.pc = "apply"] /\ \A d \in CRs \ {c} : work'[d] = work[d]
    BY <2>1, Zenon DEF TypeOK
  <2> QED
    BY <2>1, <2>2 DEF Reconcile
<1>2. CASE RemoveFinalizer(c) \/ UpdateFails(c) \/ UpdateStatus(c) \/ UpdatePartial(c)
  <2>1. End(c) /\ work[c].pc # "idle"
    BY <1>2, Zenon DEF RemoveFinalizer, UpdateFails, UpdateStatus, UpdatePartial
  <2> QED
    BY <2>1, Zenon DEF End, TypeOK
<1>3. CASE RequestFails(c) \/ ReplyLost(c) \/ BatchesDone(c) \/ (Reject(c) /\ LeaveBatches(c, TRUE))
  <2>1. work[c].pc # "idle"
    BY <1>3, Zenon DEF RequestFails, ReplyLost, BatchesDone, Reject, ChunkRead
  <2>2. PICK failed \in BOOLEAN : LeaveBatches(c, failed)
    BY <1>3, Zenon DEF RequestFails, ReplyLost, BatchesDone
  <2> QED
    BY <2>1, <2>2, LeaveKinds, Zenon
<1>4. CASE GoesOn(c)
  BY <1>4, Zenon DEF GoesOn
<1> QED
  BY <1>1, <1>2, <1>3, <1>4, ReconcileKinds, Zenon

-----------------------------------------------------------------------------
\* The loop of deleteKVTree goes on.
LEMMA PurgeGoesOn ==
    ASSUME TypeOK, NEW c \in CRs, NEW n \in Reconcile, work' = [work EXCEPT ![c] = n],
           n.pc = "purge",
           \A k \in n.chunk \ Dirs : ~store'[k].present,
           ~n.err => \A k \in StatusKeys(n.inst.entries) \ (n.todo \cup n.chunk) :
                        \A d \in Tree[k] \cup {k} : ~store'[d].present
    PROVE  Purging(c)'
<1>1. work'[c] = n
  BY Zenon DEF TypeOK
<1>2. (\A k \in n.chunk \ Dirs : ~store[k].present)'
  BY Zenon
<1>3. ~n.err => AllGone(StatusKeys(n.inst.entries) \ (n.todo \cup n.chunk))'
  BY Zenon DEF AllGone
<1> QED
  BY <1>1, <1>2, <1>3, Zenon DEF Purging

\* Delete of the key itself, then of the tree below it; an error is remembered.
LEMMA PurgeSteps ==
    ASSUME TypeOK, NEW c \in CRs, Purging(c), PurgeKey(c) \/ PurgeTree(c) \/ PurgeFails(c)
    PROVE  Purging(c)'
<1> DEFINE w == work[c]
           mine == StatusKeys(w.inst.entries)
<1>w. w \in Reconcile /\ w.pc = "purge"
  BY Zenon DEF TypeOK, PurgeKey, PurgeTree, PurgeFails
<1>1. /\ \A k \in w.chunk \ Dirs : ~store[k].present
      /\ ~w.err => \A k \in mine \ (w.todo \cup w.chunk) : \A d \in Tree[k] \cup {k} : ~store[d].present
  BY <1>w, Zenon DEF Purging, AllGone
<1>2. mine \subseteq Keys /\ w.chunk \subseteq Keys /\ w.todo \subseteq Keys
  BY <1>w, Zenon DEF StatusKeys, Reconcile
<1> HIDE DEF mine
<1>3. CASE PurgeKey(c)
  <2>1. PICK k \in w.todo :
            /\ work' = [work EXCEPT ![c] = [w EXCEPT !.todo = @ \ {k}, !.chunk = {k}]]
            /\ IF k \in Dirs THEN UNCHANGED store ELSE store' = [store EXCEPT ![k] = Absent]
    BY <1>3, Zenon DEF PurgeKey, Write
  <2> DEFINE n == [w EXCEPT !.todo = @ \ {k}, !.chunk = {k}]
  <2>2. n \in Reconcile
    BY <1>w, ZenonT(60) DEF Reconcile
  <2>3. n.pc = "purge" /\ n.inst = w.inst /\ n.err = w.err /\ n.chunk = {k} /\ n.todo = w.todo \ {k}
    BY <1>w DEF Reconcile
  <2>4. w.chunk = {} /\ work' = [work EXCEPT ![c] = n]
    BY <1>3, <2>1, Zenon DEF PurgeKey
  <2> HIDE DEF n
  <2>5. \A d \in Keys : ~store[d].present \/ (d = k /\ k \notin Dirs) => ~store'[d].present
    <3>1. CASE k \in Dirs
      BY <2>1, <3>1, Zenon
    <3>2. CASE k \notin Dirs
      <4>1. store' = [store EXCEPT ![k] = Absent] /\ ~Absent.present
        BY <2>1, <3>2, Zenon DEF Absent
      <4>2. \A d \in Keys : store'[d] = IF d = k THEN Absent ELSE store[d]
        BY <4>1, Zenon DEF TypeOK
      <4> QED
        BY <4>1, <4>2, Zenon
    <3> QED
      BY <3>1, <3>2, Zenon
  <2>6. \A d \in n.chunk \ Dirs : ~store'[d].present
    BY <1>2, <2>3, <2>5, Zenon
  <2>7. ~n.err => \A i \in mine \ (n.todo \cup n.chunk) : \A d \in Tree[i] \cup {i} : ~store'[d].present
    <3>1. mine \ (n.todo \cup n.chunk) \subseteq mine \ (w.todo \cup w.chunk)
      BY <2>3, <2>4, Zenon
    <3>2. \A i \in mine : Tree[i] \cup {i} \subseteq Keys
      BY <1>2, ConstantsAssumption, Zenon
    <3> QED
      BY <1>1, <2>3, <2>5, <3>1, <3>2, Zenon
  <2> QED
    BY <2>2, <2>3, <2>4, <2>6, <2>7, PurgeGoesOn, Zenon DEF mine
<1>4. CASE PurgeTree(c)
  <2> DEFINE gone == UNION {Tree[k] : k \in w.chunk}
             n == LeaveChunk(w)
  <2>1. store' = [k \in Keys |-> IF k \in gone THEN Absent ELSE store[k]] /\ work' = [work EXCEPT ![c] = n]
    BY <1>4, Zenon DEF PurgeTree, Write
  <2>2. /\ n \in Reconcile /\ n.pc = "purge" /\ n.inst = w.inst /\ n.err = w.err
        /\ n.chunk = {} /\ n.todo = w.todo
    BY <1>w, LeaveChunkType, LeaveChunkFields, Zenon
  <2> HIDE DEF n
  <2>3. \A d \in Keys : ~store[d].present \/ d \in gone => ~store'[d].present
    <3> HIDE DEF gone
    <3> QED
      BY <2>1, Zenon DEF Absent
  <2>4. ~n.err => \A i \in mine \ (n.todo \cup n.chunk) : \A d \in Tree[i] \cup {i} : ~store'[d].present
    <3>1. SUFFICES ASSUME ~w.err, NEW i \in mine, i \notin w.todo, NEW d \in Tree[i] \cup {i}
                   PROVE  ~store'[d].present
      BY <2>2, Zenon
    <3>2. i \in Keys /\ d \in Keys
      BY <1>2, ConstantsAssumption, Zenon
    <3>3. CASE i \notin w.chunk
      BY <1>1, <2>3, <3>1, <3>2, <3>3, Zenon
    <3>4. CASE i \in w.chunk
      <4>1. CASE d \in Tree[i]
        BY <2>3, <3>2, <3>4, <4>1, Zenon
      <4>2. CASE d = i
        <5>1. CASE i \in Dirs
          <6>1. i \in Tree[i]
            BY <5>1, ConstantsAssumption, Zenon
          <6> QED
            BY <2>3, <3>2, <3>4, <4>2, <6>1, Zenon
        <5>2. CASE i \notin Dirs
          BY <1>1, <2>3, <3>2, <3>4, <4>2, <5>2, Zenon
        <5> QED
          BY <5>1, <5>2, Zenon
      <4> QED
        BY <3>1, <4>1, <4>2, Zenon
    <3> QED
      BY <3>3, <3>4, Zenon
  <2> HIDE DEF gone
  <2> QED
    BY <2>1, <2>2, <2>4, PurgeGoesOn, Zenon DEF mine
<1>5. CASE PurgeFails(c)
  <2>1. PICK n \in Reconcile : /\ n.pc = "purge" /\ n.err /\ n.chunk \in {{}, w.chunk}
                              /\ work' = [work EXCEPT ![c] = n]
    <3>1. LET n == [w EXCEPT !.chunk = {}, !.err = TRUE] IN
          n \in Reconcile /\ n.pc = "purge" /\ n.err /\ n.chunk = {}
      BY <1>w, Zenon DEF Reconcile
    <3>2. ASSUME NEW k
          PROVE LET n == [w EXCEPT !.todo = @ \ {k}, !.err = TRUE] IN
                n \in Reconcile /\ n.pc = "purge" /\ n.err /\ n.chunk = w.chunk
      BY <1>w, Zenon DEF Reconcile
    <3> QED
      BY <1>5, <3>1, <3>2, Zenon DEF PurgeFails
  <2>2. store' = store
    BY <1>5, Zenon DEF PurgeFails
  <2>3. \A k \in n.chunk \ Dirs : ~store'[k].present
    BY <1>1, <2>1, <2>2, Zenon
  <2> QED
    BY <2>1, <2>3, PurgeGoesOn, Zenon
<1> QED
  BY <1>3, <1>4, <1>5, Zenon

\* A step of the reconcile that purges.
LEMMA OwnPurge ==
    ASSUME TypeOK, NEW c \in CRs, Purging(c), ReconcileStep(c)
    PROVE  Purging(c)'
<1> DEFINE w == work[c]
<1>1. CASE AddFinalizer(c)
  <2>1. w \in Reconcile /\ work'[c] = [w EXCEPT !.pc = "apply"]
    BY <1>1, Zenon DEF AddFinalizer, TypeOK
  <2>2. work'[c].pc = "apply"
    BY <2>1 DEF Reconcile
  <2> QED
    BY <2>2, NotPurging, Zenon
<1>2. CASE RemoveFinalizer(c) \/ UpdateFails(c) \/ UpdateStatus(c) \/ UpdatePartial(c)
  <2>1. work'[c] = Idle
    BY <1>2, Zenon DEF RemoveFinalizer, UpdateFails, UpdateStatus, UpdatePartial, End, TypeOK
  <2> QED
    BY <2>1, NotPurging DEF Idle
<1>3. CASE RequestFails(c) \/ ReplyLost(c) \/ (Reject(c) /\ LeaveBatches(c, TRUE))
  <2>1. LeaveBatches(c, TRUE)
    BY <1>3, Zenon DEF RequestFails, ReplyLost
  <2> QED
    BY <2>1, LeavesPurging, Zenon
<1>4. CASE BatchesDone(c)
  BY <1>4, LeavesPurging, Zenon DEF BatchesDone
<1>5. CASE PurgeKey(c) \/ PurgeTree(c) \/ PurgeFails(c)
  BY <1>5, PurgeSteps, Zenon
<1>6. CASE w.pc = "purge" /\ ~BatchesDone(c)
  <2>1. PurgeKey(c) \/ PurgeTree(c) \/ PurgeFails(c)
    BY <1>6, Zenon DEF ReconcileStep, AddFinalizer, RemoveFinalizer, UpdateFails, OpenChunk, ReadKey,
                       Commit, Reject, RequestFails, ReplyLost, UpdateStatus, UpdatePartial, ChunkRead
  <2> QED
    BY <1>5, <2>1, Zenon
<1>7. CASE GoesOn(c) /\ w.pc # "purge"
  BY <1>7, StaysPurging, Zenon DEF GoesOn
<1> QED
  BY <1>1, <1>2, <1>3, <1>4, <1>6, <1>7, ReconcileKinds, Zenon

\* The resources belong to one operator.
OneOperator == \A c, d \in CRs : OwnedBy[c] = OwnedBy[d]

\* Who reconciles has the operator to itself.
LEMMA PurgeStep ==
    ASSUME AppKeys = {}, OneOperator, TypeOK, PurgeInv, [Next]_vars
    PROVE  PurgeInv'
<1>1. ASSUME NEW c \in CRs, Start(c) PROVE PurgeInv'
  <2> DEFINE n == Begin(view[c])
  <2>1. view[c] \in Resource
    BY Zenon DEF TypeOK
  <2>2. \A d \in CRs : work[d].pc = "idle" /\ work'[d] = IF d = c THEN n ELSE work[d]
    BY <1>1, Zenon DEF Start, OneOperator, TypeOK
  <2>3. /\ n.pc # "removeFinalizer" /\ n.chunk = {}
        /\ n.pc = "release" => ~n.inst.purge
        /\ n.pc = "purge" => n.todo = StatusKeys(n.inst.entries)
    <3>1. Idle.pc = "idle" /\ Idle.chunk = {}
      BY Zenon DEF Idle
    <3> QED
      BY <2>1, <3>1, BeginFields, Zenon
  <2> HIDE DEF n
  <2>4. Purging(c)'
    <3>1. (StatusKeys(n.inst.entries) \ (n.todo \cup n.chunk) = {})
            \/ n.pc # "purge"
      BY <2>3, Zenon
    <3>2. work'[c] = n
      BY <2>2, Zenon
    <3> QED
      BY <2>3, <3>1, <3>2, Zenon DEF Purging, AllGone
  <2>5. ASSUME NEW d \in CRs, d # c PROVE Purging(d)'
    <3>1. work'[d].pc = "idle"
      BY <2>2, <2>5, Zenon
    <3> QED
      BY <3>1, NotPurging
  <2>6. InTurn'
    BY <2>2, <2>3, Zenon DEF PurgeInv, InTurn
  <2> QED
    BY <2>4, <2>5, <2>6, Zenon DEF PurgeInv
<1>2. ASSUME NEW c \in CRs, ReconcileStep(c) PROVE PurgeInv'
  <2>1. work[c].pc = "idle" => work[c].chunk = {}
    BY Zenon DEF PurgeInv, InTurn
  <2>2. /\ work[c].pc # "idle"
        /\ \A d \in CRs \ {c} : work'[d] = work[d]
        /\ work'[c] = Idle \/ work'[c].pc # "idle"
    BY <1>2, <2>1, StepShape
  <2>3. \A d \in CRs \ {c} : work[d].pc = "idle" /\ work'[d] = work[d]
    BY <2>2, Zenon DEF PurgeInv, InTurn
  <2>4. Idle.chunk = {}
    BY Zenon DEF Idle
  <2>5. InTurn'
    BY <2>2, <2>3, <2>4, ZenonT(60) DEF PurgeInv, InTurn
  <2>6. Purging(c)'
    BY <1>2, OwnPurge, Zenon DEF PurgeInv
  <2>7. ASSUME NEW d \in CRs, d # c PROVE Purging(d)'
    <3>1. work'[d].pc = "idle"
      BY <2>3, <2>7, Zenon
    <3> QED
      BY <3>1, NotPurging
  <2> QED
    BY <2>5, <2>6, <2>7, Zenon DEF PurgeInv
<1>3. ASSUME NEW o \in Operators, Crash(o) PROVE PurgeInv'
  <2>1. \A c \in CRs : store' = store /\ work'[c] \in {Idle, work[c]}
    BY <1>3, Zenon DEF Crash
  <2>2. Idle.pc = "idle" /\ Idle.chunk = {}
    BY Zenon DEF Idle
  <2>3. InTurn'
    BY <2>1, <2>2, Zenon DEF PurgeInv, InTurn
  <2>4. ASSUME NEW c \in CRs PROVE Purging(c)'
    <3>1. CASE work'[c] = Idle
      BY <2>2, <3>1, NotPurging
    <3>2. CASE work'[c] = work[c]
      BY <2>1, <3>2, Zenon DEF Purging, AllGone, PurgeInv
    <3> QED
      BY <2>1, <3>1, <3>2, Zenon
  <2> QED
    BY <2>3, <2>4, Zenon DEF PurgeInv
<1>4. CASE UNCHANGED <<work, store>>
  BY <1>4, Zenon DEF PurgeInv, InTurn, Purging, AllGone
<1>5. ASSUME NEW c \in CRs, Sync(c) \/ Create(c) \/ Edit(c) \/ Delete(c) PROVE UNCHANGED <<work, store>>
  BY <1>5, Zenon DEF Sync, Create, Edit, Delete
<1> QED
  BY <1>1, <1>2, <1>3, <1>4, <1>5, Zenon DEF Next, vars

\* purgeOnDelete of one operator: whatever fails and however often the operator
\* restarts, the finalizer goes only when the keys and their trees are gone.
THEOREM PurgeComplete ==
    ASSUME AppKeys = {}, OneOperator
    PROVE  Spec => []PurgeLeavesNothing
<1>1. Init => PurgeInv
  <2>1. Idle.pc = "idle" /\ Idle.chunk = {}
    BY Zenon DEF Idle
  <2> QED
    BY <2>1, Zenon DEF Init, PurgeInv, InTurn, Purging
<1>2. TypeOK /\ PurgeInv /\ [Next]_vars => PurgeInv'
  BY PurgeStep, Zenon
<1>3. PurgeInv => PurgeLeavesNothing
  BY Zenon DEF PurgeInv, Purging, AllGone, PurgeLeavesNothing
<1> QED
  BY <1>1, <1>2, <1>3, TypeCorrect, PTL DEF Spec

-----------------------------------------------------------------------------
(* The values of a resource that is alone with its keys.                   *)

\* The keys K hold the last values spec declares for them.
Applied(spec, K) == \A k \in K : store[k].present /\ store[k].val = LastValue(spec, k)

\* The cache is never ahead of the API server, and a generation has one spec.
InStep(c) ==
    /\ Lagging \/ view[c] = api[c]
    /\ view[c].exists /\ api[c].exists =>
         /\ view[c].gen <= api[c].gen
         /\ view[c].gen = api[c].gen => view[c].spec = api[c].spec /\ view[c].deleting = api[c].deleting

\* A reconcile works on the cached generation, or another one will follow.
Fresh(c) ==
    work[c].pc # "idle" /\ c \notin queue =>
        view[c].exists /\ view[c].gen = work[c].inst.gen /\ view[c].spec = work[c].inst.spec

\* How far the reconcile has come with the values.
Written(c) ==
    LET w == work[c]
        valid == ValidKeys(w.inst.spec) IN
    /\ w.pc = "addFinalizer" => w.todo = valid /\ w.chunk = {} /\ w.committed = {} /\ ~w.err
    /\ w.pc = "apply" => /\ valid \subseteq w.todo \cup w.chunk \cup w.committed
                         /\ Applied(w.inst.spec, w.committed)
    /\ w.pc = "remove" => (w.todo \cup w.chunk) \cap valid = {}
    /\ w.pc \in {"remove", "status"} /\ ~w.err => Applied(w.inst.spec, valid)

\* The operator is done with the latest generation and reported success.
Settled(c) ==
    /\ work[c].pc = "idle" /\ c \notin queue /\ ~Triggers(view[c], api[c])
    /\ api[c].exists /\ ~api[c].deleting /\ api[c].ok /\ api[c].obs = api[c].gen

Done(c) == Settled(c) => Applied(api[c].spec, ValidKeys(api[c].spec))

\* The inductive invariant.
ValueInv ==
    \A c \in CRs : InStep(c) /\ Fresh(c) /\ Written(c) /\ Done(c)

OneResource == \A c, d \in CRs : c = d

\* Written is about four stages of a reconcile only.
LEMMA NotWriting ==
    ASSUME NEW c, work'[c].pc \notin {"addFinalizer", "apply", "remove", "status"}
    PROVE  Written(c)'
  BY Zenon DEF Written

\* Steps that leave the store and the progress of the values alone.
LEMMA StillWritten ==
    ASSUME NEW c, Written(c), store' = store,
           work'[c].pc = work[c].pc, work'[c].inst = work[c].inst, work'[c].err = work[c].err,
           work'[c].committed = work[c].committed,
           work'[c].todo \cup work'[c].chunk = work[c].todo \cup work[c].chunk,
           work[c].pc # "addFinalizer"
    PROVE  Written(c)'
  BY Zenon DEF Written, Applied

\* A loop over the chunks is left.
LEMMA LeavesWritten ==
    ASSUME TypeOK, NEW c \in CRs, Written(c), NEW failed \in BOOLEAN, LeaveBatches(c, failed),
           ~failed => store' = store /\ work[c].todo = {} /\ work[c].chunk = {}
    PROVE  Written(c)'
<1> DEFINE w == work[c]
           n == AfterBatches(w, failed)
           valid == ValidKeys(w.inst.spec)
<1>1. w \in Reconcile /\ work'[c] = n
  BY Zenon DEF TypeOK, LeaveBatches
<1>2. /\ w.pc = "apply" => n.pc = "remove" /\ n.todo = RemovedKeys(w.inst)
      /\ w.pc = "remove" => n.pc = "status"
      /\ w.pc \in {"apply", "remove"} =>
            n.inst = w.inst /\ n.chunk = {} /\ n.err = (w.err \/ failed)
      /\ w.pc \notin {"apply", "remove"} => n.pc \in {"idle", "partial", "removeFinalizer"}
  BY <1>1, AfterBatchesFields DEF Idle
<1> HIDE DEF n
<1>3. CASE w.pc \notin {"apply", "remove"}
  <2>1. n.pc \in {"idle", "partial", "removeFinalizer"}
    BY <1>2, <1>3, Zenon
  <2> QED
    BY <1>1, <2>1, NotWriting, Zenon
<1>4. CASE w.pc \in {"apply", "remove"}
  <2>1. n.inst = w.inst /\ n.chunk = {} /\ n.err = (w.err \/ failed)
    BY <1>2, <1>4, Zenon
  <2>2. n.pc \in {"remove", "status"}
    BY <1>2, <1>4, Zenon
  <2>3. n.pc = "remove" => (n.todo \cup n.chunk) \cap valid = {}
    <3>1. n.pc = "remove" => n.todo = RemovedKeys(w.inst)
      BY <1>2, <1>4
    <3>2. RemovedKeys(w.inst) \cap valid = {}
      BY Zenon DEF RemovedKeys, ValidKeys
    <3> QED
      BY <2>1, <3>1, <3>2, Zenon
  <2>4. ASSUME ~n.err PROVE Applied(w.inst.spec, valid) /\ store' = store
    <3>1. ~w.err /\ store' = store /\ w.todo = {} /\ w.chunk = {}
      BY <2>1, <2>4, Zenon
    <3>2. CASE w.pc = "apply"
      <4>1. valid \subseteq w.committed /\ Applied(w.inst.spec, w.committed)
        BY <3>1, <3>2, Zenon DEF Written
      <4> HIDE DEF valid
      <4> QED
        BY <3>1, <4>1, Zenon DEF Applied
    <3>3. CASE w.pc = "remove"
      BY <3>1, <3>3, Zenon DEF Written
    <3> QED
      BY <1>4, <3>2, <3>3, Zenon
  <2> HIDE DEF valid
  <2>5. ~n.err => \A k \in valid : store'[k].present /\ store'[k].val = LastValue(w.inst.spec, k)
    BY <2>4, Zenon DEF Applied
  <2> QED
    BY <1>1, <2>1, <2>2, <2>3, <2>5, Zenon DEF Written, Applied, valid
<1> QED
  BY <1>3, <1>4, Zenon

\* A chunk commits: writeKVChunk has written its values, deleteKVChunk touches
\* no key the resource still declares.
LEMMA CommitWrites ==
    ASSUME TypeOK, NEW c \in CRs, Written(c), Commit(c)
    PROVE  Written(c)'
<1> DEFINE w == work[c]
           n == Record(w)
           valid == ValidKeys(w.inst.spec)
<1>1. /\ w \in Reconcile /\ work'[c] = n /\ store' = TxnResult(w)
      /\ w.pc \in {"apply", "remove", "release"}
  BY Zenon DEF TypeOK, Commit, ChunkRead, Write
<1>2. /\ n.pc = w.pc /\ n.inst = w.inst /\ n.err = w.err /\ n.todo = w.todo /\ n.chunk = {}
      /\ n.committed = IF w.pc = "apply" THEN w.committed \cup w.chunk ELSE w.committed
  <2> DEFINE l == LeaveChunk(w)
  <2>1. /\ l \in Reconcile /\ l.pc = w.pc /\ l.inst = w.inst /\ l.err = w.err
        /\ l.todo = w.todo /\ l.chunk = {} /\ l.committed = w.committed
    BY <1>1, LeaveChunkType, LeaveChunkFields, Zenon
  <2>2. \/ /\ w.pc = "apply"
           /\ n = [l EXCEPT !.committed = @ \cup w.chunk, !.owns = @ \cup {k \in w.chunk : WillOwn(w, k)}]
        \/ w.pc # "apply" /\ n = [l EXCEPT !.released = @ \cup w.chunk]
    BY Zenon DEF Record
  <2> HIDE DEF l, n
  <2>3. CASE w.pc = "apply"
    BY <2>1, <2>2, <2>3, Zenon DEF Reconcile
  <2>4. CASE w.pc # "apply"
    BY <2>1, <2>2, <2>4 DEF Reconcile
  <2> QED
    BY <2>3, <2>4
<1> HIDE DEF n
<1>3. valid \subseteq Keys /\ w.chunk \subseteq Keys /\ w.committed \subseteq Keys
  BY <1>1, SpecType, Zenon DEF ValidKeys, Reconcile, Resource
<1> HIDE DEF valid
<1>4. CASE w.pc = "apply"
  <2>1. ASSUME NEW k \in w.committed \cup w.chunk
        PROVE  store'[k].present /\ store'[k].val = LastValue(w.inst.spec, k)
    <3>1. CASE k \in w.chunk
      <4>1. store'[k] = Target(w, k)
        BY <1>1, <1>3, <1>4, <3>1, Zenon DEF TxnResult, OpKeys
      <4>2. Target(w, k) = [present |-> TRUE, flags |-> NewFlags(w, k), val |-> LastValue(w.inst.spec, k)]
        BY <1>4, Zenon DEF Target
      <4>3. store'[k] = [present |-> TRUE, flags |-> NewFlags(w, k), val |-> LastValue(w.inst.spec, k)]
        BY <4>1, <4>2, Zenon
      <4> QED
        BY <4>3
    <3>2. CASE k \notin w.chunk
      <4>1. store'[k] = store[k]
        BY <1>1, <1>3, <1>4, <2>1, <3>2, Zenon DEF TxnResult, OpKeys
      <4> QED
        BY <1>4, <2>1, <3>2, <4>1, Zenon DEF Written, Applied
    <3> QED
      BY <3>1, <3>2, Zenon
  <2>2. valid \subseteq n.todo \cup n.chunk \cup n.committed
    BY <1>2, <1>4, Zenon DEF Written, valid
  <2>3. \A k \in n.committed : store'[k].present /\ store'[k].val = LastValue(w.inst.spec, k)
    BY <1>2, <1>4, <2>1, Zenon
  <2> QED
    BY <1>1, <1>2, <1>4, <2>2, <2>3, Zenon DEF Written, Applied, valid
<1>5. CASE w.pc = "remove"
  <2>1. (w.todo \cup w.chunk) \cap valid = {}
    BY <1>5, Zenon DEF Written, valid
  <2>2. \A k \in valid : store'[k] = store[k]
    BY <1>1, <1>3, <1>5, <2>1, Zenon DEF TxnResult, OpKeys
  <2>3. ~w.err => \A k \in valid : store'[k].present /\ store'[k].val = LastValue(w.inst.spec, k)
    BY <1>5, <2>2, Zenon DEF Written, Applied, valid
  <2>4. (n.todo \cup n.chunk) \cap valid = {}
    BY <1>2, <2>1, Zenon
  <2> QED
    BY <1>1, <1>2, <1>5, <2>3, <2>4, Zenon DEF Written, Applied, valid
<1>6. CASE w.pc = "release"
  BY <1>1, <1>2, <1>6, NotWriting, Zenon
<1> QED
  BY <1>1, <1>4, <1>5, <1>6, Zenon

\* A step of the reconcile that writes the values.
LEMMA OwnWritten ==
    ASSUME TypeOK, NEW c \in CRs, Written(c), ReconcileStep(c)
    PROVE  Written(c)'
<1> DEFINE w == work[c]
<1>w. w \in Reconcile
  BY Zenon DEF TypeOK
<1>1. CASE AddFinalizer(c)
  <2> DEFINE n == [w EXCEPT !.pc = "apply"]
  <2>1. work'[c] = n /\ w.pc = "addFinalizer" /\ store' = store
    BY <1>1, Zenon DEF AddFinalizer, TypeOK
  <2>2. /\ n.pc = "apply" /\ n.inst = w.inst /\ n.todo = w.todo
        /\ n.chunk = w.chunk /\ n.committed = w.committed
    BY <1>w DEF Reconcile
  <2>3. w.todo = ValidKeys(w.inst.spec) /\ w.committed = {}
    BY <2>1, Zenon DEF Written
  <2> HIDE DEF n
  <2>4. ValidKeys(n.inst.spec) \subseteq n.todo \cup n.chunk \cup n.committed
    BY <2>2, <2>3, Zenon
  <2>5. \A k \in n.committed : store'[k].present /\ store'[k].val = LastValue(n.inst.spec, k)
    BY <2>2, <2>3, Zenon
  <2> QED
    BY <2>1, <2>2, <2>4, <2>5, Zenon DEF Written, Applied
<1>2. CASE RemoveFinalizer(c) \/ UpdateFails(c) \/ UpdateStatus(c) \/ UpdatePartial(c)
  <2>1. work'[c] = Idle
    BY <1>2, Zenon DEF RemoveFinalizer, UpdateFails, UpdateStatus, UpdatePartial, End, TypeOK
  <2>2. work'[c].pc = "idle"
    BY <2>1 DEF Idle
  <2> QED
    BY <2>2, NotWriting, Zenon
<1>3. CASE OpenChunk(c)
  <2>1. PICK s \in SUBSET w.todo :
            work' = [work EXCEPT ![c] = [w EXCEPT !.chunk = s, !.todo = @ \ s, !.attempt = 0]]
    BY <1>3, Zenon DEF OpenChunk
  <2> DEFINE n == [w EXCEPT !.chunk = s, !.todo = @ \ s, !.attempt = 0]
  <2>2. /\ n.pc = w.pc /\ n.inst = w.inst /\ n.err = w.err /\ n.committed = w.committed
        /\ n.todo = w.todo \ s /\ n.chunk = s
    BY <1>w DEF Reconcile
  <2>3. work'[c] = n /\ store' = store /\ w.chunk = {} /\ w.pc # "addFinalizer"
    BY <1>3, <2>1, Zenon DEF OpenChunk, TypeOK
  <2> HIDE DEF n
  <2>4. n.todo \cup n.chunk = w.todo \cup w.chunk
    BY <2>2, <2>3
  <2> QED
    BY <2>2, <2>3, <2>4, StillWritten, Zenon
<1>4. CASE ReadKey(c)
  <2>1. PICK k : work' = [work EXCEPT ![c] = [w EXCEPT !.seen = @ \cup {k}, !.reads[k] = store[k]]]
    BY <1>4, Zenon DEF ReadKey
  <2> DEFINE n == [w EXCEPT !.seen = @ \cup {k}, !.reads[k] = store[k]]
  <2>2. /\ n.pc = w.pc /\ n.inst = w.inst /\ n.err = w.err /\ n.committed = w.committed
        /\ n.todo = w.todo /\ n.chunk = w.chunk
    BY <1>w DEF Reconcile
  <2>3. work'[c] = n /\ store' = store /\ w.pc # "addFinalizer"
    BY <1>4, <2>1, Zenon DEF ReadKey, TypeOK
  <2> HIDE DEF n
  <2> QED
    BY <2>2, <2>3, StillWritten, Zenon
<1>5. CASE Commit(c)
  BY <1>5, CommitWrites, Zenon
<1>6. CASE Reject(c)
  <2>1. CASE work' = [work EXCEPT ![c] = NextAttempt(w)]
    <3> DEFINE n == NextAttempt(w)
    <3>1. /\ n.pc = w.pc /\ n.inst = w.inst /\ n.err = w.err /\ n.committed = w.committed
          /\ n.todo = w.todo /\ n.chunk = w.chunk
      BY <1>w DEF Reconcile, NextAttempt
    <3>2. work'[c] = n /\ store' = store /\ w.pc # "addFinalizer"
      BY <1>6, <2>1, Zenon DEF Reject, ChunkRead, TypeOK
    <3> HIDE DEF n
    <3> QED
      BY <3>1, <3>2, StillWritten, Zenon
  <2>2. CASE LeaveBatches(c, TRUE)
    BY <2>2, LeavesWritten, Zenon
  <2> QED
    BY <1>6, <2>1, <2>2, Zenon DEF Reject
<1>7. CASE RequestFails(c) \/ ReplyLost(c)
  <2>1. LeaveBatches(c, TRUE)
    BY <1>7, Zenon DEF RequestFails, ReplyLost
  <2> QED
    BY <2>1, LeavesWritten, Zenon
<1>8. CASE BatchesDone(c)
  BY <1>8, LeavesWritten, Zenon DEF BatchesDone
<1>9. CASE PurgeKey(c) \/ PurgeTree(c) \/ PurgeFails(c)
  <2>1. w.pc = "purge"
    BY <1>9, Zenon DEF PurgeKey, PurgeTree, PurgeFails
  <2>2. CASE GoesOn(c)
    BY <2>1, <2>2, NotWriting, Zenon DEF GoesOn
  <2> QED
    BY <1>1, <1>2, <1>6, <1>7, <1>8, <2>2, ReconcileKinds, Zenon
<1> QED
  BY <1>1, <1>2, <1>3, <1>4, <1>5, <1>6, <1>7, <1>8, <1>9, Zenon DEF ReconcileStep

\* The API server stores a version that the cache is not ahead of.
LEMMA PublishInStep ==
    ASSUME TypeOK, NEW c \in CRs, NEW o \in Resource, NEW r, Publish(c, o, r), InStep(c),
           view[c].exists /\ o.exists =>
             /\ view[c].gen <= o.gen
             /\ view[c].gen = o.gen => view[c].spec = o.spec /\ view[c].deleting = o.deleting
    PROVE  InStep(c)'
<1>1. api'[c] = o /\ Lagging' = Lagging
  BY Zenon DEF Publish, TypeOK, Lagging
<1>2. CASE Lagging
  BY <1>1, <1>2, Zenon DEF Publish, InStep
<1>3. CASE ~Lagging
  <2>1. view'[c] = o
    BY <1>3, Zenon DEF Publish, TypeOK
  <2>2. o.gen <= o.gen
    BY DEF Resource
  <2> QED
    BY <1>1, <2>1, <2>2, Zenon DEF InStep
<1> QED
  BY <1>2, <1>3, Zenon

\* What a reconcile writes to its resource keeps the generation and the spec.
LEMMA OwnUpdate ==
    ASSUME TypeOK, NEW c \in CRs, NEW o \in Resource, NEW r, UpToDate(c), Publish(c, o, r), InStep(c),
           o.gen = api[c].gen, o.spec = api[c].spec, o.exists = api[c].exists,
           o.deleting = api[c].deleting
    PROVE  /\ InStep(c)' /\ queue \subseteq queue' /\ api'[c] = o
           /\ view'[c].exists /\ view'[c].gen = view[c].gen /\ view'[c].spec = view[c].spec
           /\ r \subseteq queue'
<1>1. view[c] = api[c] /\ view[c].exists /\ view[c].gen <= o.gen
  BY DEF UpToDate, TypeOK, Resource
<1>2. InStep(c)'
  BY <1>1, PublishInStep, Zenon
<1>3. api'[c] = o /\ queue \subseteq queue' /\ r \subseteq queue' /\ view'[c] \in {view[c], o}
  BY Zenon DEF Publish, TypeOK
<1> QED
  BY <1>1, <1>2, <1>3, Zenon

\* AddFinalizer, the status updates and the removal of the finalizer.
LEMMA UpdateValues ==
    ASSUME TypeOK, NEW c \in CRs, InStep(c), Fresh(c), Written(c),
           AddFinalizer(c) \/ RemoveFinalizer(c) \/ UpdateStatus(c) \/ UpdatePartial(c)
    PROVE  InStep(c)' /\ Fresh(c)' /\ Done(c)'
<1> DEFINE w == work[c]
<1>w. w \in Reconcile /\ api[c] \in Resource /\ Idle.pc = "idle"
  BY Zenon DEF TypeOK, Idle
<1>1. CASE AddFinalizer(c)
  <2> DEFINE o == [api[c] EXCEPT !.fin = TRUE]
             n == [w EXCEPT !.pc = "apply"]
  <2>1. /\ o \in Resource /\ o.gen = api[c].gen /\ o.spec = api[c].spec
        /\ o.exists = api[c].exists /\ o.deleting = api[c].deleting
    BY <1>w, Zenon DEF Resource
  <2>2. UpToDate(c) /\ Publish(c, o, {}) /\ w.pc = "addFinalizer" /\ work'[c] = n
    BY <1>1, Zenon DEF AddFinalizer, TypeOK
  <2>3. n.pc = "apply" /\ n.inst = w.inst
    BY <1>w DEF Reconcile
  <2> HIDE DEF o, n
  <2>4. /\ InStep(c)' /\ queue \subseteq queue'
        /\ view'[c].exists /\ view'[c].gen = view[c].gen /\ view'[c].spec = view[c].spec
    BY <2>1, <2>2, OwnUpdate, Zenon
  <2>5. Done(c)'
    BY <2>2, <2>3, Zenon DEF Done, Settled
  <2>6. Fresh(c)'
    BY <2>2, <2>3, <2>4, Zenon DEF Fresh
  <2> QED
    BY <2>4, <2>5, <2>6, Zenon
<1>2. CASE RemoveFinalizer(c)
  <2>1. Publish(c, Gone, {}) /\ Gone \in Resource /\ ~Gone.exists /\ work'[c] = Idle
    BY <1>2, GoneType, Zenon DEF RemoveFinalizer, End, TypeOK, Gone
  <2>2. InStep(c)'
    BY <2>1, PublishInStep, Zenon
  <2>3. api'[c] = Gone
    BY <2>1, Zenon DEF Publish, TypeOK
  <2> QED
    BY <1>w, <2>1, <2>2, <2>3, Zenon DEF Fresh, Done, Settled
<1>3. CASE UpdatePartial(c)
  <2> DEFINE m == MarkReleased(api[c].entries, w.released)
             o == [api[c] EXCEPT !.entries = m]
  <2>1. m \in [Keys -> Entry]
    BY <1>w, EntriesType, Zenon DEF Resource
  <2>2. Publish(c, o, {c}) /\ UpToDate(c) /\ work'[c] = Idle
    BY <1>3, Zenon DEF UpdatePartial, End, TypeOK
  <2> HIDE DEF m
  <2>3. /\ o \in Resource /\ o.gen = api[c].gen /\ o.spec = api[c].spec
        /\ o.exists = api[c].exists /\ o.deleting = api[c].deleting
    BY <1>w, <2>1 DEF Resource
  <2> HIDE DEF o
  <2>4. InStep(c)' /\ c \in queue'
    BY <2>2, <2>3, OwnUpdate, Zenon
  <2> QED
    BY <1>w, <2>2, <2>4, Zenon DEF Fresh, Done, Settled
<1>4. CASE UpdateStatus(c)
  <2> DEFINE m == MergeKVStatuses(api[c].entries, EntryStatuses(w), w.released)
             o == [api[c] EXCEPT !.entries = m, !.ok = ~w.err, !.obs = api[c].gen]
             r == IF w.err THEN {c} ELSE {}
  <2>1. m \in [Keys -> Entry]
    BY <1>w, EntriesType, Zenon DEF Resource
  <2>2. /\ Publish(c, o, r) /\ UpToDate(c) /\ w.pc = "status"
        /\ work'[c] = Idle /\ store' = store
    BY <1>4, Zenon DEF UpdateStatus, End, TypeOK
  <2> HIDE DEF m
  <2>3. /\ o \in Resource /\ o.gen = api[c].gen /\ o.spec = api[c].spec
        /\ o.exists = api[c].exists /\ o.deleting = api[c].deleting
    BY <1>w, <2>1, Zenon DEF Resource, Reconcile
  <2> HIDE DEF o
  <2>4. InStep(c)' /\ r \subseteq queue' /\ api'[c] = o /\ queue \subseteq queue'
    BY <2>2, <2>3, OwnUpdate, Zenon
  <2>5. ASSUME c \notin queue'
        PROVE  \A k \in ValidKeys(o.spec) : store'[k].present /\ store'[k].val = LastValue(o.spec, k)
    <3>1. c \notin queue /\ ~w.err
      BY <2>4, <2>5, Zenon
    <3>2. o.spec = w.inst.spec
      BY <2>2, <2>3, <3>1, Zenon DEF Fresh, UpToDate
    <3>3. Applied(w.inst.spec, ValidKeys(w.inst.spec))
      BY <2>2, <3>1, Zenon DEF Written
    <3>4. Applied(o.spec, ValidKeys(o.spec))
      BY <3>2, <3>3, Zenon
    <3> QED
      BY <2>2, <3>4, Zenon DEF Applied
  <2>6. Done(c)'
    BY <2>4, <2>5, Zenon DEF Done, Settled, Applied
  <2> QED
    BY <1>w, <2>2, <2>4, <2>6, Zenon DEF Fresh
<1> QED
  BY <1>1, <1>2, <1>3, <1>4, Zenon

\* Every other step of a reconcile goes on with the same instance, or ends in a
\* retry.
LEMMA OwnValues ==
    ASSUME TypeOK, NEW c \in CRs, InStep(c), Fresh(c), Written(c), ReconcileStep(c),
           work[c].pc = "idle" => work[c].chunk = {}
    PROVE  InStep(c)' /\ Fresh(c)' /\ Done(c)'
<1>1. CASE AddFinalizer(c) \/ RemoveFinalizer(c) \/ UpdateStatus(c) \/ UpdatePartial(c)
  BY <1>1, UpdateValues, Zenon
<1>2. ASSUME UNCHANGED <<api, view>>, queue \subseteq queue', work[c].pc # "idle",
             \/ work'[c] = Idle /\ c \in queue'
             \/ work'[c].pc # "idle" /\ work'[c].inst = work[c].inst
      PROVE  InStep(c)' /\ Fresh(c)' /\ Done(c)'
  <2>1. InStep(c)'
    BY <1>2, Zenon DEF InStep, Lagging
  <2>2. Idle.pc = "idle"
    BY Zenon DEF Idle
  <2>3. Fresh(c)'
    BY <1>2, <2>2, Zenon DEF Fresh
  <2>4. Done(c)'
    BY <1>2, Zenon DEF Done, Settled
  <2> QED
    BY <2>1, <2>3, <2>4, Zenon
<1>3. work[c].pc # "idle"
  BY StepShape
<1>4. CASE UpdateFails(c)
  BY <1>2, <1>3, <1>4, Zenon DEF UpdateFails, End, TypeOK
<1>5. CASE RequestFails(c) \/ ReplyLost(c) \/ BatchesDone(c) \/ (Reject(c) /\ LeaveBatches(c, TRUE))
  <2>1. PICK failed \in BOOLEAN : LeaveBatches(c, failed)
    BY <1>5, Zenon DEF RequestFails, ReplyLost, BatchesDone
  <2>2. UNCHANGED <<api, view>>
    BY <1>5, Zenon DEF RequestFails, ReplyLost, BatchesDone, Reject
  <2> QED
    BY <1>2, <1>3, <2>1, <2>2, LeaveKinds, Zenon
<1>6. CASE GoesOn(c)
  BY <1>2, <1>3, <1>6, Zenon DEF GoesOn
<1> QED
  BY <1>1, <1>4, <1>5, <1>6, ReconcileKinds, Zenon

\* Users change a resource only with a new generation, which asks for a reconcile.
LEMMA UserValues ==
    ASSUME TypeOK, NEW c \in CRs, InStep(c), Fresh(c),
           Create(c) \/ Edit(c) \/ Delete(c)
    PROVE  InStep(c)' /\ Fresh(c)' /\ Done(c)'
<1>t. api[c] \in Resource /\ view[c] \in Resource /\ Gone \in Resource
  BY GoneType, Zenon DEF TypeOK
<1>g. api[c].gen \in Nat /\ view[c].gen \in Nat
  BY <1>t, Zenon DEF Resource
<1>1. ASSUME NEW o \in Resource, Publish(c, o, {}), Triggers(api[c], o), work' = work,
             view[c].exists /\ o.exists => view[c].gen < o.gen
      PROVE  InStep(c)' /\ Fresh(c)' /\ Done(c)'
  <2>1. o.gen \in Nat
    BY Zenon DEF Resource
  <2>2. view[c].exists /\ o.exists => view[c].gen <= o.gen /\ view[c].gen # o.gen
    BY <1>g, <1>1, <2>1
  <2>3. InStep(c)'
    BY <1>1, <2>2, PublishInStep, Zenon
  <2>4. api'[c] = o
    BY <1>1, Zenon DEF Publish, TypeOK
  <2>5. CASE Lagging
    <3>1. view' = view /\ queue' = queue
      BY <1>1, <2>5, Zenon DEF Publish
    <3>2. Fresh(c)'
      BY <1>1, <3>1, Zenon DEF Fresh
    <3>3. o.exists => Triggers(view[c], o)
      BY <2>2, Zenon DEF Triggers
    <3>4. Done(c)'
      BY <2>4, <3>1, <3>3, Zenon DEF Done, Settled, Triggers
    <3> QED
      BY <2>3, <3>2, <3>4, Zenon
  <2>6. CASE ~Lagging
    <3>1. c \in queue'
      BY <1>1, <2>6, Zenon DEF Publish
    <3> QED
      BY <2>3, <3>1, Zenon DEF Fresh, Done, Settled
  <2> QED
    BY <2>5, <2>6, Zenon
<1>2. CASE Create(c)
  <2>1. PICK s \in Specs, p \in PurgeModes :
          Publish(c, [Gone EXCEPT !.exists = TRUE, !.gen = 1, !.spec = s, !.purge = p], {})
    BY <1>2, Zenon DEF Create
  <2> DEFINE o == [Gone EXCEPT !.exists = TRUE, !.gen = 1, !.spec = s, !.purge = p]
  <2>2. o \in Resource
    BY <1>t, ConstantsAssumption, Zenon DEF Resource
  <2>3. o.exists
    BY <1>t DEF Resource
  <2> HIDE DEF o
  <2>4. ~api[c].exists /\ ~view[c].exists /\ work' = work
    BY <1>2, Zenon DEF Create
  <2>5. Triggers(api[c], o)
    BY <2>3, <2>4, Zenon DEF Triggers
  <2>6. Publish(c, o, {})
    BY <2>1, Zenon DEF o
  <2> QED
    BY <1>1, <2>2, <2>4, <2>5, <2>6, Zenon
<1>3. ASSUME NEW o \in Resource, o.gen = api[c].gen + 1, Publish(c, o, {}), api[c].exists, work' = work
      PROVE  InStep(c)' /\ Fresh(c)' /\ Done(c)'
  <2>1. api[c].gen # o.gen
    BY <1>g, <1>3
  <2>2. view[c].exists => view[c].gen < o.gen
    BY <1>g, <1>3 DEF InStep
  <2>3. Triggers(api[c], o)
    BY <2>1, Zenon DEF Triggers
  <2> QED
    BY <1>1, <1>3, <2>2, <2>3, Zenon
<1>4. CASE Edit(c)
  <2>1. PICK s \in Specs, p \in PurgeModes :
          Publish(c, [api[c] EXCEPT !.gen = @ + 1, !.spec = s, !.purge = p], {})
    BY <1>4, Zenon DEF Edit
  <2> DEFINE o == [api[c] EXCEPT !.gen = @ + 1, !.spec = s, !.purge = p]
  <2>2. api[c].gen + 1 \in Nat /\ p \in BOOLEAN
    BY <1>g, ConstantsAssumption
  <2>3. o \in Resource
    BY <1>t, <2>2, Zenon DEF Resource
  <2>4. o.gen = api[c].gen + 1
    BY <1>t DEF Resource
  <2> HIDE DEF o
  <2>5. Publish(c, o, {})
    BY <2>1, Zenon DEF o
  <2> QED
    BY <1>3, <1>4, <2>3, <2>4, <2>5, Zenon DEF Edit
<1>5. CASE Delete(c)
  <2> DEFINE o == [api[c] EXCEPT !.deleting = TRUE, !.gen = @ + 1]
  <2>1. api[c].gen + 1 \in Nat
    BY <1>g
  <2>2. o \in Resource
    BY <1>t, <2>1, Zenon DEF Resource
  <2>3. o.gen = api[c].gen + 1
    BY <1>t DEF Resource
  <2>4. Publish(c, o, {}) \/ Publish(c, Gone, {})
    BY <1>5, Zenon DEF Delete
  <2> HIDE DEF o
  <2>5. api[c].exists /\ work' = work
    BY <1>5, Zenon DEF Delete
  <2>6. CASE Publish(c, o, {})
    BY <1>3, <2>2, <2>3, <2>5, <2>6, Zenon
  <2>7. CASE Publish(c, Gone, {})
    <3>1. ~Gone.exists
      BY Zenon DEF Gone
    <3>2. Triggers(api[c], Gone)
      BY <2>5, <3>1, Zenon DEF Triggers
    <3> QED
      BY <1>t, <1>1, <2>5, <2>7, <3>1, <3>2, Zenon
  <2> QED
    BY <2>4, <2>6, <2>7, Zenon
<1> QED
  BY <1>2, <1>4, <1>5, Zenon

\* A reconcile begins with the cached resource.
LEMMA StartValues ==
    ASSUME TypeOK, NEW c \in CRs, InStep(c), Done(c), Start(c)
    PROVE  InStep(c)' /\ Fresh(c)' /\ Written(c)' /\ Done(c)'
<1> DEFINE n == Begin(view[c])
<1>1. /\ view[c] \in Resource /\ work'[c] = n
      /\ UNCHANGED <<api, view, store>>
  BY Zenon DEF Start, TypeOK
<1>2. \/ n = Idle /\ (~view[c].exists \/ view[c].deleting)
      \/ /\ view[c].exists /\ n.inst = view[c]
         /\ n.chunk = {} /\ n.committed = {} /\ n.err = FALSE
         /\ \/ n.pc \in {"apply", "addFinalizer"} /\ n.todo = ValidKeys(view[c].spec)
            \/ n.pc \in {"purge", "release"}
  BY <1>1, BeginFields, Zenon
<1> HIDE DEF n
<1>3. Idle.pc = "idle"
  BY Zenon DEF Idle
<1>4. InStep(c)'
  BY <1>1, Zenon DEF InStep, Lagging
<1>5. Fresh(c)'
  BY <1>1, <1>2, <1>3, Zenon DEF Fresh
<1>6. Done(c)'
  <2>1. CASE n = Idle
    <3>1. api[c].exists /\ ~api[c].deleting => Triggers(view[c], api[c])
      BY <1>2, <1>3, <2>1, Zenon DEF InStep, Triggers
    <3> QED
      BY <1>1, <3>1, Zenon DEF Done, Settled, Triggers
  <2>2. CASE n # Idle
    <3>1. n.pc # "idle"
      BY <1>2, <2>2, Zenon
    <3> QED
      BY <1>1, <3>1, Zenon DEF Done, Settled
  <2> QED
    BY <2>1, <2>2, Zenon
<1>7. Written(c)'
  <2>1. CASE n.pc \notin {"apply", "addFinalizer"}
    <3>1. n.pc \in {"idle", "purge", "release"}
      BY <1>2, <1>3, <2>1, Zenon
    <3> QED
      BY <1>1, <3>1, NotWriting, Zenon
  <2>2. CASE n.pc \in {"apply", "addFinalizer"}
    <3>1. /\ n.todo = ValidKeys(n.inst.spec) /\ n.chunk = {} /\ n.committed = {} /\ ~n.err
      BY <1>2, <1>3, <2>2, Zenon
    <3>2. ValidKeys(n.inst.spec) \subseteq n.todo \cup n.chunk \cup n.committed
      BY <3>1, Zenon
    <3>3. \A k \in n.committed : store'[k].present /\ store'[k].val = LastValue(n.inst.spec, k)
      BY <3>1, Zenon
    <3> QED
      BY <1>1, <2>2, <3>1, <3>2, <3>3, Zenon DEF Written, Applied
  <2> QED
    BY <2>1, <2>2, Zenon
<1> QED
  BY <1>4, <1>5, <1>6, <1>7, Zenon

\* The watch catches up.
LEMMA SyncValues ==
    ASSUME TypeOK, NEW c \in CRs, InStep(c), Fresh(c), Written(c), Done(c), Sync(c)
    PROVE  InStep(c)' /\ Fresh(c)' /\ Written(c)' /\ Done(c)'
<1>1. /\ view'[c] = api[c] /\ api' = api /\ work' = work /\ store' = store
      /\ queue' = queue \cup (IF Triggers(view[c], api[c]) THEN {c} ELSE {})
  BY Zenon DEF Sync, Deliver, TypeOK
<1>2. api[c].gen <= api[c].gen
  BY DEF TypeOK, Resource
<1>3. InStep(c)'
  BY <1>1, <1>2, Zenon DEF InStep
<1>4. Written(c)'
  BY <1>1, Zenon DEF Written, Applied
<1>5. CASE Triggers(view[c], api[c])
  <2>1. c \in queue'
    BY <1>1, <1>5, Zenon
  <2> QED
    BY <1>3, <1>4, <2>1, Zenon DEF Fresh, Done, Settled
<1>6. CASE ~Triggers(view[c], api[c])
  <2>1. queue' = queue /\ view[c].exists = api[c].exists /\ view[c].gen = api[c].gen
    <3>1. api[c] \in Resource /\ view[c] \in Resource
      BY Zenon DEF TypeOK
    <3>2. view[c].exists \in BOOLEAN /\ api[c].exists \in BOOLEAN
      BY <3>1, Zenon DEF Resource
    <3> QED
      BY <1>1, <1>6, <3>2, Zenon DEF Triggers
  <2>2. Fresh(c)'
    BY <1>1, <2>1, Zenon DEF Fresh, InStep
  <2>3. Done(c)'
    BY <1>1, <1>6, <2>1, Zenon DEF Done, Settled, Applied
  <2> QED
    BY <1>3, <1>4, <2>2, <2>3, Zenon
<1> QED
  BY <1>5, <1>6, Zenon

\* A restart drops the reconcile, fills the cache and queues the resource.
LEMMA CrashValues ==
    ASSUME TypeOK, NEW c \in CRs, InStep(c), Fresh(c), Written(c), Done(c),
           NEW o \in Operators, Crash(o)
    PROVE  InStep(c)' /\ Fresh(c)' /\ Written(c)' /\ Done(c)'
<1>1. CASE OwnedBy[c] = o
  <2>1. /\ work'[c] = Idle /\ view'[c] = api[c] /\ api' = api
        /\ api[c].exists => c \in queue'
    BY <1>1, Zenon DEF Crash
  <2>2. work'[c].pc = "idle"
    BY <2>1 DEF Idle
  <2>3. api[c].gen <= api[c].gen
    BY DEF TypeOK, Resource
  <2>4. InStep(c)'
    BY <2>1, <2>3, Zenon DEF InStep
  <2>5. Fresh(c)' /\ Done(c)'
    BY <2>1, <2>2, Zenon DEF Fresh, Done, Settled
  <2> QED
    BY <2>2, <2>4, <2>5, NotWriting, Zenon
<1>2. CASE OwnedBy[c] # o
  <2>1. /\ work'[c] = work[c] /\ view'[c] = view[c] /\ api' = api /\ store' = store
        /\ c \in queue' <=> c \in queue
    BY <1>2, Zenon DEF Crash
  <2>2. InStep(c)'
    BY <2>1, Zenon DEF InStep, Lagging
  <2>3. Fresh(c)' /\ Written(c)'
    BY <2>1, Zenon DEF Fresh, Written, Applied
  <2>4. Done(c)'
    BY <2>1, Zenon DEF Done, Settled, Applied, Triggers
  <2> QED
    BY <2>2, <2>3, <2>4, Zenon
<1> QED
  BY <1>1, <1>2, Zenon

\* Nothing but the one resource writes its keys.
LEMMA ValueStep ==
    ASSUME AppKeys = {}, OneResource, TypeOK, InTurn, ValueInv, [Next]_vars
    PROVE  ValueInv'
<1>1. SUFFICES ASSUME NEW c \in CRs PROVE InStep(c)' /\ Fresh(c)' /\ Written(c)' /\ Done(c)'
  BY Zenon DEF ValueInv
<1>2. InStep(c) /\ Fresh(c) /\ Written(c) /\ Done(c)
  BY Zenon DEF ValueInv
<1>3. work[c].pc = "idle" => work[c].chunk = {}
  BY Zenon DEF InTurn
<1>4. CASE Start(c)
  BY <1>2, <1>4, StartValues, Zenon
<1>5. CASE ReconcileStep(c)
  <2>1. Written(c)'
    BY <1>2, <1>5, OwnWritten, Zenon
  <2>2. InStep(c)' /\ Fresh(c)' /\ Done(c)'
    BY <1>2, <1>3, <1>5, OwnValues
  <2> QED
    BY <2>1, <2>2, Zenon
<1>6. CASE Sync(c)
  BY <1>2, <1>6, SyncValues, Zenon
<1>7. ASSUME NEW o \in Operators, Crash(o) PROVE InStep(c)' /\ Fresh(c)' /\ Written(c)' /\ Done(c)'
  BY <1>2, <1>7, CrashValues, Zenon
<1>8. CASE Create(c) \/ Edit(c) \/ Delete(c)
  <2>1. Written(c)'
    BY <1>2, <1>8, Zenon DEF Written, Applied, Create, Edit, Delete
  <2> QED
    BY <1>2, <1>8, <2>1, UserValues, Zenon
<1>9. CASE UNCHANGED vars
  BY <1>2, <1>9, ZenonT(60) DEF vars, InStep, Fresh, Written, Done, Settled, Applied, Triggers, Lagging
<1> QED
  BY <1>4, <1>5, <1>6, <1>7, <1>8, <1>9, Zenon DEF Next, OneResource

\* applyKVEntries and its retries: a resource that has the store to itself, and
\* is reported as applied for its latest generation, has the last value declared
\* for each key in the store, whatever failed on the way.
THEOREM ReportedIsApplied ==
    ASSUME AppKeys = {}, OneResource
    PROVE  Spec => []ValuesApplied
<1>1. OneOperator
  BY Zenon DEF OneResource, OneOperator
<1>2. Init => PurgeInv /\ ValueInv
  <2>1. Idle.pc = "idle" /\ Idle.chunk = {} /\ ~Gone.exists
    BY Zenon DEF Idle, Gone
  <2>2. Init => PurgeInv
    BY <2>1, Zenon DEF Init, PurgeInv, InTurn, Purging
  <2>3. Init => ValueInv
    BY <2>1, Zenon DEF Init, ValueInv, InStep, Fresh, Written, Done, Settled
  <2> QED
    BY <2>2, <2>3, Zenon
<1>3. TypeOK /\ PurgeInv /\ ValueInv /\ [Next]_vars => (PurgeInv /\ ValueInv)'
  BY <1>1, PurgeStep, ValueStep, Zenon DEF PurgeInv
<1>4. TypeOK /\ ValueInv => ValuesApplied
  <2>1. SUFFICES ASSUME TypeOK, ValueInv, NEW c \in CRs,
                        api[c].exists /\ ~api[c].deleting /\ api[c].ok /\ api[c].obs = api[c].gen,
                        view[c] = api[c] /\ c \notin queue /\ work[c].pc = "idle",
                        NEW i \in DOMAIN api[c].spec, api[c].spec[i].key # EmptyKey,
                        \A j \in DOMAIN api[c].spec : j > i => api[c].spec[j].key # api[c].spec[i].key
                 PROVE  /\ store[api[c].spec[i].key].present
                        /\ store[api[c].spec[i].key].val = api[c].spec[i].val
    BY Zenon DEF ValuesApplied
  <2> DEFINE spec == api[c].spec
             k == spec[i].key
  <2>2. Applied(spec, ValidKeys(spec))
    BY <2>1, Zenon DEF ValueInv, Done, Settled, Triggers
  <2>3. k \in ValidKeys(spec)
    BY <2>1, Zenon DEF ValidKeys, Declared
  <2>4. LastIndex(spec, k) = {i}
    <3>1. DOMAIN spec \subseteq Nat
      <4>1. spec \in Specs \cup {<<>>}
        BY <2>1, Zenon DEF TypeOK, Resource
      <4>2. CASE spec \in Specs
        <5>1. spec \in Seq([key : Keys, val : Values])
          BY <4>2, ConstantsAssumption, Zenon
        <5> HIDE DEF spec
        <5> QED
          BY <5>1
      <4>3. CASE spec = <<>>
        <5> HIDE DEF spec
        <5> QED
          BY <4>3
      <4> QED
        BY <4>1, <4>2, <4>3, Zenon
    <3>2. \A j \in DOMAIN spec : spec[j].key = k => j <= i
      BY <2>1, <3>1
    <3>3. \A j \in DOMAIN spec : (spec[j].key = k /\ i <= j) => j = i
      BY <3>1, <3>2
    <3> QED
      BY <3>2, <3>3, Zenon DEF LastIndex
  <2>5. LastValue(spec, k) = spec[i].val
    BY <2>4, Zenon DEF LastValue
  <2> QED
    BY <2>2, <2>3, <2>5, Zenon DEF Applied
<1> QED
  BY <1>2, <1>3, <1>4, TypeCorrect, PTL DEF Spec

-----------------------------------------------------------------------------
(* The operator of a resource.                                             *)

\* The namespaces of the resources and the configuration of the operators.
Scope(Namespace, OperatorNamespace, NoName, Strict, AllNamespaces, WatchNamespaces) ==
    INSTANCE OperatorScope WITH Empty <- NoName

\* The cache filter of main.go hides nothing that the predicate of the
\* controllers would accept: an operator that watches all namespaces
\* reconciles every resource it owns, with and without strict validation.
THEOREM NothingMissed ==
    ASSUME NEW Namespace, NEW OperatorNamespace, NEW NoName, NEW Strict,
           NEW AllNamespaces, NEW WatchNamespaces,
           NEW o \in Operators, NEW c \in CRs, AllNamespaces[o],
           Scope(Namespace, OperatorNamespace, NoName, Strict, AllNamespaces,
                 WatchNamespaces)!IsOwnedByOperator(c, o)
    PROVE  Scope(Namespace, OperatorNamespace, NoName, Strict, AllNamespaces,
                 WatchNamespaces)!Reconciles(o, c)
  BY DEF Scope!Reconciles, Scope!Cached, Scope!IsOwnedByOperator

\* Strict validation, or a resource that names its operator, leaves at most
\* one operator that reconciles the resource, whatever the operators watch.
\* This is what ConsulKV takes for granted with its constant OwnedBy.
THEOREM SingleOwner ==
    ASSUME NEW Namespace, NEW OperatorNamespace, NEW NoName, NEW Strict,
           NEW AllNamespaces, NEW WatchNamespaces,
           NEW o \in Operators, NEW p \in Operators, NEW c \in CRs,
           Strict \/ OperatorNamespace[c] # NoName,
           Scope(Namespace, OperatorNamespace, NoName, Strict, AllNamespaces,
                 WatchNamespaces)!Reconciles(o, c),
           Scope(Namespace, OperatorNamespace, NoName, Strict, AllNamespaces,
                 WatchNamespaces)!Reconciles(p, c)
    PROVE  o = p
  BY DEF Scope!Reconciles, Scope!IsOwnedByOperator
=============================================================================
