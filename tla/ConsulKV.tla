------------------------------ MODULE ConsulKV ------------------------------
(***************************************************************************)
(* The ConsulKV reconciler of the ACL configurator operator                *)
(* (controllers/consulkv_controller.go): it writes the entries declared by *)
(* ConsulKV custom resources to the Consul KV store and counts the owners  *)
(* of a key in the Flags field of the key.                                 *)
(*                                                                         *)
(* One reconcile is a sequence of steps, one for each request to Consul or *)
(* to the Kubernetes API server, so the steps of operators, users and      *)
(* applications interleave between any two requests.                       *)
(*                                                                         *)
(* Abstractions.  The order of the entries of a resource only decides how  *)
(* they are cut into transactions: a chunk is any set of the right size.   *)
(* The status entries of one key, which the code keeps together, are one   *)
(* record whose dup field says that an earlier "skipped" entry comes       *)
(* first.  Consul's ModifyIndex is compared for equality only: stale[c] is *)
(* the set of keys whose index has moved since the reconcile of c read it. *)
(***************************************************************************)
EXTENDS KubeAPI, Sequences, FiniteSets

CONSTANTS
    Operators,      \* running operators
    OwnedBy,        \* the operator that reconciles a resource
    Keys,           \* keys a resource may declare
    EmptyKey,       \* the key "" of an invalid entry
    Dirs,           \* keys that end with "/"
    Tree,           \* Tree[k]: the keys that start with k, "/" appended if missing
    Values,         \* values a resource may declare
    NoValue,        \* the value of an absent key
    ExternalValue,  \* what applications write
    Specs,          \* the lists of entries users declare
    PurgeModes,     \* the values of purgeOnDelete users set
    AppKeys,        \* keys applications write on their own
    BatchSize,      \* txnBatchSize
    CasMaxRetries   \* casMaxRetries

FaultKinds == {"consul", "lostReply", "apiServer", "crash", "staleCache"}

ASSUME ConstantsAssumption ==
    /\ OwnedBy \in [CRs -> Operators]
    /\ IsFiniteSet(CRs)
    /\ IsFiniteSet(Keys)
    /\ Dirs \subseteq Keys
    /\ Tree \in [Keys -> SUBSET Keys]
    /\ \A k \in Dirs : k \in Tree[k]
    /\ Specs \subseteq Seq([key : Keys, val : Values])
    /\ PurgeModes \subseteq BOOLEAN
    /\ AppKeys \subseteq Keys
    /\ BatchSize \in Nat \ {0}
    /\ CasMaxRetries \in Nat \ {0}
    /\ Faults \subseteq FaultKinds
    /\ MaxEdits \in Nat
    /\ MaxFaults \in Nat

VARIABLES
    work,     \* the reconcile in progress for a resource
    stale,    \* keys changed since the reconcile in progress read them
    store,    \* the Consul KV store
    foreign   \* history: keys whose present incarnation an application created

vars == <<api, view, queue, work, stale, store, foreign, edits, faults>>

Absent == [present |-> FALSE, flags |-> 0, val |-> NoValue]

NoEntry == [status |-> "none", owned |-> FALSE, dup |-> FALSE]

NoEntries == [k \in Keys |-> NoEntry]

\* A resource that does not exist.
Gone == [exists |-> FALSE, gen |-> 0, spec |-> <<>>, purge |-> FALSE,
         deleting |-> FALSE, fin |-> FALSE, entries |-> NoEntries,
         ok |-> FALSE, obs |-> 0]

\* No reconcile in progress.
Idle == [pc |-> "idle", inst |-> Gone, todo |-> {}, chunk |-> {}, seen |-> {},
         reads |-> [k \in Keys |-> Absent], attempt |-> 0, committed |-> {},
         owns |-> {}, released |-> {}, err |-> FALSE]

Init ==
    /\ api = [c \in CRs |-> Gone]
    /\ view = [c \in CRs |-> Gone]
    /\ queue = {}
    /\ work = [c \in CRs |-> Idle]
    /\ stale = [c \in CRs |-> {}]
    /\ store = [k \in Keys |-> Absent]
    /\ foreign = {}
    /\ edits = 0
    /\ faults = 0

-----------------------------------------------------------------------------
(* Entries of a resource and of its status.                                *)

Declared(spec) == {spec[i].key : i \in DOMAIN spec}

ValidKeys(spec) == Declared(spec) \ {EmptyKey}

\* Mutant of LastIndex: the first entry of a key counts.
FirstIndex(spec, k) ==
    {i \in DOMAIN spec : spec[i].key = k /\ \A j \in DOMAIN spec : spec[j].key = k => i <= j}

\* lastIndex of applyKVEntries: the position of the last entry of k, if any.
LastIndex(spec, k) ==
    {i \in DOMAIN spec : spec[i].key = k /\ \A j \in DOMAIN spec : spec[j].key = k => j <= i}

LastValue(spec, k) ==
    IF LastIndex(spec, k) = {} THEN NoValue
    ELSE spec[CHOOSE i \in LastIndex(spec, k) : TRUE].val

Duplicated(spec, k) == \E i \in DOMAIN spec \ LastIndex(spec, k) : spec[i].key = k

OwnedStatusKeys(entries) == {k \in Keys \ {EmptyKey} : entries[k].owned}

\* Owned of the first status entry of a key.
FirstOwned(e) == e.owned /\ ~e.dup

\* The status entries applyKVEntries returns, by key.
EntryStatuses(w) ==
    [k \in Declared(w.inst.spec) |->
        IF k = EmptyKey THEN [status |-> "error", owned |-> FALSE, dup |-> FALSE]
        ELSE [status |-> IF k \notin w.committed THEN "error"
                         ELSE IF k \in w.owns THEN "synced" ELSE "notOwned",
              owned |-> IF k \in w.committed THEN k \in w.owns
                        ELSE k \in OwnedStatusKeys(w.inst.entries),
              dup |-> Duplicated(w.inst.spec, k)]]

\* Mutant of MergeKVStatuses: the entries no longer declared are dropped.
UpdatedOnly(existing, updated, cleaned) == updated

\* Mutant of MergeKVStatuses: a removed entry loses its mark unconditionally.
RemovedIsReleased(existing, updated, cleaned) ==
    [k \in Keys |->
        IF k \in DOMAIN updated THEN updated[k]
        ELSE IF existing[k] = NoEntry THEN NoEntry
        ELSE [status |-> "removed", owned |-> FALSE, dup |-> FALSE]]

MergeKVStatuses(existing, updated, cleaned) ==
    [k \in Keys |->
        IF k \in DOMAIN updated THEN updated[k]
        ELSE IF existing[k] = NoEntry THEN NoEntry
        ELSE [status |-> "removed",
              owned |-> FirstOwned(existing[k]) /\ k \notin cleaned,
              dup |-> FALSE]]

MarkReleased(entries, released) ==
    [k \in Keys |-> IF k \in released /\ entries[k] # NoEntry
                    THEN [entries[k] EXCEPT !.owned = FALSE, !.status = "released"]
                    ELSE entries[k]]

\* Keys of which any status entry exists: what a purge deletes.
StatusKeys(entries) == {k \in Keys \ {EmptyKey} : entries[k] # NoEntry}

\* Keys that were owned and are no longer declared.
RemovedKeys(inst) == OwnedStatusKeys(inst.entries) \ Declared(inst.spec)

-----------------------------------------------------------------------------
(* Requests to Consul.                                                     *)

\* The store becomes new; the reads of the reconcile that writes it are used up.
Write(by, new) ==
    /\ store' = new
    /\ stale' = [d \in CRs |->
                   IF d \in by THEN {}
                   ELSE stale[d] \cup {k \in work[d].seen : new[k] # store[k]}]

\* Mutant of NewFlags: a reconcile of an owner counts it again.
CountedAgain(w, k) ==
    IF w.reads[k].present /\ w.reads[k].flags = 0 THEN 0 ELSE w.reads[k].flags + 1

\* Flags computed by writeKVChunk for a key it has read.
NewFlags(w, k) ==
    IF k \in OwnedStatusKeys(w.inst.entries) THEN w.reads[k].flags
    ELSE IF w.reads[k].present /\ w.reads[k].flags = 0 THEN 0
    ELSE w.reads[k].flags + 1

\* Mutant of WillOwn: keys of applications are adopted.
Adopt(w, k) == TRUE

WillOwn(w, k) ==
    k \in OwnedStatusKeys(w.inst.entries) \/ ~w.reads[k].present \/ w.reads[k].flags > 0

\* Mutant of Target: the last but one owner takes the key with it.
GoneTooEarly(w, k) ==
    IF w.pc = "apply"
    THEN [present |-> TRUE, flags |-> NewFlags(w, k),
          val |-> LastValue(w.inst.spec, k)]
    ELSE IF w.reads[k].flags <= 2 THEN Absent
    ELSE [w.reads[k] EXCEPT !.flags = @ - 1]

\* The pair the transaction of the current chunk writes for k.
Target(w, k) ==
    IF w.pc = "apply"
    THEN [present |-> TRUE, flags |-> NewFlags(w, k),
          val |-> LastValue(w.inst.spec, k)]
    ELSE IF w.reads[k].flags <= 1 THEN Absent
    ELSE [w.reads[k] EXCEPT !.flags = @ - 1]

\* Keys with an operation: deleteKVChunk skips the keys it found absent.
OpKeys(w) == IF w.pc = "apply" THEN w.chunk ELSE {k \in w.chunk : w.reads[k].present}

\* Mutant of CasOk: plain writes without the index.
Unconditional(c, k) == TRUE

\* The check of a KVCAS or KVDeleteCAS operation against the present store.
\* Index 0 means create if absent; deleting an absent key succeeds.
CasOk(c, k) ==
    \/ k \notin stale[c]
    \/ ~store[k].present /\ ~Target(work[c], k).present
    \/ ~store[k].present /\ ~work[c].reads[k].present

TxnOk(c) == \A k \in OpKeys(work[c]) : CasOk(c, k)

TxnResult(w) == [k \in Keys |-> IF k \in OpKeys(w) THEN Target(w, k) ELSE store[k]]

-----------------------------------------------------------------------------
(* One reconcile.                                                          *)

\* The first step of Reconcile for the cached resource o.
Begin(o) ==
    IF ~o.exists \/ (o.deleting /\ ~o.fin) THEN Idle
    ELSE IF ~o.deleting
    THEN [Idle EXCEPT !.inst = o,
                      !.pc = IF o.fin THEN "apply" ELSE "addFinalizer",
                      !.todo = ValidKeys(o.spec)]
    ELSE [Idle EXCEPT !.inst = o,
                      !.pc = IF o.purge THEN "purge" ELSE "release",
                      !.todo = IF o.purge THEN StatusKeys(o.entries)
                               ELSE OwnedStatusKeys(o.entries)]

\* The informer cache catches up.
Sync(c) ==
    /\ Deliver(c)
    /\ UNCHANGED <<api, work, stale, store, foreign, edits, faults>>

\* An operator reconciles one resource at a time.
Start(c) ==
    /\ c \in queue
    /\ \A d \in CRs : OwnedBy[d] = OwnedBy[c] => work[d].pc = "idle"
    /\ queue' = queue \ {c}
    /\ work' = [work EXCEPT ![c] = Begin(view[c])]
    /\ UNCHANGED <<api, view, stale, store, foreign, edits, faults>>

\* The reconcile ends.
End(c) == work' = [work EXCEPT ![c] = Idle]

AddFinalizer(c) ==
    /\ work[c].pc = "addFinalizer"
    /\ UpToDate(c)
    /\ Publish(c, [api[c] EXCEPT !.fin = TRUE], {})
    /\ work' = [work EXCEPT ![c].pc = "apply"]
    /\ UNCHANGED <<stale, store, foreign, edits, faults>>

\* Only the finalizer of this controller holds the resource back.
RemoveFinalizer(c) ==
    /\ work[c].pc = "removeFinalizer"
    /\ UpToDate(c)
    /\ Publish(c, Gone, {})
    /\ End(c)
    /\ UNCHANGED <<stale, store, foreign, edits, faults>>

\* updateWithRetry or updateStatusWithRetry gives up: the conflicts outlast the
\* retries, the resource is not found, or the API server fails.
UpdateFails(c) ==
    /\ work[c].pc \in {"addFinalizer", "removeFinalizer", "status", "partial"}
    /\ \/ ~(view[c].exists /\ api[c].exists) /\ faults' = faults
       \/ ~UpToDate(c) /\ Fault("staleCache")
       \/ Fault("apiServer")
    /\ End(c)
    /\ queue' = queue \cup {c}
    /\ UNCHANGED <<api, view, stale, store, foreign, edits>>

\* The next transaction of at most txnBatchSize operations.
OpenChunk(c) ==
    LET w == work[c] IN
    /\ w.pc \in {"apply", "remove", "release"}
    /\ w.chunk = {}
    /\ \E s \in SUBSET w.todo :
        /\ s # {}
        /\ Cardinality(s) = BatchSize \/ (s = w.todo /\ Cardinality(s) <= BatchSize)
        /\ work' = [work EXCEPT ![c] = [w EXCEPT !.chunk = s, !.todo = @ \ s, !.attempt = 0]]
    /\ UNCHANGED <<api, view, queue, stale, store, foreign, edits, faults>>

ReadKey(c) ==
    LET w == work[c] IN
    /\ w.pc \in {"apply", "remove", "release"}
    /\ \E k \in w.chunk \ w.seen :
        work' = [work EXCEPT ![c] = [w EXCEPT !.seen = @ \cup {k}, !.reads[k] = store[k]]]
    /\ UNCHANGED <<api, view, queue, stale, store, foreign, edits, faults>>

\* The chunk is left behind, committed or not.
LeaveChunk(w) ==
    [w EXCEPT !.chunk = {}, !.seen = {}, !.reads = Idle.reads, !.attempt = 0]

\* The chunk committed: writeKVChunk records what is owned, deleteKVBatch what
\* is released.
Record(w) ==
    IF w.pc = "apply"
    THEN [LeaveChunk(w) EXCEPT !.committed = @ \cup w.chunk,
                               !.owns = @ \cup {k \in w.chunk : WillOwn(w, k)}]
    ELSE [LeaveChunk(w) EXCEPT !.released = @ \cup w.chunk]

ChunkRead(w) == w.pc \in {"apply", "remove", "release"} /\ w.chunk # {} /\ w.seen = w.chunk

Commit(c) ==
    /\ ChunkRead(work[c])
    /\ TxnOk(c)
    /\ Write({c}, TxnResult(work[c]))
    /\ work' = [work EXCEPT ![c] = Record(work[c])]
    /\ UNCHANGED <<api, view, queue, foreign, edits, faults>>

\* What follows the loop over the chunks; a failed batch leaves the loop early.
AfterBatches(w, failed) ==
    LET left == [LeaveChunk(w) EXCEPT !.todo = {}, !.err = @ \/ failed] IN
    IF w.pc = "apply" THEN [left EXCEPT !.pc = "remove", !.todo = RemovedKeys(w.inst)]
    ELSE IF w.pc = "remove" THEN [left EXCEPT !.pc = "status"]
    ELSE IF ~left.err THEN [left EXCEPT !.pc = "removeFinalizer"]
    ELSE IF w.pc = "release" /\ w.released # {} THEN [left EXCEPT !.pc = "partial"]
    ELSE Idle

\* Mutant of LeaveBatches: a failed release is not tried again.
LeaveWithoutRetry(c, failed) ==
    /\ work' = [work EXCEPT ![c] = AfterBatches(work[c], failed)]
    /\ queue' = queue

LeaveBatches(c, failed) ==
    LET next == AfterBatches(work[c], failed) IN
    /\ work' = [work EXCEPT ![c] = next]
    /\ queue' = queue \cup (IF next = Idle THEN {c} ELSE {})

NextAttempt(w) == [w EXCEPT !.attempt = @ + 1, !.seen = {}, !.reads = Idle.reads]

\* At least one key of the transaction changed since it was read.
Reject(c) ==
    /\ ChunkRead(work[c])
    /\ ~TxnOk(c)
    /\ IF work[c].attempt + 1 < CasMaxRetries
       THEN /\ work' = [work EXCEPT ![c] = NextAttempt(work[c])]
            /\ queue' = queue
       ELSE LeaveBatches(c, TRUE)
    /\ stale' = [stale EXCEPT ![c] = {}]
    /\ UNCHANGED <<api, view, store, foreign, edits, faults>>

\* A read or a transaction fails and has no effect.
RequestFails(c) ==
    /\ work[c].chunk # {}
    /\ work[c].pc # "purge"
    /\ work[c].seen = work[c].chunk => OpKeys(work[c]) # {}
    /\ Fault("consul")
    /\ LeaveBatches(c, TRUE)
    /\ stale' = [stale EXCEPT ![c] = {}]
    /\ UNCHANGED <<api, view, store, foreign, edits>>

\* A transaction commits and its reply is lost.
ReplyLost(c) ==
    /\ ChunkRead(work[c])
    /\ OpKeys(work[c]) # {}
    /\ TxnOk(c)
    /\ Fault("lostReply")
    /\ Write({c}, TxnResult(work[c]))
    /\ LeaveBatches(c, TRUE)
    /\ UNCHANGED <<api, view, foreign, edits>>

BatchesDone(c) ==
    /\ work[c].pc \in {"apply", "remove", "release", "purge"}
    /\ work[c].chunk = {}
    /\ work[c].todo = {}
    /\ LeaveBatches(c, FALSE)
    /\ UNCHANGED <<api, view, stale, store, foreign, edits, faults>>

\* Mutant of UpdateStatus: a failed apply is not tried again.
UpdateWithoutRetry(c) ==
    /\ work[c].pc = "status"
    /\ UpToDate(c)
    /\ Publish(c, [api[c] EXCEPT
                     !.entries = MergeKVStatuses(@, EntryStatuses(work[c]), work[c].released),
                     !.ok = ~work[c].err,
                     !.obs = api[c].gen], {})
    /\ End(c)
    /\ UNCHANGED <<stale, store, foreign, edits, faults>>

\* The status update that ends an apply: it starts from the fresh resource.
UpdateStatus(c) ==
    LET w == work[c] IN
    /\ w.pc = "status"
    /\ UpToDate(c)
    /\ Publish(c, [api[c] EXCEPT
                     !.entries = MergeKVStatuses(@, EntryStatuses(w), w.released),
                     !.ok = ~w.err,
                     !.obs = api[c].gen],
               IF w.err THEN {c} ELSE {})
    /\ End(c)
    /\ UNCHANGED <<stale, store, foreign, edits, faults>>

\* The status update that records a partial release on deletion.
UpdatePartial(c) ==
    /\ work[c].pc = "partial"
    /\ UpToDate(c)
    /\ Publish(c, [api[c] EXCEPT !.entries = MarkReleased(@, work[c].released)], {c})
    /\ End(c)
    /\ UNCHANGED <<stale, store, foreign, edits, faults>>

-----------------------------------------------------------------------------
(* purgeOnDelete: deleteKVTree.                                            *)

\* Delete of the exact key; a key that ends with "/" goes to the tree at once.
PurgeKey(c) ==
    LET w == work[c] IN
    /\ w.pc = "purge"
    /\ w.chunk = {}
    /\ \E k \in w.todo :
        /\ work' = [work EXCEPT ![c] = [w EXCEPT !.todo = @ \ {k}, !.chunk = {k}]]
        /\ IF k \in Dirs THEN UNCHANGED <<store, stale, foreign>>
           ELSE /\ Write({c}, [store EXCEPT ![k] = Absent])
                /\ foreign' = foreign \ {k}
    /\ UNCHANGED <<api, view, queue, edits, faults>>

PurgeTree(c) ==
    LET w == work[c]
        gone == UNION {Tree[k] : k \in w.chunk} IN
    /\ w.pc = "purge"
    /\ w.chunk # {}
    /\ Write({c}, [k \in Keys |-> IF k \in gone THEN Absent ELSE store[k]])
    /\ foreign' = foreign \ gone
    /\ work' = [work EXCEPT ![c] = LeaveChunk(w)]
    /\ UNCHANGED <<api, view, queue, edits, faults>>

\* Mutant of PurgeFails: the error of one key is forgotten.
PurgeFailsSilently(c) ==
    LET w == work[c] IN
    /\ w.pc = "purge"
    /\ Fault("consul")
    /\ \/ w.chunk # {} /\ work' = [work EXCEPT ![c] = [w EXCEPT !.chunk = {}]]
       \/ /\ w.chunk = {}
          /\ \E k \in w.todo \ Dirs :
                work' = [work EXCEPT ![c] = [w EXCEPT !.todo = @ \ {k}]]
    /\ UNCHANGED <<api, view, queue, stale, store, foreign, edits>>

\* A failed Delete skips the tree of its key; the loop goes on with the others.
PurgeFails(c) ==
    LET w == work[c] IN
    /\ w.pc = "purge"
    /\ Fault("consul")
    /\ \/ w.chunk # {} /\ work' = [work EXCEPT ![c] = [w EXCEPT !.chunk = {}, !.err = TRUE]]
       \/ /\ w.chunk = {}
          /\ \E k \in w.todo \ Dirs :
                work' = [work EXCEPT ![c] = [w EXCEPT !.todo = @ \ {k}, !.err = TRUE]]
    /\ UNCHANGED <<api, view, queue, stale, store, foreign, edits>>

-----------------------------------------------------------------------------
(* The operator restarts: nothing of a reconcile survives, the cache is    *)
(* filled again and every resource is reconciled.                          *)

Crash(o) ==
    LET mine == {c \in CRs : OwnedBy[c] = o} IN
    /\ Fault("crash")
    /\ work' = [c \in CRs |-> IF c \in mine THEN Idle ELSE work[c]]
    /\ stale' = [c \in CRs |-> IF c \in mine THEN {} ELSE stale[c]]
    /\ view' = [c \in CRs |-> IF c \in mine THEN api[c] ELSE view[c]]
    /\ queue' = (queue \ mine) \cup {c \in mine : api[c].exists}
    /\ UNCHANGED <<api, store, foreign, edits>>

-----------------------------------------------------------------------------
(* Users of the Kubernetes API and applications that use Consul.           *)

\* A name is used again only when its operator has seen the deletion.
Create(c) ==
    /\ Edited
    /\ ~api[c].exists /\ ~view[c].exists
    /\ \E s \in Specs, p \in PurgeModes :
        Publish(c, [Gone EXCEPT !.exists = TRUE, !.gen = 1, !.spec = s, !.purge = p], {})
    /\ UNCHANGED <<work, stale, store, foreign, faults>>

Edit(c) ==
    /\ Edited
    /\ api[c].exists
    /\ \E s \in Specs, p \in PurgeModes :
        /\ <<s, p>> # <<api[c].spec, api[c].purge>>
        /\ Publish(c, [api[c] EXCEPT !.gen = @ + 1, !.spec = s, !.purge = p], {})
    /\ UNCHANGED <<work, stale, store, foreign, faults>>

Delete(c) ==
    /\ Edited
    /\ api[c].exists
    /\ ~api[c].deleting
    /\ Publish(c, IF api[c].fin THEN [api[c] EXCEPT !.deleting = TRUE, !.gen = @ + 1]
                  ELSE Gone, {})
    /\ UNCHANGED <<work, stale, store, foreign, faults>>

\* Applications write and delete only the keys no resource owns.
ExternalPut(k) ==
    /\ Edited
    /\ store[k].flags = 0
    /\ Write({}, [store EXCEPT ![k] = [present |-> TRUE, flags |-> 0,
                                             val |-> ExternalValue]])
    /\ foreign' = IF store[k].present THEN foreign ELSE foreign \cup {k}
    /\ UNCHANGED <<api, view, queue, work, faults>>

ExternalDelete(k) ==
    /\ Edited
    /\ store[k].present
    /\ store[k].flags = 0
    /\ Write({}, [store EXCEPT ![k] = Absent])
    /\ foreign' = foreign \ {k}
    /\ UNCHANGED <<api, view, queue, work, faults>>

-----------------------------------------------------------------------------
ReconcileStep(c) ==
    \/ AddFinalizer(c) \/ RemoveFinalizer(c) \/ UpdateFails(c)
    \/ OpenChunk(c) \/ ReadKey(c) \/ Commit(c) \/ Reject(c) \/ RequestFails(c)
    \/ ReplyLost(c) \/ BatchesDone(c) \/ UpdateStatus(c) \/ UpdatePartial(c)
    \/ PurgeKey(c) \/ PurgeTree(c) \/ PurgeFails(c)

Next ==
    \/ \E c \in CRs : Start(c) \/ ReconcileStep(c) \/ Sync(c)
    \/ \E o \in Operators : Crash(o)
    \/ \E c \in CRs : Create(c) \/ Edit(c) \/ Delete(c)
    \/ \E k \in AppKeys : ExternalPut(k) \/ ExternalDelete(k)

Spec == Init /\ [][Next]_vars

\* The controller takes what is in its queue and a reconcile that has begun goes
\* on; the watch delivers every change in the end.
FairSpec ==
    Spec /\ \A c \in CRs : WF_vars(Start(c)) /\ WF_vars(ReconcileStep(c)) /\ WF_vars(Sync(c))

-----------------------------------------------------------------------------
Pair == [present : BOOLEAN, flags : Nat, val : Values \cup {NoValue, ExternalValue}]

Entry == [status : {"none", "synced", "notOwned", "error", "removed", "released"},
          owned : BOOLEAN, dup : BOOLEAN]

Resource == [exists : BOOLEAN, gen : Nat, spec : Specs \cup {<<>>}, purge : BOOLEAN,
             deleting : BOOLEAN, fin : BOOLEAN, entries : [Keys -> Entry],
             ok : BOOLEAN, obs : Nat]

Reconcile == [pc : {"idle", "addFinalizer", "apply", "remove", "status", "release",
                    "partial", "purge", "removeFinalizer"},
              inst : Resource, todo : SUBSET Keys, chunk : SUBSET Keys,
              seen : SUBSET Keys, reads : [Keys -> Pair], attempt : Nat,
              committed : SUBSET Keys, owns : SUBSET Keys, released : SUBSET Keys,
              err : BOOLEAN]

\* The type invariant of the reconciler, its caches and the KV store.
TypeOK ==
    /\ api \in [CRs -> Resource]
    /\ view \in [CRs -> Resource]
    /\ queue \subseteq CRs
    /\ work \in [CRs -> Reconcile]
    /\ stale \in [CRs -> SUBSET Keys]
    /\ store \in [Keys -> Pair]
    /\ foreign \subseteq Keys
    /\ edits \in Nat
    /\ faults \in Nat

\* A resource with status o and reconcile w owns k: as the status says, corrected
\* by what the reconcile has already committed and not yet recorded.
HoldsIn(w, o, k) ==
    /\ k \notin w.released
    /\ IF k \in w.committed THEN k \in w.owns ELSE k \in OwnedStatusKeys(o.entries)

Holders(k) == {c \in CRs : HoldsIn(work[c], api[c], k)}

\* The counter writeKVChunk and deleteKVChunk keep in Flags is the number of
\* resources that own the key, at every step of every reconcile.  A key is thus
\* deleted with its last owner, and not before.
RefCountExact == \A k \in Keys : store[k].flags = Cardinality(Holders(k))

\* A key created outside the operator survives every reconcile, also when the
\* resource that declares it is edited or deleted without purgeOnDelete.
ExternalKeysKept == \A k \in foreign : store[k].present

\* deleteKVChunk writes back the value it read: the decrement of one operator
\* never undoes a value that another one wrote in between.
DecrementKeepsValue ==
    [][\A k \in Keys : (store'[k].present /\ store'[k].flags < store[k].flags)
                        => store'[k].val = store[k].val]_vars

\* mergeKVStatuses and markReleased: a key that is owned according to the status
\* loses the mark only if its counter was decremented.
OwnedUntilReleased ==
    [][\A c \in CRs :
         OwnedStatusKeys(api[c].entries) \ OwnedStatusKeys(api'[c].entries)
            \subseteq work[c].released]_vars

\* The store as its users see it: keys, values and owners, without the counters.
Ownership == INSTANCE KeyOwnership WITH
    Owners <- CRs,
    Used <- {ExternalValue},
    pair <- [k \in Keys |-> [present |-> store[k].present, val |-> store[k].val]],
    owners <- [k \in Keys |-> Holders(k)]

\* The batches, counters and retries of applyKVEntries, deleteKVBatch and
\* deleteKVEntries implement ownership of keys in which every resource joins and
\* leaves the owners of a key in one step.
ImplementsOwnership == Ownership!OwnershipSpec

\* A resource marked for deletion disappears: Reconcile releases its keys and
\* removes the finalizer, whatever finite number of requests fail.
DeletionCompletes == \A c \in CRs : api[c].deleting ~> ~api[c].exists

\* When users, applications and failures come to rest, each live resource is
\* reported as successful for its latest generation, with every entry written.
Converges ==
    \A c \in CRs :
        <>[](api[c].exists /\ ~api[c].deleting =>
               /\ api[c].ok
               /\ api[c].obs = api[c].gen
               /\ \A k \in ValidKeys(api[c].spec) :
                    api[c].entries[k].status \in {"synced", "notOwned"})

\* deleteKVTree reports an error of any key, so a finalizer is removed only when
\* nothing is left of the keys in the status and of the trees below them.
PurgeLeavesNothing ==
    \A c \in CRs : (work[c].pc = "removeFinalizer" /\ work[c].inst.purge) =>
        \A k \in StatusKeys(work[c].inst.entries) :
            \A d \in Tree[k] \cup {k} : ~store[d].present

\* applyKVEntries with the status update that follows it: when the operator is
\* done with a resource, alone with its keys, and reported success, each key holds
\* the last value declared for it, whatever failed on the way.
ValuesApplied ==
    \A c \in CRs :
        (/\ api[c].exists /\ ~api[c].deleting /\ api[c].ok /\ api[c].obs = api[c].gen
         /\ view[c] = api[c] /\ c \notin queue /\ work[c].pc = "idle")
        => \A i \in DOMAIN api[c].spec :
            LET k == api[c].spec[i].key IN
            (k # EmptyKey /\ \A j \in DOMAIN api[c].spec : j > i => api[c].spec[j].key # k)
               => store[k].present /\ store[k].val = api[c].spec[i].val

-----------------------------------------------------------------------------
(* What the documentation promises and a lagging cache breaks.             *)

\* A key the operator created is deleted when the resources that own it are.
KeysGoneWithOwners ==
    (\A c \in CRs : ~api[c].exists) => \A k \in Keys : store[k].flags = 0
=============================================================================
