--------------------------- MODULE ConsulKVProofs ---------------------------
(* The reference counters of ConsulKV are exact, the keys of applications  *)
(* are kept, and the controllers implement KeyOwnership: each transaction  *)
(* is one step in which a resource joins or leaves the owners of some keys,*)
(* and nothing else shows.  For every value of the constants.              *)
EXTENDS ConsulKVTypes, FiniteSetTheorems

-----------------------------------------------------------------------------
(* The reference counter.  It is exact as long as what a transaction did is *)
(* always recorded in the status, and no resource is purged.                *)

DistinctKeys ==
    \A s \in Specs : \A i, j \in DOMAIN s : s[i].key = s[j].key => i = j

Recorded ==
    /\ Faults \subseteq {"consul"}
    /\ PurgeModes \subseteq {FALSE}
    /\ DistinctKeys

\* The sets of keys a reconcile works through, by phase.
Phases(w) ==
    LET mine == OwnedStatusKeys(w.inst.entries) IN
    /\ w.pc # "purge"
    /\ w.owns \subseteq w.committed
    /\ w.committed \subseteq ValidKeys(w.inst.spec)
    /\ w.released \subseteq mine
    /\ w.todo \cap w.chunk = {}
    /\ (w.todo \cup w.chunk) \cap (w.committed \cup w.released) = {}
    /\ w.pc \in {"idle", "addFinalizer", "status", "partial", "removeFinalizer"} => w.chunk = {}
    /\ w.pc \in {"idle", "addFinalizer", "release", "partial", "removeFinalizer"} => w.committed = {}
    /\ w.pc \in {"idle", "addFinalizer", "apply"} => w.released = {}
    /\ w.pc \in {"addFinalizer", "apply"} => w.todo \cup w.chunk \subseteq ValidKeys(w.inst.spec)
    /\ w.pc = "remove" => w.todo \cup w.chunk \subseteq RemovedKeys(w.inst)
    /\ w.pc \in {"remove", "status"} => w.released \subseteq RemovedKeys(w.inst)
    /\ w.pc = "release" => w.todo \cup w.chunk \cup w.released = mine
    /\ w.pc = "removeFinalizer" => w.released = mine

\* The resource a reconcile read is still what the API server holds: the status is
\* written by this reconcile alone, and the finalizer keeps the resource.
Current(w, o) ==
    /\ ~o.purge
    /\ ~o.exists => o = Gone
    /\ ~o.fin => o.entries = NoEntries
    /\ \A k \in Keys : ~o.entries[k].dup
    /\ w.pc # "idle" => w.inst.entries = o.entries /\ ~w.inst.purge
    /\ w.pc \notin {"idle", "addFinalizer"} => o.fin

\* What a chunk has read is what the store holds, unless the key is stale; a key
\* that is being released was there.
ReadsValid(w, st, s) ==
    /\ w.seen \subseteq w.chunk
    /\ st \subseteq w.seen
    /\ \A k \in w.seen : ~w.reads[k].present => w.reads[k].flags = 0
    /\ \A k \in w.seen \ st : w.reads[k] = s[k]
    /\ w.pc \in {"remove", "release"} => \A k \in w.seen : w.reads[k].present

LocalInv(w, o, st, s) == Phases(w) /\ Current(w, o) /\ ReadsValid(w, st, s)

StoreValid == \A k \in Keys : ~store[k].present => store[k].flags = 0

RefCountInv ==
    /\ TypeOK
    /\ view = api
    /\ StoreValid
    /\ \A c \in CRs : LocalInv(work[c], api[c], stale[c], store)
    /\ RefCountExact

LEMMA NoDuplicates ==
    ASSUME DistinctKeys, NEW s \in Specs \cup {<<>>}, NEW k
    PROVE  ~Duplicated(s, k)
  <1>1. ASSUME NEW i \in DOMAIN s, s[i].key = k
        PROVE  i \in LastIndex(s, k)
    <2>1. s \in Specs
      BY <1>1
    <2>2. DOMAIN s \subseteq Nat
      <3>1. s \in Seq([key : Keys, val : Values])
        BY <2>1, ConstantsAssumption, Zenon
      <3> QED
        BY <3>1
    <2>3. \A j \in DOMAIN s : s[j].key = k => j = i
      BY <1>1, <2>1, Zenon DEF DistinctKeys
    <2> QED
      BY <1>1, <2>2, <2>3 DEF LastIndex
  <1> QED
    BY <1>1, Zenon DEF Duplicated

LEMMA HoldersFinite ==
    ASSUME NEW k
    PROVE  IsFiniteSet(Holders(k)) /\ Cardinality(Holders(k)) \in Nat
  BY ConstantsAssumption, FS_Subset, FS_CardinalityType, Zenon DEF Holders

\* Nobody joins or leaves the owners of a key.
HoldersKept == \A k \in Keys : Holders(k)' = Holders(k)

\* A step that changes one resource or its reconcile, and neither the counters nor
\* what the resource owns.
LEMMA LocalStep ==
    ASSUME RefCountInv, TypeOK', NEW c \in CRs, NEW w, NEW o,
           work' = [work EXCEPT ![c] = w],
           api' = [api EXCEPT ![c] = o],
           view' = [view EXCEPT ![c] = o],
           \A d \in CRs \ {c} : stale'[d] = stale[d],
           store' = store,
           LocalInv(w, o, stale'[c], store),
           \A k \in Keys : HoldsIn(w, o, k) <=> HoldsIn(work[c], api[c], k)
    PROVE  RefCountInv' /\ HoldersKept
  <1>1. work'[c] = w /\ api'[c] = o /\ \A d \in CRs \ {c} : work'[d] = work[d] /\ api'[d] = api[d]
    BY Zenon DEF RefCountInv, TypeOK
  <1>2. view' = api' /\ StoreValid'
    BY Zenon DEF RefCountInv, StoreValid
  <1>3. \A d \in CRs : LocalInv(work'[d], api'[d], stale'[d], store')
    BY <1>1, Zenon DEF RefCountInv
  <1>4. \A k \in Keys : Holders(k)' = Holders(k)
    BY <1>1 DEF Holders
  <1>5. RefCountExact'
    BY <1>4, Zenon DEF RefCountInv, RefCountExact
  <1> QED
    BY <1>2, <1>3, <1>4, <1>5, Zenon DEF RefCountInv, HoldersKept

-----------------------------------------------------------------------------
(* One lemma for each way a reconcile changes.                             *)

LEMMA IdleLocal ==
    ASSUME NEW w, NEW o \in Resource, NEW s, Current(w, o)
    PROVE  LocalInv(Idle, o, {}, s)
  <1>1. Phases(Idle) /\ ReadsValid(Idle, {}, s)
    BY Zenon DEF Phases, ReadsValid, Idle, OwnedStatusKeys, Gone, NoEntries, NoEntry
  <1>2. Current(Idle, o)
    BY Zenon DEF Current, Idle
  <1> QED
    BY <1>1, <1>2, Zenon DEF LocalInv

LEMMA BeginLocal ==
    ASSUME NEW o \in Resource, NEW s, Current(Idle, o)
    PROVE  /\ LocalInv(Begin(o), o, {}, s)
           /\ Begin(o).committed = {} /\ Begin(o).released = {}
  <1>1. CASE Begin(o) = Idle
    <2>1. LocalInv(Idle, o, {}, s)
      BY IdleLocal, Zenon
    <2>2. Idle.committed = {} /\ Idle.released = {}
      BY Zenon DEF Idle
    <2> QED
      BY <1>1, <2>1, <2>2, Zenon
  <1>2. CASE Begin(o) # Idle
    <2>1. o.exists /\ ~o.purge /\ (o.deleting => o.fin)
      BY <1>2, Zenon DEF Begin, Current
    <2> DEFINE w == Begin(o)
    <2>2. /\ w.inst = o /\ w.chunk = {} /\ w.seen = {} /\ w.committed = {} /\ w.owns = {}
          /\ w.released = {}
          /\ w.pc = IF ~o.deleting THEN (IF o.fin THEN "apply" ELSE "addFinalizer") ELSE "release"
          /\ w.todo = IF ~o.deleting THEN ValidKeys(o.spec) ELSE OwnedStatusKeys(o.entries)
      BY <2>1, Zenon DEF Begin, Idle
    <2> HIDE DEF w
    <2>3. Phases(w)
      BY <2>1, <2>2, Zenon DEF Phases
    <2>4. Current(w, o)
      BY <2>1, <2>2, Zenon DEF Current
    <2>5. ReadsValid(w, {}, s)
      BY <2>2, Zenon DEF ReadsValid
    <2> QED
      BY <2>2, <2>3, <2>4, <2>5, Zenon DEF LocalInv, w
  <1> QED
    BY <1>1, <1>2, Zenon

LEMMA AfterBatchesLocal ==
    ASSUME NEW w \in Reconcile, NEW o \in Resource, NEW st, NEW s, NEW failed \in BOOLEAN,
           LocalInv(w, o, st, s), w.pc \in {"apply", "remove", "release"},
           failed \/ (w.todo = {} /\ w.chunk = {})
    PROVE  /\ LocalInv(AfterBatches(w, failed), o, {}, s)
           /\ \A k \in Keys : HoldsIn(AfterBatches(w, failed), o, k) <=> HoldsIn(w, o, k)
  <1> DEFINE n == AfterBatches(w, failed)
  <1>1. CASE n = Idle
    <2>1. w.committed = {} /\ w.released = {}
      <3>1. w.pc = "release" /\ w.released = {}
        <4>1. Idle.pc = "idle"
          BY Zenon DEF Idle
        <4>2. w.pc # "release" \/ w.released # {} => n.pc # "idle"
          BY Zenon DEF AfterBatches, LeaveChunk, Reconcile
        <4> QED
          BY <1>1, <4>1, <4>2, Zenon
      <3> QED
        BY <3>1, Zenon DEF LocalInv, Phases
    <2>2. Idle.committed = {} /\ Idle.released = {}
      BY Zenon DEF Idle
    <2> QED
      BY <1>1, <2>1, <2>2, IdleLocal, Zenon DEF LocalInv, HoldsIn
  <1>2. CASE n # Idle
    <2>1. /\ n.inst = w.inst /\ n.chunk = {} /\ n.seen = {} /\ n.committed = w.committed
          /\ n.owns = w.owns /\ n.released = w.released
      BY <1>2, Zenon DEF AfterBatches, LeaveChunk, Reconcile
    <2>2. n.todo = IF w.pc = "apply" THEN RemovedKeys(w.inst) ELSE {}
      BY <1>2, Zenon DEF AfterBatches, LeaveChunk, Reconcile
    <2>3. \/ w.pc = "apply" /\ n.pc = "remove"
          \/ w.pc = "remove" /\ n.pc = "status"
          \/ w.pc = "release" /\ ~failed /\ n.pc = "removeFinalizer"
          \/ w.pc = "release" /\ n.pc = "partial"
      BY <1>2, Zenon DEF AfterBatches, LeaveChunk, Reconcile
    <2> HIDE DEF n
    <2>4. Phases(n)
      <3>1. RemovedKeys(w.inst) \cap ValidKeys(w.inst.spec) = {}
        BY Zenon DEF RemovedKeys, ValidKeys
      <3> QED
        BY <2>1, <2>2, <2>3, <3>1 DEF LocalInv, Phases
    <2>5. Current(n, o)
      BY <2>1, <2>3, Zenon DEF LocalInv, Current
    <2>6. ReadsValid(n, {}, s)
      BY <2>1, Zenon DEF ReadsValid
    <2>7. \A k \in Keys : HoldsIn(n, o, k) <=> HoldsIn(w, o, k)
      BY <2>1, Zenon DEF HoldsIn
    <2> QED
      BY <2>4, <2>5, <2>6, <2>7, Zenon DEF LocalInv, n
  <1> QED
    BY <1>1, <1>2, Zenon

LEMMA StatusLocal ==
    ASSUME Recorded, NEW w \in Reconcile, NEW o \in Resource, NEW st, NEW s,
           LocalInv(w, o, st, s), w.pc = "status"
    PROVE  LET m == MergeKVStatuses(o.entries, EntryStatuses(w), w.released) IN
           \A k \in Keys : /\ ~m[k].dup
                           /\ k \in OwnedStatusKeys(m) <=> HoldsIn(w, o, k)
  <1> DEFINE m == MergeKVStatuses(o.entries, EntryStatuses(w), w.released)
  <1> SUFFICES ASSUME NEW k \in Keys
               PROVE  ~m[k].dup /\ (k \in OwnedStatusKeys(m) <=> HoldsIn(w, o, k))
    BY Zenon
  <1>1. /\ w.inst.entries = o.entries
        /\ ~o.entries[k].dup
        /\ w.committed \subseteq ValidKeys(w.inst.spec)
        /\ w.released \subseteq RemovedKeys(w.inst)
    BY Zenon DEF LocalInv, Current, Phases
  <1>2. w.inst.spec \in Specs \cup {<<>>}
    BY Zenon DEF Reconcile, Resource
  <1>3. ~Duplicated(w.inst.spec, k)
    BY <1>2, NoDuplicates, Zenon DEF Recorded
  <1>4. CASE k \in Declared(w.inst.spec)
    <2>1. m[k] = EntryStatuses(w)[k]
      BY <1>4, Zenon DEF MergeKVStatuses, EntryStatuses
    <2>2. k \notin w.released
      BY <1>1, <1>4, Zenon DEF RemovedKeys
    <2>3. CASE k = EmptyKey
      <3>1. ~m[k].dup
        <4>1. ~EntryStatuses(w)[k].dup
          BY <1>4, <2>3, Zenon DEF EntryStatuses
        <4> QED
          BY <2>1, <4>1, Zenon
      <3>2. k \notin OwnedStatusKeys(m) /\ ~HoldsIn(w, o, k)
        BY <1>1, <2>3, Zenon DEF OwnedStatusKeys, HoldsIn, ValidKeys
      <3> QED
        BY <3>1, <3>2, Zenon
    <2>4. CASE k # EmptyKey
      <3>1. /\ m[k].owned <=> IF k \in w.committed THEN k \in w.owns
                              ELSE k \in OwnedStatusKeys(o.entries)
            /\ ~m[k].dup
        <4>1. /\ EntryStatuses(w)[k].owned <=> IF k \in w.committed THEN k \in w.owns
                                              ELSE k \in OwnedStatusKeys(o.entries)
              /\ ~EntryStatuses(w)[k].dup
          BY <1>1, <1>3, <1>4, <2>4, Zenon DEF EntryStatuses
        <4> QED
          BY <2>1, <4>1, Zenon
      <3>2. k \in OwnedStatusKeys(m) <=> m[k].owned
        BY <2>4, Zenon DEF OwnedStatusKeys
      <3> QED
        BY <2>2, <3>1, <3>2, Zenon DEF HoldsIn
    <2> QED
      BY <2>3, <2>4, Zenon
  <1>5. CASE k \notin Declared(w.inst.spec)
    <2>1. k \notin w.committed
      BY <1>1, <1>5, Zenon DEF ValidKeys
    <2>2. /\ m[k].owned <=> o.entries[k].owned /\ k \notin w.released
          /\ ~m[k].dup
      <3>1. k \notin DOMAIN EntryStatuses(w)
        BY <1>5, Zenon DEF EntryStatuses
      <3> HIDE DEF EntryStatuses
      <3>2. CASE o.entries[k] = NoEntry
        BY <3>1, <3>2, Zenon DEF MergeKVStatuses, NoEntry
      <3>3. CASE o.entries[k] # NoEntry
        BY <1>1, <3>1, <3>3, Zenon DEF MergeKVStatuses, FirstOwned
      <3> QED
        BY <3>2, <3>3, Zenon
    <2>3. /\ k \in OwnedStatusKeys(m) <=> k # EmptyKey /\ m[k].owned
          /\ k \in OwnedStatusKeys(o.entries) <=> k # EmptyKey /\ o.entries[k].owned
      BY Zenon DEF OwnedStatusKeys
    <2> QED
      BY <2>1, <2>2, <2>3, Zenon DEF HoldsIn
  <1> QED
    BY <1>4, <1>5, Zenon

LEMMA PartialLocal ==
    ASSUME NEW w \in Reconcile, NEW o \in Resource, NEW st, NEW s,
           LocalInv(w, o, st, s), w.pc = "partial"
    PROVE  LET m == MarkReleased(o.entries, w.released) IN
           \A k \in Keys : /\ ~m[k].dup
                           /\ k \in OwnedStatusKeys(m) <=> HoldsIn(w, o, k)
  <1> DEFINE m == MarkReleased(o.entries, w.released)
  <1> SUFFICES ASSUME NEW k \in Keys
               PROVE  ~m[k].dup /\ (k \in OwnedStatusKeys(m) <=> HoldsIn(w, o, k))
    BY Zenon
  <1>1. /\ w.committed = {}
        /\ ~o.entries[k].dup
        /\ o.entries[k] \in Entry
    BY Zenon DEF LocalInv, Current, Phases, Resource
  <1>2. /\ ~m[k].dup
        /\ m[k].owned <=> o.entries[k].owned /\ k \notin w.released
    BY <1>1 DEF MarkReleased, Entry, NoEntry
  <1>3. /\ k \in OwnedStatusKeys(m) <=> k # EmptyKey /\ m[k].owned
        /\ k \in OwnedStatusKeys(o.entries) <=> k # EmptyKey /\ o.entries[k].owned
    BY Zenon DEF OwnedStatusKeys
  <1> QED
    BY <1>1, <1>2, <1>3, Zenon DEF HoldsIn

LEMMA OpenChunkLocal ==
    ASSUME NEW w \in Reconcile, NEW o, NEW st, NEW s, LocalInv(w, o, st, s),
           w.pc \in {"apply", "remove", "release"}, w.chunk = {},
           NEW keys \in SUBSET w.todo
    PROVE  LET n == [w EXCEPT !.chunk = keys, !.todo = @ \ keys, !.attempt = 0] IN
           /\ LocalInv(n, o, st, s)
           /\ \A k \in Keys : HoldsIn(n, o, k) <=> HoldsIn(w, o, k)
  <1> DEFINE n == [w EXCEPT !.chunk = keys, !.todo = @ \ keys, !.attempt = 0]
  <1>1. /\ n.pc = w.pc /\ n.inst = w.inst /\ n.chunk = keys /\ n.todo = w.todo \ keys
        /\ n.seen = w.seen /\ n.reads = w.reads /\ n.committed = w.committed
        /\ n.owns = w.owns /\ n.released = w.released
    BY Zenon DEF Reconcile
  <1> HIDE DEF n
  <1>2. Phases(n)
    BY <1>1, Zenon DEF LocalInv, Phases
  <1>3. Current(n, o)
    BY <1>1, Zenon DEF LocalInv, Current
  <1>4. ReadsValid(n, st, s)
    BY <1>1, Zenon DEF LocalInv, ReadsValid
  <1> QED
    BY <1>1, <1>2, <1>3, <1>4, Zenon DEF LocalInv, HoldsIn, n

\* The reconcile w has read the pair p of key k.
AfterRead(w, k, p) == [w EXCEPT !.seen = @ \cup {k}, !.reads[k] = p]

LEMMA ReadKeyLocal ==
    ASSUME NEW w \in Reconcile, NEW o, NEW st, NEW s, LocalInv(w, o, st, s),
           w.pc \in {"apply", "remove", "release"},
           NEW k \in w.chunk \ w.seen,
           ~s[k].present => s[k].flags = 0,
           w.pc \in {"remove", "release"} => s[k].present
    PROVE  /\ LocalInv(AfterRead(w, k, s[k]), o, st, s)
           /\ \A j \in Keys : HoldsIn(AfterRead(w, k, s[k]), o, j) <=> HoldsIn(w, o, j)
  <1> DEFINE n == AfterRead(w, k, s[k])
  <1>1. /\ n.pc = w.pc /\ n.inst = w.inst /\ n.chunk = w.chunk /\ n.todo = w.todo
        /\ n.seen = w.seen \cup {k} /\ n.committed = w.committed
        /\ n.owns = w.owns /\ n.released = w.released
    BY Zenon DEF Reconcile, AfterRead
  <1>2. /\ n.reads[k] = s[k]
        /\ \A j \in w.seen : n.reads[j] = w.reads[j]
    BY Zenon DEF Reconcile, AfterRead
  <1> HIDE DEF n
  <1>3. Phases(n)
    BY <1>1, Zenon DEF LocalInv, Phases
  <1>4. Current(n, o)
    BY <1>1, Zenon DEF LocalInv, Current
  <1>5. ReadsValid(n, st, s)
    BY <1>1, <1>2, ZenonT(60) DEF LocalInv, ReadsValid
  <1> QED
    BY <1>1, <1>3, <1>4, <1>5, Zenon DEF LocalInv, HoldsIn, n

LEMMA NextAttemptLocal ==
    ASSUME NEW w \in Reconcile, NEW o, NEW st, NEW s, LocalInv(w, o, st, s)
    PROVE  /\ LocalInv(NextAttempt(w), o, {}, s)
           /\ \A k \in Keys : HoldsIn(NextAttempt(w), o, k) <=> HoldsIn(w, o, k)
  <1> DEFINE n == NextAttempt(w)
  <1>1. /\ n.pc = w.pc /\ n.inst = w.inst /\ n.chunk = w.chunk /\ n.todo = w.todo
        /\ n.seen = {} /\ n.committed = w.committed
        /\ n.owns = w.owns /\ n.released = w.released
    BY Zenon DEF NextAttempt, Reconcile
  <1> HIDE DEF n
  <1>2. Phases(n)
    BY <1>1, Zenon DEF LocalInv, Phases
  <1>3. Current(n, o)
    BY <1>1, Zenon DEF LocalInv, Current
  <1>4. ReadsValid(n, {}, s)
    BY <1>1, Zenon DEF ReadsValid
  <1> QED
    BY <1>1, <1>2, <1>3, <1>4, Zenon DEF LocalInv, HoldsIn, n

\* A write of somebody else makes the reads of the keys it changes stale.
LEMMA WriteLocal ==
    ASSUME NEW w, NEW o, NEW st, NEW s, NEW t, LocalInv(w, o, st, s)
    PROVE  LocalInv(w, o, st \cup {k \in w.seen : t[k] # s[k]}, t)
  BY Zenon DEF LocalInv, ReadsValid

-----------------------------------------------------------------------------
(* A transaction that commits.                                             *)

\* A resource that owns a key is counted, so the key is there.
LEMMA HeldIsPresent ==
    ASSUME RefCountInv, NEW c \in CRs, NEW k \in Keys, HoldsIn(work[c], api[c], k)
    PROVE  store[k].flags > 0 /\ store[k].present
  <1>1. c \in Holders(k)
    BY Zenon DEF Holders
  <1>2. Cardinality(Holders(k)) # 0
    BY <1>1, HoldersFinite, FS_EmptySet, Zenon
  <1>3. store[k].flags \in Nat /\ store[k].flags # 0
    BY <1>2, HoldersFinite, Zenon DEF RefCountInv, RefCountExact, TypeOK, Pair
  <1> QED
    BY <1>3 DEF RefCountInv, StoreValid

LEMMA RecordLocal ==
    ASSUME NEW w \in Reconcile, NEW o, NEW st, NEW s, NEW t, LocalInv(w, o, st, s),
           w.pc \in {"apply", "remove", "release"}
    PROVE  /\ LocalInv(Record(w), o, {}, t)
           /\ \A k \in Keys :
                HoldsIn(Record(w), o, k) <=>
                    IF k \notin w.chunk THEN HoldsIn(w, o, k)
                    ELSE w.pc = "apply" /\ WillOwn(w, k)
  <1> DEFINE n == Record(w)
             mine == {k \in w.chunk : WillOwn(w, k)}
  <1>1. CASE w.pc = "apply"
    <2>1. /\ n.pc = "apply" /\ n.inst = w.inst /\ n.chunk = {} /\ n.todo = w.todo
          /\ n.seen = {} /\ n.committed = w.committed \cup w.chunk
          /\ n.owns = w.owns \cup mine /\ n.released = w.released
      BY <1>1, Zenon DEF Record, LeaveChunk, Reconcile
    <2>2. \A k : k \in mine <=> k \in w.chunk /\ WillOwn(w, k)
      BY Zenon
    <2> HIDE DEF n, mine
    <2>3. Phases(n)
      BY <1>1, <2>1, <2>2, Zenon DEF LocalInv, Phases
    <2>4. Current(n, o)
      BY <1>1, <2>1, Zenon DEF LocalInv, Current
    <2>5. ReadsValid(n, {}, t)
      BY <2>1, Zenon DEF ReadsValid
    <2>6. /\ w.owns \subseteq w.committed /\ w.chunk \cap (w.committed \cup w.released) = {}
      BY Zenon DEF LocalInv, Phases
    <2>7. ASSUME NEW k \in Keys
          PROVE  HoldsIn(n, o, k) <=> IF k \notin w.chunk THEN HoldsIn(w, o, k)
                                      ELSE w.pc = "apply" /\ WillOwn(w, k)
      BY <1>1, <2>1, <2>2, <2>6 DEF HoldsIn
    <2> QED
      BY <2>3, <2>4, <2>5, <2>7, Zenon DEF LocalInv, n
  <1>2. CASE w.pc # "apply"
    <2>1. /\ n.pc = w.pc /\ n.inst = w.inst /\ n.chunk = {} /\ n.todo = w.todo
          /\ n.seen = {} /\ n.committed = w.committed
          /\ n.owns = w.owns /\ n.released = w.released \cup w.chunk
      BY <1>2, Zenon DEF Record, LeaveChunk, Reconcile
    <2> HIDE DEF n
    <2>2. Phases(n)
      <3>1. RemovedKeys(w.inst) \subseteq OwnedStatusKeys(w.inst.entries)
        BY Zenon DEF RemovedKeys
      <3> QED
        BY <1>2, <2>1, <3>1, Zenon DEF LocalInv, Phases
    <2>3. Current(n, o)
      BY <1>2, <2>1, Zenon DEF LocalInv, Current
    <2>4. ReadsValid(n, {}, t)
      BY <2>1, Zenon DEF ReadsValid
    <2>5. ASSUME NEW k \in Keys
          PROVE  HoldsIn(n, o, k) <=> IF k \notin w.chunk THEN HoldsIn(w, o, k)
                                      ELSE w.pc = "apply" /\ WillOwn(w, k)
      BY <1>2, <2>1, Zenon DEF HoldsIn
    <2> QED
      BY <2>2, <2>3, <2>4, <2>5, Zenon DEF LocalInv, n
  <1> QED
    BY <1>1, <1>2, Zenon

\* What a transaction that goes through has read of a key of its chunk.
LEMMA ChunkKey ==
    ASSUME RefCountInv, NEW c \in CRs, ChunkRead(work[c]), TxnOk(c), NEW k \in work[c].chunk
    PROVE  LET w == work[c]
               r == w.reads[k]
               mine == OwnedStatusKeys(api[c].entries)
           IN  /\ k \in Keys /\ r \in Pair /\ store[k] \in Pair
               /\ w.inst.entries = api[c].entries
               /\ w.pc # "apply" => k \in mine /\ r.present
               /\ HoldsIn(w, api[c], k) <=> k \in mine
               /\ k \in mine => store[k].flags > 0 /\ store[k].present
               /\ k \in OpKeys(w)
               /\ TxnResult(w)[k] = Target(w, k)
               /\ r.flags = store[k].flags /\ r.present = store[k].present
               /\ w.pc # "apply" /\ Target(w, k).present => r = store[k]
  <1> DEFINE w == work[c]
             o == api[c]
             mine == OwnedStatusKeys(o.entries)
             r == w.reads[k]
  <1>1. /\ w \in Reconcile /\ o \in Resource /\ store \in [Keys -> Pair]
        /\ LocalInv(w, o, stale[c], store)
    BY Zenon DEF RefCountInv, TypeOK
  <1>2. k \in Keys
    BY <1>1, Zenon DEF Reconcile
  <1>3. /\ w.pc \in {"apply", "remove", "release"} /\ w.seen = w.chunk
        /\ store[k] \in Pair /\ (~store[k].present => store[k].flags = 0)
    BY <1>1, <1>2, Zenon DEF ChunkRead, RefCountInv, StoreValid
  <1>4. /\ k \notin w.committed /\ k \notin w.released
        /\ w.inst.entries = o.entries
        /\ w.pc # "apply" => k \in mine
        /\ w.pc # "apply" => r.present
        /\ ~r.present => r.flags = 0
        /\ k \notin stale[c] => r = store[k]
        /\ r \in Pair
    BY <1>1, <1>2, <1>3, Zenon DEF LocalInv, Phases, Current, ReadsValid, RemovedKeys, Reconcile
  <1>5. HoldsIn(w, o, k) <=> k \in mine
    BY <1>4, Zenon DEF HoldsIn
  <1>6. k \in mine => store[k].flags > 0 /\ store[k].present
    BY <1>2, <1>5, HeldIsPresent, Zenon
  <1>7. k \in OpKeys(w) /\ TxnResult(w)[k] = Target(w, k)
    BY <1>2, <1>4, Zenon DEF OpKeys, TxnResult
  <1>8. CasOk(c, k)
    BY <1>7, Zenon DEF TxnOk
  <1>9. r.flags = store[k].flags /\ r.present = store[k].present
    <2>1. w.pc = "apply" => Target(w, k).present
      BY Zenon DEF Target
    <2> QED
      BY <1>3, <1>4, <1>6, <1>8, <2>1, Zenon DEF CasOk, Pair
  <1>10. w.pc # "apply" /\ Target(w, k).present => r = store[k]
    BY <1>3, <1>4, <1>6, <1>8, Zenon DEF CasOk
  <1> QED
    BY <1>2, <1>3, <1>4, <1>5, <1>6, <1>7, <1>9, <1>10, Zenon

\* What a committed transaction leaves of a key: one owner more, one less or the
\* same number, as the counter says.
Counted(s, t, before, after) ==
    /\ ~t.present => t.flags = 0
    /\ (before <=> after) => t.flags = s.flags
    /\ (~before /\ after) => t.flags = s.flags + 1
    /\ (before /\ ~after) => t.flags = s.flags - 1
    /\ (s.present /\ s.flags = 0) => t.present /\ t.flags = 0

LEMMA CommitKey ==
    ASSUME RefCountInv, NEW c \in CRs, ChunkRead(work[c]), TxnOk(c), NEW k \in Keys
    PROVE  Counted(store[k], TxnResult(work[c])[k],
                   HoldsIn(work[c], api[c], k), HoldsIn(Record(work[c]), api[c], k))
  <1> DEFINE w == work[c]
             o == api[c]
             t == TxnResult(w)[k]
             before == HoldsIn(w, o, k)
             after == HoldsIn(Record(w), o, k)
  <1>1. /\ w \in Reconcile /\ store[k] \in Pair /\ o \in Resource
        /\ LocalInv(w, o, stale[c], store)
        /\ ~store[k].present => store[k].flags = 0
    BY Zenon DEF RefCountInv, TypeOK, StoreValid
  <1>2. w.pc \in {"apply", "remove", "release"} /\ w.seen = w.chunk
    BY Zenon DEF ChunkRead
  <1>3. after <=> IF k \notin w.chunk THEN before ELSE w.pc = "apply" /\ WillOwn(w, k)
    BY <1>1, <1>2, RecordLocal, Zenon
  <1>4. CASE k \notin w.chunk
    <2>1. t = store[k]
      BY <1>4, Zenon DEF TxnResult, OpKeys
    <2>2. before <=> after
      BY <1>3, <1>4, Zenon
    <2> HIDE DEF t, after, before
    <2>3. Counted(store[k], t, before, after)
      BY <1>1, <2>1, <2>2, Zenon DEF Counted
    <2> QED
      BY <2>3, Zenon DEF t, after, before
  <1>5. CASE k \in w.chunk
    <2> DEFINE mine == OwnedStatusKeys(o.entries)
               r == w.reads[k]
    <2>1. /\ w.inst.entries = o.entries
          /\ w.pc # "apply" => k \in mine /\ r.present
          /\ r \in Pair
      BY <1>5, ChunkKey, Zenon
    <2>2. before <=> k \in mine
      BY <1>5, ChunkKey, Zenon
    <2>3. k \in mine => store[k].flags > 0 /\ store[k].present
      BY <1>5, ChunkKey, Zenon
    <2>4. t = Target(w, k)
      BY <1>5, ChunkKey, Zenon
    <2>5. r.flags = store[k].flags /\ r.present = store[k].present
      BY <1>5, ChunkKey, Zenon
    <2>6. r.flags \in Nat /\ store[k].flags \in Nat
      BY <1>1, <2>1, Zenon DEF Pair
    <2>7. CASE w.pc = "apply"
      <3>1. t.present /\ t.flags = NewFlags(w, k)
        BY <2>4, <2>7 DEF Target
      <3>2. after <=> k \in mine \/ ~r.present \/ r.flags > 0
        BY <1>3, <1>5, <2>1, <2>7, Zenon DEF WillOwn
      <3>3. t.flags = IF k \in mine THEN r.flags
                      ELSE IF r.present /\ r.flags = 0 THEN 0 ELSE r.flags + 1
        BY <2>1, <3>1, Zenon DEF NewFlags
      <3> HIDE DEF t, after, before, mine, r
      <3>4. Counted(store[k], t, before, after)
        BY <2>2, <2>3, <2>5, <2>6, <3>1, <3>2, <3>3 DEF Counted
      <3> QED
        BY <3>4, Zenon DEF t, after, before
    <2>8. CASE w.pc # "apply"
      <3>1. ~after /\ before
        BY <1>3, <1>5, <2>1, <2>2, <2>8, Zenon
      <3>2. CASE r.flags <= 1
        <4>1. t.flags = 0 /\ ~t.present
          BY <2>4, <2>8, <3>2 DEF Target, Absent
        <4>2. store[k].flags = 1
          BY <2>1, <2>3, <2>5, <2>6, <2>8, <3>2
        <4> HIDE DEF t, after, before
        <4>3. Counted(store[k], t, before, after)
          BY <3>1, <4>1, <4>2 DEF Counted
        <4> QED
          BY <4>3, Zenon DEF t, after, before
      <3>3. CASE ~(r.flags <= 1)
        <4>1. t.flags = r.flags - 1 /\ t.present
          BY <2>1, <2>4, <2>8, <3>3, Zenon DEF Target, Pair
        <4>2. store[k].flags # 0
          BY <2>5, <2>6, <3>3
        <4> HIDE DEF t, after, before, r
        <4>3. Counted(store[k], t, before, after)
          BY <2>5, <3>1, <4>1, <4>2, Zenon DEF Counted
        <4> QED
          BY <4>3, Zenon DEF t, after, before
      <3> QED
        BY <3>2, <3>3, Zenon
    <2> QED
      BY <2>7, <2>8, Zenon
  <1> QED
    BY <1>4, <1>5, Zenon

LEMMA CommitStep ==
    ASSUME RefCountInv, TypeOK', NEW c \in CRs, Commit(c)
    PROVE  RefCountInv'
  <1> DEFINE n == Record(work[c])
             t == TxnResult(work[c])
  <1>1. ChunkRead(work[c]) /\ TxnOk(c) /\ api' = api /\ view' = view /\ store' = t
    BY Zenon DEF Commit, Write
  <1>2. work' = [work EXCEPT ![c] = n]
    BY Zenon DEF Commit
  <1>3. work'[c] = n /\ \A d \in CRs \ {c} : work'[d] = work[d]
    BY <1>2, Zenon DEF RefCountInv, TypeOK
  <1>4. /\ stale'[c] = {}
        /\ \A d \in CRs \ {c} : stale'[d] = stale[d] \cup {k \in work[d].seen : t[k] # store[k]}
    BY Zenon DEF Commit, Write
  <1>5. work[c].pc \in {"apply", "remove", "release"} /\ work[c] \in Reconcile
    BY <1>1, Zenon DEF ChunkRead, RefCountInv, TypeOK
  <1> HIDE DEF n, t
  <1>6. StoreValid'
    <2>1. \A k \in Keys : ~t[k].present => t[k].flags = 0
      BY <1>1, CommitKey, Zenon DEF Counted, t
    <2> QED
      BY <1>1, <2>1, Zenon DEF StoreValid
  <1>7. ASSUME NEW d \in CRs
        PROVE  LocalInv(work'[d], api'[d], stale'[d], store')
    <2>1. LocalInv(work[d], api[d], stale[d], store)
      BY Zenon DEF RefCountInv
    <2>2. CASE d = c
      <3>1. LocalInv(n, api[d], {}, t)
        BY <1>5, <2>1, <2>2, RecordLocal, Zenon DEF n
      <3> QED
        BY <1>1, <1>3, <1>4, <2>2, <3>1, Zenon
    <2>3. CASE d # c
      <3>1. LocalInv(work[d], api[d], stale[d] \cup {k \in work[d].seen : t[k] # store[k]}, t)
        BY <2>1, WriteLocal
      <3> QED
        BY <1>1, <1>3, <1>4, <2>3, <3>1, Zenon
    <2> QED
      BY <2>2, <2>3, Zenon
  <1>8. ASSUME NEW k \in Keys
        PROVE  store'[k].flags = Cardinality(Holders(k)')
    <2> DEFINE before == HoldsIn(work[c], api[c], k)
               after == HoldsIn(n, api[c], k)
    <2>1. /\ (before <=> after) => t[k].flags = store[k].flags
          /\ (~before /\ after) => t[k].flags = store[k].flags + 1
          /\ (before /\ ~after) => t[k].flags = store[k].flags - 1
      <3>1. Counted(store[k], t[k], before, after)
        BY <1>1, CommitKey, Zenon DEF n, t
      <3> QED
        BY <3>1, Zenon DEF Counted
    <2>2. store[k].flags = Cardinality(Holders(k))
      BY Zenon DEF RefCountInv, RefCountExact
    <2>3. IsFiniteSet(Holders(k))
      BY HoldersFinite, Zenon
    <2>4. \A d \in CRs : d \in Holders(k) <=> HoldsIn(work[d], api[d], k)
      BY Zenon DEF Holders
    <2>5. \A d \in CRs : d \in Holders(k)' <=> HoldsIn(work'[d], api[d], k)
      BY <1>1, Zenon DEF Holders
    <2>6. Holders(k) \subseteq CRs /\ Holders(k)' \subseteq CRs
      BY Zenon DEF Holders
    <2>7. \A d \in CRs \ {c} : d \in Holders(k)' <=> d \in Holders(k)
      BY <1>3, <2>4, <2>5, Zenon
    <2>8. /\ c \in Holders(k) <=> before
          /\ c \in Holders(k)' <=> after
      BY <1>3, <2>4, <2>5, Zenon
    <2> HIDE DEF before, after
    <2>9. CASE before <=> after
      <3>1. Holders(k)' = Holders(k)
        BY <2>6, <2>7, <2>8, <2>9
      <3> QED
        BY <1>1, <2>1, <2>2, <2>9, <3>1, Zenon
    <2>10. CASE ~before /\ after
      <3>1. Holders(k)' = Holders(k) \cup {c} /\ c \notin Holders(k)
        BY <2>6, <2>7, <2>8, <2>10, Zenon
      <3>2. Cardinality(Holders(k)') = Cardinality(Holders(k)) + 1
        BY <2>3, <3>1, FS_AddElement, Zenon
      <3> QED
        BY <1>1, <2>1, <2>2, <2>10, <3>2, Zenon
    <2>11. CASE before /\ ~after
      <3>1. Holders(k)' = Holders(k) \ {c} /\ c \in Holders(k)
        BY <2>6, <2>7, <2>8, <2>11, Zenon
      <3>2. Cardinality(Holders(k)') = Cardinality(Holders(k)) - 1
        BY <2>3, <3>1, FS_RemoveElement, Zenon
      <3> QED
        BY <1>1, <2>1, <2>2, <2>11, <3>2, Zenon
    <2> QED
      BY <2>9, <2>10, <2>11, Zenon
  <1>9. RefCountExact'
    BY <1>8, Zenon DEF RefCountExact
  <1> QED
    BY <1>1, <1>6, <1>7, <1>9, Zenon DEF RefCountInv

\* An application writes a key that no resource owns.
LEMMA ExternalStep ==
    ASSUME RefCountInv, TypeOK', NEW k \in Keys, NEW p,
           p.flags = 0, store[k].flags = 0,
           Write({}, [store EXCEPT ![k] = p]),
           api' = api, view' = view, work' = work
    PROVE  RefCountInv' /\ HoldersKept
  <1> DEFINE t == [store EXCEPT ![k] = p]
  <1>1. store' = t
    BY Zenon DEF Write
  <1>2. \A d \in CRs : stale'[d] = stale[d] \cup {j \in work[d].seen : t[j] # store[j]}
    BY Zenon DEF Write
  <1>3. \A j \in Keys : t[j] = IF j = k THEN p ELSE store[j]
    BY Zenon DEF RefCountInv, TypeOK
  <1> HIDE DEF t
  <1>4. StoreValid'
    BY <1>1, <1>3, Zenon DEF RefCountInv, StoreValid
  <1>5. \A d \in CRs : LocalInv(work'[d], api'[d], stale'[d], store')
    BY <1>1, <1>2, WriteLocal DEF RefCountInv
  <1>6. \A j \in Keys : Holders(j)' = Holders(j)
    BY Zenon DEF Holders
  <1>7. RefCountExact'
    BY <1>1, <1>3, <1>6, Zenon DEF RefCountInv, RefCountExact
  <1> QED
    BY <1>4, <1>5, <1>6, <1>7, Zenon DEF RefCountInv, HoldersKept

-----------------------------------------------------------------------------
(* The steps of a reconcile and of the users.                              *)

\* Nothing read means nothing stale.
LEMMA NothingStale ==
    ASSUME NEW w, NEW o, NEW st, NEW s, LocalInv(w, o, st, s),
           w.chunk = {} \/ w.pc \in {"idle", "addFinalizer", "status", "partial", "removeFinalizer"}
    PROVE  st = {}
  BY Zenon DEF LocalInv, Phases, ReadsValid

\* A change of a resource that keeps its finalizer and its status.
LEMMA ResourceLocal ==
    ASSUME NEW w, NEW o, NEW st, NEW s, LocalInv(w, o, st, s), NEW new,
           ~new.purge, ~new.exists => new = Gone,
           new.fin = o.fin, new.entries = o.entries
    PROVE  /\ LocalInv(w, new, st, s)
           /\ \A k \in Keys : HoldsIn(w, new, k) <=> HoldsIn(w, o, k)
  BY Zenon DEF LocalInv, Current, HoldsIn

LEMMA PublishStep ==
    ASSUME Recorded, RefCountInv, TypeOK', NEW c \in CRs, NEW w, NEW o, NEW requeued,
           Publish(c, o, requeued),
           work' = [work EXCEPT ![c] = w],
           stale' = stale, store' = store,
           LocalInv(w, o, stale[c], store),
           \A k \in Keys : HoldsIn(w, o, k) <=> HoldsIn(work[c], api[c], k)
    PROVE  RefCountInv' /\ HoldersKept
  <1>1. ~Lagging
    BY Zenon DEF Recorded, Lagging
  <1>2. api' = [api EXCEPT ![c] = o] /\ view' = [view EXCEPT ![c] = o]
    BY <1>1, Zenon DEF Publish
  <1> QED
    BY <1>2, LocalStep, Zenon

LEMMA WorkStep ==
    ASSUME RefCountInv, TypeOK', NEW c \in CRs, NEW w,
           work' = [work EXCEPT ![c] = w],
           api' = api, view' = view, store' = store,
           \A d \in CRs \ {c} : stale'[d] = stale[d],
           LocalInv(w, api[c], stale'[c], store),
           \A k \in Keys : HoldsIn(w, api[c], k) <=> HoldsIn(work[c], api[c], k)
    PROVE  RefCountInv' /\ HoldersKept
  <1>1. api' = [api EXCEPT ![c] = api[c]] /\ view' = [view EXCEPT ![c] = api[c]]
    BY Zenon DEF RefCountInv, TypeOK
  <1> QED
    BY <1>1, LocalStep, Zenon

LEMMA StatusStep ==
    ASSUME Recorded, RefCountInv, TypeOK', NEW c \in CRs,
           UpdateStatus(c) \/ UpdatePartial(c)
    PROVE  RefCountInv' /\ HoldersKept
  <1> DEFINE w == work[c]
             o == api[c]
  <1>1. /\ w \in Reconcile /\ o \in Resource /\ LocalInv(w, o, stale[c], store)
        /\ w.pc \in {"status", "partial"} /\ o.exists
    BY Zenon DEF RefCountInv, TypeOK, UpdateStatus, UpdatePartial, UpToDate
  <1>2. ASSUME NEW new \in Resource, new.exists, new.fin = o.fin, new.purge = o.purge,
               \A k \in Keys : /\ ~new.entries[k].dup
                               /\ k \in OwnedStatusKeys(new.entries) <=> HoldsIn(w, o, k)
        PROVE  /\ LocalInv(Idle, new, stale[c], store)
               /\ \A k \in Keys : HoldsIn(Idle, new, k) <=> HoldsIn(w, o, k)
    <2>1. o.fin /\ ~o.purge
      BY <1>1, Zenon DEF LocalInv, Current
    <2>2. Current(Idle, new)
      BY <1>2, <2>1, Zenon DEF Current, Idle
    <2>3. stale[c] = {}
      BY <1>1, NothingStale, Zenon
    <2>4. Idle.committed = {} /\ Idle.released = {}
      BY Zenon DEF Idle
    <2> QED
      BY <1>2, <2>2, <2>3, <2>4, IdleLocal, Zenon DEF HoldsIn
  <1>3. CASE UpdateStatus(c)
    <2> DEFINE m == MergeKVStatuses(o.entries, EntryStatuses(w), w.released)
               new == [o EXCEPT !.entries = MergeKVStatuses(@, EntryStatuses(w), w.released),
                                !.ok = ~w.err, !.obs = o.gen]
    <2>1. Publish(c, new, IF w.err THEN {c} ELSE {}) /\ w.pc = "status"
      BY <1>3, Zenon DEF UpdateStatus
    <2>2. new \in Resource
      <3>1. api'[c] = new
        BY <2>1, Zenon DEF Publish, RefCountInv, TypeOK
      <3> QED
        BY <3>1 DEF TypeOK
    <2>3. new.exists /\ new.fin = o.fin /\ new.purge = o.purge /\ new.entries = m
      BY <1>1, Zenon DEF Resource
    <2>4. \A k \in Keys : /\ ~m[k].dup
                          /\ k \in OwnedStatusKeys(m) <=> HoldsIn(w, o, k)
      BY <1>1, <2>1, StatusLocal, Zenon
    <2> HIDE DEF m, new
    <2>5. /\ LocalInv(Idle, new, stale[c], store)
          /\ \A k \in Keys : HoldsIn(Idle, new, k) <=> HoldsIn(w, o, k)
      BY <1>2, <2>2, <2>3, <2>4, Zenon
    <2>6. work' = [work EXCEPT ![c] = Idle] /\ stale' = stale /\ store' = store
      BY <1>3, Zenon DEF UpdateStatus, End
    <2> QED
      BY <2>1, <2>5, <2>6, PublishStep, Zenon
  <1>4. CASE UpdatePartial(c)
    <2> DEFINE m == MarkReleased(o.entries, w.released)
               new == [o EXCEPT !.entries = MarkReleased(@, w.released)]
    <2>1. Publish(c, new, {c}) /\ w.pc = "partial"
      BY <1>4, Zenon DEF UpdatePartial
    <2>2. new \in Resource
      <3>1. api'[c] = new
        BY <2>1, Zenon DEF Publish, RefCountInv, TypeOK
      <3> QED
        BY <3>1 DEF TypeOK
    <2>3. new.exists /\ new.fin = o.fin /\ new.purge = o.purge /\ new.entries = m
      BY <1>1, Zenon DEF Resource
    <2>4. \A k \in Keys : /\ ~m[k].dup
                          /\ k \in OwnedStatusKeys(m) <=> HoldsIn(w, o, k)
      BY <1>1, <2>1, PartialLocal, Zenon
    <2> HIDE DEF m, new
    <2>5. /\ LocalInv(Idle, new, stale[c], store)
          /\ \A k \in Keys : HoldsIn(Idle, new, k) <=> HoldsIn(w, o, k)
      BY <1>2, <2>2, <2>3, <2>4, Zenon
    <2>6. work' = [work EXCEPT ![c] = Idle] /\ stale' = stale /\ store' = store
      BY <1>4, Zenon DEF UpdatePartial, End
    <2> QED
      BY <2>1, <2>5, <2>6, PublishStep, Zenon
  <1> QED
    BY <1>3, <1>4, Zenon

LEMMA UserStep ==
    ASSUME Recorded, RefCountInv, TypeOK', NEW c \in CRs,
           Create(c) \/ Edit(c) \/ Delete(c)
    PROVE  RefCountInv' /\ HoldersKept
  <1> DEFINE w == work[c]
             o == api[c]
  <1>1. /\ w \in Reconcile /\ o \in Resource /\ LocalInv(w, o, stale[c], store)
        /\ ~o.purge /\ (~o.exists => o = Gone) /\ (~o.fin => o.entries = NoEntries)
    BY Zenon DEF RefCountInv, TypeOK, LocalInv, Current
  <1>2. /\ work' = [work EXCEPT ![c] = w]
        /\ stale' = stale /\ store' = store
    BY Zenon DEF RefCountInv, TypeOK, Create, Edit, Delete
  <1>3. ASSUME NEW new, ~new.purge, ~new.exists => new = Gone,
               new.fin = o.fin, new.entries = o.entries, Publish(c, new, {})
        PROVE  RefCountInv' /\ HoldersKept
    BY <1>1, <1>2, <1>3, ResourceLocal, PublishStep, Zenon
  <1>4. CASE Create(c)
    <2>1. PICK s \in Specs, p \in PurgeModes :
              Publish(c, [Gone EXCEPT !.exists = TRUE, !.gen = 1, !.spec = s, !.purge = p], {})
      BY <1>4, Zenon DEF Create
    <2> DEFINE new == [Gone EXCEPT !.exists = TRUE, !.gen = 1, !.spec = s, !.purge = p]
    <2>2. o = Gone
      BY <1>1, <1>4, Zenon DEF Create
    <2>3. p = FALSE
      BY Zenon DEF Recorded
    <2>4. ~new.purge /\ new.exists /\ new.fin = o.fin /\ new.entries = o.entries
      BY <2>2, <2>3, Zenon DEF Gone
    <2> HIDE DEF new
    <2> QED
      BY <1>3, <2>1, <2>4, Zenon DEF new
  <1>5. CASE Edit(c)
    <2>1. PICK s \in Specs, p \in PurgeModes :
              Publish(c, [o EXCEPT !.gen = @ + 1, !.spec = s, !.purge = p], {})
      BY <1>5, Zenon DEF Edit
    <2> DEFINE new == [o EXCEPT !.gen = @ + 1, !.spec = s, !.purge = p]
    <2>2. o.exists /\ p = FALSE
      BY <1>5, Zenon DEF Edit, Recorded
    <2>3. ~new.purge /\ new.exists /\ new.fin = o.fin /\ new.entries = o.entries
      BY <1>1, <2>2, Zenon DEF Resource
    <2> HIDE DEF new
    <2> QED
      BY <1>3, <2>1, <2>3, Zenon DEF new
  <1>6. CASE Delete(c) /\ o.fin
    <2> DEFINE new == [o EXCEPT !.deleting = TRUE, !.gen = @ + 1]
    <2>1. Publish(c, new, {}) /\ o.exists
      BY <1>6, Zenon DEF Delete
    <2>2. ~new.purge /\ new.exists /\ new.fin = o.fin /\ new.entries = o.entries
      BY <1>1, <2>1, Zenon DEF Resource
    <2> HIDE DEF new
    <2> QED
      BY <1>3, <2>1, <2>2, Zenon
  <1>7. CASE Delete(c) /\ ~o.fin
    <2>1. Publish(c, Gone, {})
      BY <1>7, Zenon DEF Delete
    <2>2. ~Gone.purge /\ Gone.fin = o.fin /\ Gone.entries = o.entries
      BY <1>1, <1>7, Zenon DEF Gone, Resource
    <2> QED
      BY <1>3, <2>1, <2>2, Zenon
  <1> QED
    BY <1>4, <1>5, <1>6, <1>7, Zenon

LEMMA FinalizerStep ==
    ASSUME Recorded, RefCountInv, TypeOK', NEW c \in CRs,
           AddFinalizer(c) \/ RemoveFinalizer(c) \/ UpdateFails(c)
    PROVE  RefCountInv' /\ HoldersKept
  <1> DEFINE w == work[c]
             o == api[c]
  <1>1. /\ w \in Reconcile /\ o \in Resource /\ LocalInv(w, o, stale[c], store)
        /\ Current(w, o) /\ Phases(w)
    BY Zenon DEF RefCountInv, TypeOK, LocalInv
  <1>2. Idle.committed = {} /\ Idle.released = {}
    BY Zenon DEF Idle
  <1>3. CASE AddFinalizer(c)
    <2> DEFINE n == [w EXCEPT !.pc = "apply"]
               new == [o EXCEPT !.fin = TRUE]
    <2>1. /\ w.pc = "addFinalizer" /\ Publish(c, new, {}) /\ o.exists
          /\ stale' = stale /\ store' = store
      BY <1>3, Zenon DEF AddFinalizer, UpToDate, RefCountInv
    <2>2. work' = [work EXCEPT ![c] = n]
      BY <1>3, Zenon DEF AddFinalizer
    <2>3. /\ n.pc = "apply" /\ n.inst = w.inst /\ n.chunk = w.chunk /\ n.todo = w.todo
          /\ n.seen = w.seen /\ n.reads = w.reads /\ n.committed = w.committed
          /\ n.owns = w.owns /\ n.released = w.released
      BY <1>1, Zenon DEF Reconcile
    <2>4. /\ new.exists = o.exists /\ new.purge = o.purge /\ new.fin
          /\ new.entries = o.entries
      BY <1>1, Zenon DEF Resource
    <2> HIDE DEF n, new
    <2>5. Phases(n)
      BY <1>1, <2>1, <2>3, Zenon DEF Phases
    <2>6. Current(n, new)
      BY <1>1, <2>1, <2>3, <2>4, Zenon DEF Current
    <2>7. ReadsValid(n, stale[c], store)
      BY <1>1, <2>1, <2>3 DEF LocalInv, ReadsValid
    <2>8. \A k \in Keys : HoldsIn(n, new, k) <=> HoldsIn(w, o, k)
      BY <2>3, <2>4, Zenon DEF HoldsIn
    <2> QED
      BY <2>1, <2>2, <2>5, <2>6, <2>7, <2>8, PublishStep, Zenon DEF LocalInv
  <1>4. CASE RemoveFinalizer(c)
    <2>1. /\ w.pc = "removeFinalizer" /\ Publish(c, Gone, {})
          /\ work' = [work EXCEPT ![c] = Idle] /\ stale' = stale /\ store' = store
      BY <1>4, Zenon DEF RemoveFinalizer, End
    <2>2. stale[c] = {}
      BY <1>1, <2>1, NothingStale, Zenon
    <2>3. Current(Idle, Gone)
      BY Zenon DEF Current, Idle, Gone, NoEntries, NoEntry
    <2>4. LocalInv(Idle, Gone, stale[c], store)
      BY <2>2, <2>3, GoneType, IdleLocal, Zenon
    <2>5. \A k \in Keys : ~HoldsIn(w, o, k)
      BY <1>1, <2>1, Zenon DEF Phases, Current, HoldsIn
    <2>6. \A k \in Keys : ~HoldsIn(Idle, Gone, k)
      BY Zenon DEF HoldsIn, Idle, Gone, OwnedStatusKeys, NoEntries, NoEntry
    <2> QED
      BY <2>1, <2>4, <2>5, <2>6, PublishStep, Zenon
  <1>5. CASE UpdateFails(c)
    <2>1. /\ w.pc \in {"addFinalizer", "removeFinalizer", "status", "partial"}
          /\ work' = [work EXCEPT ![c] = Idle]
          /\ api' = api /\ view' = view /\ stale' = stale /\ store' = store
      BY <1>5, Zenon DEF UpdateFails, End
    <2>2. ~o.exists
      BY <1>5, Zenon DEF UpdateFails, Fault, Recorded, RefCountInv
    <2>3. w.pc = "addFinalizer"
      <3>1. o = Gone
        BY <1>1, <2>2, Zenon DEF Current
      <3>2. ~Gone.fin
        BY Zenon DEF Gone
      <3> HIDE DEF w, o
      <3> QED
        BY <1>1, <2>1, <3>1, <3>2, Zenon DEF Current
    <2>4. stale[c] = {} /\ w.committed = {} /\ w.released = {}
      BY <1>1, <2>3, NothingStale, Zenon DEF Phases
    <2>5. LocalInv(Idle, o, stale[c], store)
      BY <1>1, <2>4, IdleLocal, Zenon
    <2>6. \A k \in Keys : HoldsIn(Idle, o, k) <=> HoldsIn(w, o, k)
      BY <1>2, <2>4, Zenon DEF HoldsIn
    <2> QED
      BY <2>1, <2>5, <2>6, WorkStep, Zenon
  <1> QED
    BY <1>3, <1>4, <1>5, Zenon

LEMMA BatchStep ==
    ASSUME Recorded, RefCountInv, TypeOK', NEW c \in CRs,
           Start(c) \/ OpenChunk(c) \/ ReadKey(c) \/ Reject(c) \/ RequestFails(c) \/ BatchesDone(c)
    PROVE  RefCountInv' /\ HoldersKept
  <1> DEFINE w == work[c]
             o == api[c]
  <1>1. w \in Reconcile /\ o \in Resource /\ LocalInv(w, o, stale[c], store)
    BY Zenon DEF RefCountInv, TypeOK
  <1>2. api' = api /\ view' = view /\ store' = store
    BY Zenon DEF Start, OpenChunk, ReadKey, Reject, RequestFails, BatchesDone
  <1>3. \A d \in CRs \ {c} : stale'[d] = stale[d]
    BY Zenon DEF Start, OpenChunk, ReadKey, Reject, RequestFails, BatchesDone, RefCountInv, TypeOK
  <1>4. CASE Start(c)
    <2>1. w.pc = "idle" /\ work' = [work EXCEPT ![c] = Begin(o)] /\ stale' = stale
      BY <1>4, Zenon DEF Start, RefCountInv
    <2>2. stale[c] = {} /\ w.committed = {} /\ w.released = {}
      BY <1>1, <2>1, NothingStale, Zenon DEF LocalInv, Phases
    <2>3. Current(Idle, o)
      BY <1>1, <2>1, Zenon DEF LocalInv, Current, Idle
    <2>4. /\ LocalInv(Begin(o), o, stale'[c], store)
          /\ Begin(o).committed = {} /\ Begin(o).released = {}
      BY <1>1, <2>1, <2>2, <2>3, BeginLocal, Zenon
    <2>5. \A k \in Keys : HoldsIn(Begin(o), o, k) <=> HoldsIn(w, o, k)
      BY <2>2, <2>4 DEF HoldsIn
    <2> QED
      BY <1>2, <1>3, <2>1, <2>4, <2>5, WorkStep, Zenon
  <1>5. CASE OpenChunk(c)
    <2>1. /\ w.pc \in {"apply", "remove", "release"} /\ w.chunk = {} /\ stale' = stale
      BY <1>5, Zenon DEF OpenChunk
    <2>2. PICK s \in SUBSET w.todo :
            work' = [work EXCEPT ![c] = [w EXCEPT !.chunk = s, !.todo = @ \ s, !.attempt = 0]]
      BY <1>5, Zenon DEF OpenChunk
    <2> DEFINE n == [w EXCEPT !.chunk = s, !.todo = @ \ s, !.attempt = 0]
    <2>3. /\ LocalInv(n, o, stale[c], store)
          /\ \A k \in Keys : HoldsIn(n, o, k) <=> HoldsIn(w, o, k)
      BY <1>1, <2>1, OpenChunkLocal, Zenon
    <2> HIDE DEF n
    <2> QED
      BY <1>2, <1>3, <2>1, <2>2, <2>3, WorkStep, Zenon DEF n
  <1>6. CASE ReadKey(c)
    <2>1. /\ w.pc \in {"apply", "remove", "release"} /\ stale' = stale
      BY <1>6, Zenon DEF ReadKey
    <2>2. PICK k \in w.chunk \ w.seen :
            work' = [work EXCEPT ![c] = AfterRead(w, k, store[k])]
      BY <1>6, Zenon DEF ReadKey, AfterRead
    <2> DEFINE n == AfterRead(w, k, store[k])
    <2>3. k \in Keys
      BY <1>1, Zenon DEF Reconcile
    <2>4. ~store[k].present => store[k].flags = 0
      BY <2>3, Zenon DEF RefCountInv, StoreValid
    <2>5. w.pc \in {"remove", "release"} => store[k].present
      <3>1. w.pc \in {"remove", "release"} => HoldsIn(w, o, k)
        BY <1>1, Zenon DEF LocalInv, Phases, Current, RemovedKeys, HoldsIn
      <3> QED
        BY <2>3, <3>1, HeldIsPresent, Zenon
    <2>6. /\ LocalInv(n, o, stale[c], store)
          /\ \A j \in Keys : HoldsIn(n, o, j) <=> HoldsIn(w, o, j)
      BY <1>1, <2>1, <2>4, <2>5, ReadKeyLocal
    <2> HIDE DEF n
    <2> QED
      BY <1>2, <1>3, <2>1, <2>2, <2>6, WorkStep, Zenon DEF n
  <1>7. ASSUME NEW failed \in BOOLEAN, w.pc \in {"apply", "remove", "release"},
               failed \/ (w.todo = {} /\ w.chunk = {}),
               LeaveBatches(c, failed), stale'[c] = {}
        PROVE  RefCountInv' /\ HoldersKept
    <2> DEFINE n == AfterBatches(w, failed)
    <2>1. work' = [work EXCEPT ![c] = n]
      BY <1>7, Zenon DEF LeaveBatches
    <2>2. /\ LocalInv(n, o, {}, store)
          /\ \A k \in Keys : HoldsIn(n, o, k) <=> HoldsIn(w, o, k)
      BY <1>1, <1>7, AfterBatchesLocal, Zenon
    <2> HIDE DEF n
    <2> QED
      BY <1>2, <1>3, <1>7, <2>1, <2>2, WorkStep, ZenonT(60)
  <1>8. CASE Reject(c)
    <2>1. w.pc \in {"apply", "remove", "release"} /\ stale'[c] = {}
      BY <1>8, Zenon DEF Reject, ChunkRead, RefCountInv, TypeOK
    <2>2. CASE work' = [work EXCEPT ![c] = NextAttempt(w)]
      <3> DEFINE n == NextAttempt(w)
      <3>1. /\ LocalInv(n, o, stale'[c], store)
            /\ \A k \in Keys : HoldsIn(n, o, k) <=> HoldsIn(w, o, k)
        BY <1>1, <2>1, NextAttemptLocal, Zenon
      <3> HIDE DEF n
      <3> QED
        BY <1>2, <1>3, <2>2, <3>1, WorkStep, Zenon DEF n
    <2>3. CASE LeaveBatches(c, TRUE)
      BY <1>7, <2>1, <2>3, Zenon
    <2> QED
      BY <1>8, <2>2, <2>3, Zenon DEF Reject
  <1>9. CASE RequestFails(c)
    <2>1. w.pc \in {"apply", "remove", "release"}
      BY <1>1, <1>9, Zenon DEF RequestFails, LocalInv, Phases, Reconcile
    <2>2. LeaveBatches(c, TRUE) /\ stale'[c] = {}
      BY <1>9, Zenon DEF RequestFails, RefCountInv, TypeOK
    <2> QED
      BY <1>7, <2>1, <2>2, Zenon
  <1>10. CASE BatchesDone(c)
    <2>1. /\ w.pc \in {"apply", "remove", "release"} /\ w.chunk = {} /\ w.todo = {}
      BY <1>1, <1>10, Zenon DEF BatchesDone, LocalInv, Phases
    <2>2. LeaveBatches(c, FALSE) /\ stale'[c] = {}
      BY <1>1, <1>10, <2>1, NothingStale, Zenon DEF BatchesDone
    <2> QED
      BY <1>7, <2>1, <2>2, Zenon
  <1> QED
    BY <1>4, <1>5, <1>6, <1>8, <1>9, <1>10, Zenon

\* RefCountInv is inductive.
LEMMA RefCountStep ==
    ASSUME Recorded, RefCountInv, [Next]_vars
    PROVE  RefCountInv'
  <1>1. TypeOK'
    BY Typing, Zenon DEF RefCountInv
  <1>2. ASSUME NEW c \in CRs, Start(c) \/ ReconcileStep(c) \/ Sync(c)
        PROVE  RefCountInv'
    <2>1. work[c].pc # "purge" /\ ~Lagging /\ "lostReply" \notin Faults
      BY Zenon DEF RefCountInv, LocalInv, Phases, Recorded, Lagging
    <2>2. ~PurgeKey(c) /\ ~PurgeTree(c) /\ ~PurgeFails(c)
      BY <2>1, Zenon DEF PurgeKey, PurgeTree, PurgeFails
    <2>3. ~Sync(c) /\ ~ReplyLost(c)
      BY <2>1, Zenon DEF Sync, Deliver, ReplyLost, Fault
    <2> QED
      BY <1>1, <1>2, <2>2, <2>3, BatchStep, CommitStep, FinalizerStep, StatusStep, Zenon
         DEF ReconcileStep
  <1>3. ASSUME NEW op \in Operators, Crash(op)
        PROVE  RefCountInv'
    BY <1>3, Zenon DEF Crash, Fault, Recorded
  <1>4. ASSUME NEW c \in CRs, Create(c) \/ Edit(c) \/ Delete(c)
        PROVE  RefCountInv'
    BY <1>1, <1>4, UserStep, Zenon
  <1>5. ASSUME NEW k \in AppKeys, ExternalPut(k)
        PROVE  RefCountInv'
    <2> DEFINE p == [present |-> TRUE, flags |-> 0, val |-> ExternalValue]
    <2>1. k \in Keys /\ p.flags = 0
      BY ConstantsAssumption, Zenon
    <2>2. /\ store[k].flags = 0 /\ Write({}, [store EXCEPT ![k] = p])
          /\ api' = api /\ view' = view /\ work' = work
      BY <1>5, Zenon DEF ExternalPut
    <2> HIDE DEF p
    <2> QED
      BY <1>1, <2>1, <2>2, ExternalStep, Zenon
  <1>6. ASSUME NEW k \in AppKeys, ExternalDelete(k)
        PROVE  RefCountInv'
    <2>1. k \in Keys /\ Absent.flags = 0
      BY ConstantsAssumption, Zenon DEF Absent
    <2>2. /\ store[k].flags = 0 /\ Write({}, [store EXCEPT ![k] = Absent])
          /\ api' = api /\ view' = view /\ work' = work
      BY <1>6, Zenon DEF ExternalDelete
    <2> QED
      BY <1>1, <2>1, <2>2, ExternalStep, Zenon
  <1>7. CASE UNCHANGED vars
    BY <1>1, <1>7, Zenon DEF vars, RefCountInv, StoreValid, RefCountExact, Holders
  <1> QED
    BY <1>2, <1>3, <1>4, <1>5, <1>6, <1>7 DEF Next

LEMMA RefCountInit ==
    ASSUME Recorded, Init
    PROVE  RefCountInv
  <1>1. TypeOK
    BY GoneType, Zenon DEF Init, TypeOK, Absent, Pair
  <1>2. view = api /\ StoreValid
    BY Zenon DEF Init, StoreValid, Absent
  <1>3. Current(Idle, Gone)
    BY Zenon DEF Current, Idle, Gone, NoEntries, NoEntry
  <1>4. \A c \in CRs : LocalInv(work[c], api[c], stale[c], store)
    BY <1>3, GoneType, IdleLocal, Zenon DEF Init
  <1>5. ASSUME NEW k \in Keys
        PROVE  store[k].flags = Cardinality(Holders(k))
    <2>1. \A c \in CRs : work[c] = Idle /\ api[c] = Gone
      BY Zenon DEF Init
    <2>2. ~HoldsIn(Idle, Gone, k)
      BY Zenon DEF HoldsIn, Idle, Gone, OwnedStatusKeys, NoEntries, NoEntry
    <2>3. Holders(k) = {}
      BY <2>1, <2>2, Zenon DEF Holders
    <2> QED
      BY <2>3, FS_EmptySet, Zenon DEF Init, Absent
  <1> QED
    BY <1>1, <1>2, <1>4, <1>5, Zenon DEF RefCountInv, RefCountExact

\* With failing requests, CAS conflicts, several operators and applications that
\* write to the store, the counter in Flags is exact as long as no reply, status
\* update or reconcile is lost, the cache does not lag, no resource asks for a
\* purge and none declares a key twice.
THEOREM RefCount ==
    ASSUME Recorded
    PROVE  Spec => []RefCountExact
  <1>1. Init => RefCountInv
    BY RefCountInit, Zenon
  <1>2. RefCountInv /\ [Next]_vars => RefCountInv'
    BY RefCountStep, Zenon
  <1>3. RefCountInv => RefCountExact
    BY Zenon DEF RefCountInv
  <1> QED
    BY <1>1, <1>2, <1>3, PTL DEF Spec

-----------------------------------------------------------------------------
(* Keys created by applications.                                           *)

ForeignInv == RefCountInv /\ \A k \in foreign : store[k].present /\ store[k].flags = 0

LEMMA ForeignStep ==
    ASSUME Recorded, ForeignInv, [Next]_vars
    PROVE  ForeignInv'
  <1>1. RefCountInv' /\ RefCountInv /\ foreign \subseteq Keys /\ store \in [Keys -> Pair]
    BY RefCountStep, Zenon DEF ForeignInv, RefCountInv, TypeOK
  <1> SUFFICES ASSUME NEW k \in foreign'
               PROVE  store'[k].present /\ store'[k].flags = 0
    BY <1>1, Zenon DEF ForeignInv
  <1>2. CASE foreign' = foreign /\ store' = store
    BY <1>2, Zenon DEF ForeignInv
  <1>3. ASSUME NEW c \in CRs, Commit(c)
        PROVE  store'[k].present /\ store'[k].flags = 0
    <2>1. /\ ChunkRead(work[c]) /\ TxnOk(c) /\ foreign' = foreign
          /\ store' = TxnResult(work[c])
      BY <1>3, Zenon DEF Commit, Write
    <2>2. k \in Keys /\ store[k].present /\ store[k].flags = 0
      BY <1>1, <2>1, Zenon DEF ForeignInv
    <2> QED
      BY <1>1, <2>1, <2>2, CommitKey, Zenon DEF Counted
  <1>4. ASSUME NEW j \in AppKeys, ExternalPut(j)
        PROVE  store'[k].present /\ store'[k].flags = 0
    <2>1. /\ store' = [store EXCEPT ![j] = [present |-> TRUE, flags |-> 0, val |-> ExternalValue]]
          /\ k \in foreign \cup {j}
      BY <1>4, Zenon DEF ExternalPut, Write
    <2>2. j \in Keys
      BY ConstantsAssumption, Zenon
    <2> QED
      BY <1>1, <2>1, <2>2, Zenon DEF ForeignInv
  <1>5. ASSUME NEW j \in AppKeys, ExternalDelete(j)
        PROVE  store'[k].present /\ store'[k].flags = 0
    <2>1. store' = [store EXCEPT ![j] = Absent] /\ k \in foreign \ {j}
      BY <1>5, Zenon DEF ExternalDelete, Write
    <2> QED
      BY <1>1, <2>1, Zenon DEF ForeignInv
  <1>6. ASSUME NEW c \in CRs, Start(c) \/ ReconcileStep(c) \/ Sync(c), ~Commit(c)
        PROVE  foreign' = foreign /\ store' = store
    <2>1. work[c].pc # "purge" /\ "lostReply" \notin Faults
      BY <1>1, Zenon DEF RefCountInv, LocalInv, Phases, Recorded
    <2>2. ~PurgeKey(c) /\ ~PurgeTree(c) /\ ~PurgeFails(c) /\ ~ReplyLost(c)
      BY <2>1, Zenon DEF PurgeKey, PurgeTree, PurgeFails, ReplyLost, Fault
    <2> QED
      BY <1>6, <2>2, Zenon DEF Start, Sync, ReconcileStep, AddFinalizer, RemoveFinalizer, UpdateFails,
         OpenChunk, ReadKey, Reject, RequestFails, BatchesDone, UpdateStatus, UpdatePartial
  <1>7. ASSUME NEW c \in CRs, Create(c) \/ Edit(c) \/ Delete(c)
        PROVE  foreign' = foreign /\ store' = store
    BY <1>7, Zenon DEF Create, Edit, Delete
  <1>8. ASSUME NEW op \in Operators, Crash(op)
        PROVE  foreign' = foreign /\ store' = store
    BY <1>8, Zenon DEF Crash
  <1>9. CASE UNCHANGED vars
    BY <1>2, <1>9, Zenon DEF vars
  <1> QED
    BY <1>2, <1>3, <1>4, <1>5, <1>6, <1>7, <1>8, <1>9 DEF Next

\* Under the same conditions no reconcile deletes a key an application created.
THEOREM ExternalKeys ==
    ASSUME Recorded
    PROVE  Spec => []ExternalKeysKept
  <1>1. Init => ForeignInv
    BY RefCountInit, Zenon DEF ForeignInv, Init
  <1>2. ForeignInv /\ [Next]_vars => ForeignInv'
    BY ForeignStep, Zenon
  <1>3. ForeignInv => ExternalKeysKept
    BY Zenon DEF ForeignInv, ExternalKeysKept
  <1> QED
    BY <1>1, <1>2, <1>3, PTL DEF Spec

-----------------------------------------------------------------------------
(* Refinement.                                                             *)
PairOf(s) == [k \in Keys |-> [present |-> s[k].present, val |-> s[k].val]]

OwnersNow == [k \in Keys |-> Holders(k)]

\* A key is external in the abstract store if it is there with counter 0.
LEMMA ExternalCounter ==
    ASSUME RefCountInv, NEW k \in Keys
    PROVE  /\ Holders(k) = {} <=> store[k].flags = 0
           /\ Ownership!External(k) <=> store[k].present /\ store[k].flags = 0
  <1>1. store[k].flags = Cardinality(Holders(k)) /\ IsFiniteSet(Holders(k))
    BY HoldersFinite, Zenon DEF RefCountInv, RefCountExact
  <1>2. Holders(k) = {} <=> store[k].flags = 0
    BY <1>1, FS_EmptySet, Zenon
  <1> QED
    BY <1>2, Zenon DEF Ownership!External

LEMMA OnlyMember ==
    ASSUME NEW S, IsFiniteSet(S), NEW c \in S
    PROVE  S = {c} <=> Cardinality(S) <= 1
  <1>1. S \ {c} = {} <=> S = {c}
    BY Zenon
  <1>2. /\ IsFiniteSet(S \ {c}) /\ Cardinality(S \ {c}) \in Nat
        /\ Cardinality(S \ {c}) = Cardinality(S) - 1
    BY FS_RemoveElement, FS_CardinalityType, Zenon
  <1>3. Cardinality(S) \in Nat
    BY FS_CardinalityType, Zenon
  <1>4. Cardinality(S \ {c}) = 0 <=> S \ {c} = {}
    BY <1>2, FS_EmptySet, Zenon
  <1> QED
    BY <1>1, <1>2, <1>3, <1>4

\* The value an apply writes is one that a resource declares.
LEMMA DeclaredValue ==
    ASSUME DistinctKeys, NEW s \in Specs \cup {<<>>}, NEW k \in ValidKeys(s)
    PROVE  LastValue(s, k) \in Values
  <1>1. PICK i \in DOMAIN s : s[i].key = k
    BY Zenon DEF ValidKeys, Declared
  <1>2. i \in LastIndex(s, k)
    BY <1>1, NoDuplicates, Zenon DEF Duplicated
  <1>3. \A j \in LastIndex(s, k) : j \in DOMAIN s
    BY Zenon DEF LastIndex
  <1>4. s \in Specs
    BY <1>1
  <1>5. s \in Seq([key : Keys, val : Values])
    BY <1>4, ConstantsAssumption, Zenon
  <1>6. \A j \in DOMAIN s : s[j] \in [key : Keys, val : Values]
    BY <1>5, SeqElement, Zenon
  <1>7. \A j \in DOMAIN s : s[j].val \in Values
    BY <1>6, Zenon
  <1> QED
    BY <1>2, <1>3, <1>7, Zenon DEF LastValue

\* What a transaction changes for one key, as the abstract store sees it.
LEMMA CommitOwners ==
    ASSUME RefCountInv, NEW c \in CRs, Commit(c), NEW k \in Keys
    PROVE  LET w == work[c] IN
           Holders(k)' = IF k \notin w.chunk THEN Holders(k)
                         ELSE IF w.pc = "apply" /\ ~Ownership!External(k)
                         THEN Holders(k) \cup {c}
                         ELSE Holders(k) \ {c}
  <1> DEFINE w == work[c]
  <1>1. /\ ChunkRead(w) /\ TxnOk(c) /\ api' = api
        /\ work' = [work EXCEPT ![c] = Record(w)]
        /\ w \in Reconcile /\ api[c] \in Resource /\ LocalInv(w, api[c], stale[c], store)
        /\ work \in [CRs -> Reconcile]
    BY Zenon DEF Commit, RefCountInv, TypeOK
  <1>2. w.pc \in {"apply", "remove", "release"}
    BY <1>1, Zenon DEF ChunkRead
  <1>3. HoldsIn(Record(w), api[c], k) <=>
          IF k \notin w.chunk THEN HoldsIn(w, api[c], k) ELSE w.pc = "apply" /\ WillOwn(w, k)
    BY <1>1, <1>2, RecordLocal, Zenon
  <1>4. k \in w.chunk => (WillOwn(w, k) <=> ~Ownership!External(k))
    <2> SUFFICES ASSUME k \in w.chunk
                 PROVE  WillOwn(w, k) <=> ~Ownership!External(k)
      BY Zenon
    <2>1. /\ w.inst.entries = api[c].entries
          /\ k \in OwnedStatusKeys(api[c].entries) => store[k].flags > 0
          /\ w.reads[k].flags = store[k].flags /\ w.reads[k].present = store[k].present
          /\ store[k].flags \in Nat
      BY <1>1, ChunkKey, Zenon DEF Pair
    <2> QED
      BY <2>1, ExternalCounter DEF WillOwn
  <1>5. \A d \in CRs : d \in Holders(k) <=> HoldsIn(work[d], api[d], k)
    BY Zenon DEF Holders
  <1>6. \A d \in CRs : d \in Holders(k)' <=> HoldsIn(work'[d], api[d], k)
    BY <1>1, Zenon DEF Holders
  <1>7. Holders(k) \subseteq CRs /\ Holders(k)' \subseteq CRs
    BY Zenon DEF Holders
  <1>8. work'[c] = Record(w) /\ \A d \in CRs \ {c} : work'[d] = work[d]
    BY <1>1, Zenon
  <1>9. \A d \in CRs \ {c} : d \in Holders(k)' <=> d \in Holders(k)
    BY <1>5, <1>6, <1>8, Zenon
  <1>10. c \in Holders(k)' <=>
           IF k \notin w.chunk THEN c \in Holders(k) ELSE w.pc = "apply" /\ ~Ownership!External(k)
    BY <1>3, <1>4, <1>5, <1>6, <1>8
  <1> QED
    BY <1>7, <1>9, <1>10

-----------------------------------------------------------------------------
\* A transaction of an apply is Declare, one of a clean-up or deletion Release.
LEMMA CommitRefines ==
    ASSUME Recorded, RefCountInv, NEW c \in CRs, Commit(c)
    PROVE  Ownership!OwnershipNext
  <1> DEFINE w == work[c]
  <1>1. /\ ChunkRead(w) /\ TxnOk(c) /\ store' = TxnResult(w)
        /\ w \in Reconcile /\ LocalInv(w, api[c], stale[c], store)
        /\ store \in [Keys -> Pair]
    BY Zenon DEF Commit, Write, RefCountInv, TypeOK
  <1>2. w.chunk \in SUBSET Keys /\ w.pc \in {"apply", "remove", "release"}
    BY <1>1, Zenon DEF Reconcile, ChunkRead
  <1> PICK s \in SUBSET Keys : s = w.chunk
    BY <1>2, Zenon
  <1>3. \A k \in Keys : store'[k] = IF k \in s THEN Target(w, k) ELSE store[k]
    <2>1. \A k \in s : TxnResult(w)[k] = Target(w, k)
      BY <1>1, ChunkKey, Zenon
    <2>2. \A k \in Keys \ s : TxnResult(w)[k] = store[k]
      BY Zenon DEF TxnResult, OpKeys
    <2> QED
      BY <1>1, <2>1, <2>2, Zenon
  <1>4. CASE w.pc = "apply"
    <2>1. \A k \in s : store'[k].present = TRUE /\ store'[k].val \in Values
      <3> SUFFICES ASSUME NEW k \in s
                   PROVE  store'[k].present = TRUE /\ store'[k].val \in Values
        BY Zenon
      <3>1. store'[k] = Target(w, k) /\ k \in ValidKeys(w.inst.spec)
        BY <1>1, <1>2, <1>3, <1>4, Zenon DEF LocalInv, Phases
      <3>2. w.inst.spec \in Specs \cup {<<>>}
        BY <1>1, Zenon DEF Reconcile, Resource
      <3>3. LastValue(w.inst.spec, k) \in Values
        BY <3>1, <3>2, DeclaredValue, Zenon DEF Recorded
      <3> QED
        BY <1>4, <3>1, <3>3 DEF Target
    <2>2. Ownership!Declare(c, s)
      <3>1. \A k \in s : PairOf(store')[k].val \in Values
        BY <2>1, Zenon DEF PairOf
      <3>2. PairOf(store') = [k \in Keys |-> IF k \in s THEN Ownership!Present(PairOf(store')[k].val)
                                             ELSE PairOf(store)[k]]
        BY <1>3, <2>1, Zenon DEF PairOf, Ownership!Present
      <3>3. OwnersNow' = [k \in Keys |-> IF k \in s /\ ~Ownership!External(k)
                                         THEN OwnersNow[k] \cup {c} ELSE OwnersNow[k]]
        <4>1. ASSUME NEW k \in Keys
              PROVE  Holders(k)' = IF k \in s /\ ~Ownership!External(k)
                                   THEN Holders(k) \cup {c} ELSE Holders(k)
          <5>1. Ownership!External(k) => Holders(k) \ {c} = Holders(k)
            BY Zenon DEF Ownership!External
          <5> QED
            BY <1>4, <5>1, CommitOwners, Zenon
        <4> QED
          BY <4>1, Zenon DEF OwnersNow
      <3> QED
        BY <3>1, <3>2, <3>3, Zenon DEF Ownership!Declare, PairOf, OwnersNow
    <2> QED
      BY <1>2, <2>2, Zenon DEF Ownership!OwnershipNext
  <1>5. CASE w.pc # "apply"
    <2>1. \A k \in s : c \in Holders(k)
      <3>1. \A k \in s : k \in Keys /\ HoldsIn(w, api[c], k)
        BY <1>1, <1>5, ChunkKey, Zenon
      <3> QED
        BY <3>1, Zenon DEF Holders
    <2>2. \A k \in Keys : Holders(k)' = IF k \in s THEN Holders(k) \ {c} ELSE Holders(k)
      BY <1>5, CommitOwners, Zenon
    <2>3. ASSUME NEW k \in s
          PROVE  PairOf(store')[k] = IF Holders(k) = {c} THEN Ownership!Missing
                                     ELSE PairOf(store)[k]
      <3>1. /\ k \in Keys /\ store[k].flags = Cardinality(Holders(k))
            /\ IsFiniteSet(Holders(k)) /\ store'[k] = Target(w, k)
        BY <1>2, <1>3, HoldersFinite, Zenon DEF RefCountInv, RefCountExact
      <3>2. /\ w.reads[k] \in Pair /\ w.reads[k].flags = store[k].flags
            /\ Target(w, k).present => w.reads[k] = store[k]
            /\ w.reads[k].present
        BY <1>1, <1>5, ChunkKey, Zenon
      <3>3. Holders(k) = {c} <=> w.reads[k].flags <= 1
        BY <2>1, <3>1, <3>2, OnlyMember
      <3>4. CASE w.reads[k].flags <= 1
        <4>1. store'[k] = Absent
          BY <1>5, <3>1, <3>4, Zenon DEF Target
        <4>2. store'[k].present = FALSE /\ store'[k].val = NoValue
          BY <4>1 DEF Absent
        <4>3. Holders(k) = {c} /\ k \in Keys
          BY <3>1, <3>3, <3>4, Zenon
        <4> QED
          BY <4>2, <4>3, Zenon DEF PairOf, Ownership!Missing
      <3>5. CASE ~(w.reads[k].flags <= 1)
        <4>1. store'[k] = [w.reads[k] EXCEPT !.flags = @ - 1]
          BY <1>5, <3>1, <3>5, Zenon DEF Target
        <4>2. store'[k].present = w.reads[k].present /\ store'[k].val = w.reads[k].val
          BY <3>2, <4>1, Zenon DEF Pair
        <4>3. w.reads[k] = store[k]
          BY <3>1, <3>2, <4>2, Zenon
        <4> QED
          BY <3>1, <3>3, <3>5, <4>2, <4>3, Zenon DEF PairOf
      <3> QED
        BY <3>4, <3>5, Zenon
    <2>4. Ownership!Release(c, s)
      <3>1. PairOf(store') = [k \in Keys |-> IF k \in s /\ OwnersNow[k] = {c}
                                             THEN Ownership!Missing ELSE PairOf(store)[k]]
        BY <1>2, <1>3, <2>3, Zenon DEF PairOf, OwnersNow
      <3>2. OwnersNow' = [k \in Keys |-> IF k \in s THEN OwnersNow[k] \ {c} ELSE OwnersNow[k]]
        BY <2>2, Zenon DEF OwnersNow
      <3> QED
        BY <1>2, <2>1, <3>1, <3>2, Zenon DEF Ownership!Release, PairOf, OwnersNow
    <2> QED
      BY <1>2, <2>4, Zenon DEF Ownership!OwnershipNext
  <1> QED
    BY <1>4, <1>5, Zenon

\* Only transactions and applications change the store or the owners of a key.
LEMMA StepKinds ==
    ASSUME Recorded, RefCountInv, [Next]_vars
    PROVE  \/ \E c \in CRs : Commit(c)
           \/ \E k \in AppKeys : ExternalPut(k) \/ ExternalDelete(k)
           \/ store' = store /\ HoldersKept
  <1>1. TypeOK'
    BY Typing, Zenon DEF RefCountInv
  <1>2. ASSUME NEW c \in CRs, Start(c) \/ ReconcileStep(c) \/ Sync(c), ~Commit(c)
        PROVE  store' = store /\ HoldersKept
    <2>1. work[c].pc # "purge" /\ ~Lagging /\ "lostReply" \notin Faults
      BY Zenon DEF RefCountInv, LocalInv, Phases, Recorded, Lagging
    <2>2. ~PurgeKey(c) /\ ~PurgeTree(c) /\ ~PurgeFails(c)
      BY <2>1, Zenon DEF PurgeKey, PurgeTree, PurgeFails
    <2>3. ~Sync(c) /\ ~ReplyLost(c)
      BY <2>1, Zenon DEF Sync, Deliver, ReplyLost, Fault
    <2>4. HoldersKept
      BY <1>1, <1>2, <2>2, <2>3, BatchStep, FinalizerStep, StatusStep DEF ReconcileStep
    <2>5. store' = store
      BY <1>2, <2>2, <2>3, Zenon DEF Start, ReconcileStep, AddFinalizer, RemoveFinalizer,
         UpdateFails, OpenChunk, ReadKey, Reject, RequestFails, BatchesDone, UpdateStatus,
         UpdatePartial
    <2> QED
      BY <2>4, <2>5, Zenon
  <1>3. \A op \in Operators : ~Crash(op)
    BY Zenon DEF Crash, Fault, Recorded
  <1>4. ASSUME NEW c \in CRs, Create(c) \/ Edit(c) \/ Delete(c)
        PROVE  store' = store /\ HoldersKept
    <2>1. HoldersKept
      BY <1>1, <1>4, UserStep, Zenon
    <2>2. store' = store
      BY <1>4, Zenon DEF Create, Edit, Delete
    <2> QED
      BY <2>1, <2>2, Zenon
  <1>5. CASE UNCHANGED vars
    BY <1>5, Zenon DEF vars, HoldersKept, Holders
  <1> QED
    BY <1>2, <1>3, <1>4, <1>5 DEF Next

LEMMA UseRefines ==
    ASSUME RefCountInv, NEW k \in AppKeys, ExternalPut(k) \/ ExternalDelete(k)
    PROVE  Ownership!OwnershipNext
  <1>1. k \in Keys /\ store \in [Keys -> Pair]
    BY ConstantsAssumption, Zenon DEF RefCountInv, TypeOK
  <1>2. /\ store[k].flags = 0 /\ api' = api /\ work' = work
    BY Zenon DEF ExternalPut, ExternalDelete
  <1>3. OwnersNow' = OwnersNow /\ Holders(k) = {}
    BY <1>1, <1>2, ExternalCounter, Zenon DEF OwnersNow, Holders
  <1>4. ASSUME NEW p, store' = [store EXCEPT ![k] = p],
               NEW q \in {Ownership!Missing} \cup {Ownership!Present(v) : v \in {ExternalValue}},
               q = [present |-> p.present, val |-> p.val]
        PROVE  Ownership!Use(k)
    <2>1. PairOf(store') = [PairOf(store) EXCEPT ![k] = q]
      BY <1>1, <1>4, Zenon DEF PairOf
    <2> QED
      BY <1>1, <1>3, <1>4, <2>1, Zenon DEF Ownership!Use, PairOf, OwnersNow
  <1>5. CASE ExternalPut(k)
    <2> DEFINE p == [present |-> TRUE, flags |-> 0, val |-> ExternalValue]
               q == [present |-> TRUE, val |-> ExternalValue]
    <2>1. store' = [store EXCEPT ![k] = p]
      BY <1>5, Zenon DEF ExternalPut, Write
    <2>2. q \in {Ownership!Present(v) : v \in {ExternalValue}}
      BY Zenon DEF Ownership!Present
    <2>3. q = [present |-> p.present, val |-> p.val]
      BY Zenon
    <2> HIDE DEF p, q
    <2>4. Ownership!Use(k)
      BY <1>4, <2>1, <2>2, <2>3, Zenon
    <2> QED
      BY <1>1, <2>4, Zenon DEF Ownership!OwnershipNext
  <1>6. CASE ExternalDelete(k)
    <2>1. store' = [store EXCEPT ![k] = Absent]
      BY <1>6, Zenon DEF ExternalDelete, Write
    <2>2. Ownership!Missing = [present |-> Absent.present, val |-> Absent.val]
      BY Zenon DEF Ownership!Missing, Absent
    <2>3. Ownership!Use(k)
      BY <1>4, <2>1, <2>2, Zenon
    <2> QED
      BY <1>1, <2>3, Zenon DEF Ownership!OwnershipNext
  <1> QED
    BY <1>5, <1>6, Zenon

\* Each step of the controllers is a step of KeyOwnership or does not show in it.
LEMMA StepRefines ==
    ASSUME Recorded, RefCountInv, [Next]_vars
    PROVE  [Ownership!OwnershipNext]_(Ownership!ownershipVars)
  <1>1. CASE \E c \in CRs : Commit(c)
    BY <1>1, CommitRefines, Zenon
  <1>2. CASE \E k \in AppKeys : ExternalPut(k) \/ ExternalDelete(k)
    BY <1>2, UseRefines, Zenon
  <1>3. CASE store' = store /\ HoldersKept
    <2>1. OwnersNow' = OwnersNow /\ PairOf(store') = PairOf(store)
      BY <1>3, Zenon DEF OwnersNow, HoldersKept
    <2> QED
      BY <2>1, Zenon DEF Ownership!ownershipVars, OwnersNow, PairOf
  <1> QED
    BY <1>1, <1>2, <1>3, StepKinds, Zenon

LEMMA InitRefines ==
    ASSUME Recorded, Init
    PROVE  Ownership!OwnershipInit
  <1>1. RefCountInv
    BY RefCountInit, Zenon
  <1>2. \A k \in Keys : store[k] = Absent
    BY Zenon DEF Init
  <1>3. \A k \in Keys : Holders(k) = {}
    BY <1>1, <1>2, ExternalCounter DEF Absent
  <1>4. PairOf(store) = [k \in Keys |-> Ownership!Missing]
    <2>1. Absent.present = FALSE /\ Absent.val = NoValue
      BY Zenon DEF Absent
    <2> QED
      BY <1>2, <2>1, Zenon DEF PairOf, Ownership!Missing
  <1>5. OwnersNow = [k \in Keys |-> {}]
    BY <1>3 DEF OwnersNow
  <1> QED
    BY <1>4, <1>5, Zenon DEF Ownership!OwnershipInit, PairOf, OwnersNow

\* As long as what a transaction did is recorded and nothing is purged, the batches
\* and counters implement the ownership of keys, for any number of operators,
\* resources and keys, any batch size and number of retries.
THEOREM Refinement ==
    ASSUME Recorded
    PROVE  Spec => ImplementsOwnership
  <1>1. Init => RefCountInv
    BY RefCountInit, Zenon
  <1>2. RefCountInv /\ [Next]_vars => RefCountInv'
    BY RefCountStep, Zenon
  <1>3. Init => Ownership!OwnershipInit
    BY InitRefines, Zenon
  <1>4. RefCountInv /\ [Next]_vars => [Ownership!OwnershipNext]_(Ownership!ownershipVars)
    BY StepRefines, Zenon
  <1> QED
    BY <1>1, <1>2, <1>3, <1>4, PTL DEF Spec, ImplementsOwnership, Ownership!OwnershipSpec

-----------------------------------------------------------------------------
(* The two action properties of the reconciler.                            *)

LEMMA DecrementStep ==
    ASSUME Recorded, RefCountInv, [Next]_vars, NEW k \in Keys,
           store'[k].present, store'[k].flags < store[k].flags
    PROVE  store'[k].val = store[k].val
  <1>1. store \in [Keys -> Pair] /\ store[k].flags \in Nat
    BY Zenon DEF RefCountInv, TypeOK, Pair
  <1>2. ASSUME NEW c \in CRs, Commit(c)
        PROVE  store'[k].val = store[k].val
    <2> DEFINE w == work[c]
    <2>1. ChunkRead(w) /\ TxnOk(c) /\ store' = TxnResult(w)
      BY <1>2, Zenon DEF Commit, Write
    <2>2. k \in w.chunk
      BY <1>1, <2>1 DEF TxnResult, OpKeys
    <2>3. /\ w.reads[k] \in Pair /\ store'[k] = Target(w, k)
          /\ w.reads[k].flags = store[k].flags
          /\ w.pc # "apply" /\ Target(w, k).present => w.reads[k] = store[k]
          /\ k \in OwnedStatusKeys(w.inst.entries) => store[k].flags > 0
      BY <2>1, <2>2, ChunkKey, Zenon
    <2>4. w.pc # "apply"
      <3>1. w.pc = "apply" => store'[k].flags = NewFlags(w, k)
        BY <2>3 DEF Target
      <3>2. NewFlags(w, k) >= store[k].flags
        BY <1>1, <2>3 DEF NewFlags
      <3>3. NewFlags(w, k) \in Nat
        BY <1>1, <2>3 DEF NewFlags
      <3> QED
        BY <1>1, <3>1, <3>2, <3>3
    <2>5. store'[k] = Absent \/ store'[k] = [w.reads[k] EXCEPT !.flags = @ - 1]
      BY <2>3, <2>4, Zenon DEF Target
    <2>6. store'[k] # Absent
      BY DEF Absent
    <2> QED
      BY <2>3, <2>4, <2>5, <2>6, Zenon DEF Pair
  <1>3. ASSUME NEW j \in AppKeys, ExternalPut(j) \/ ExternalDelete(j)
        PROVE  store'[k].val = store[k].val
    <2>1. j \in Keys /\ store[j].flags = 0
      BY <1>3, ConstantsAssumption, Zenon DEF ExternalPut, ExternalDelete
    <2>2. \E p : store' = [store EXCEPT ![j] = p]
      BY <1>3, Zenon DEF ExternalPut, ExternalDelete, Write
    <2>3. CASE ExternalPut(j) /\ j = k
      <3>1. store'[k].flags = 0
        BY <1>1, <2>1, <2>3, Zenon DEF ExternalPut, Write
      <3> QED
        BY <2>1, <2>3, <3>1
    <2>4. CASE ExternalDelete(j) /\ j = k
      <3>1. store'[k].flags = 0
        BY <1>1, <2>1, <2>4, Zenon DEF ExternalDelete, Write, Absent
      <3> QED
        BY <2>1, <2>4, <3>1
    <2> QED
      BY <1>1, <1>3, <2>2, <2>3, <2>4, Zenon
  <1> QED
    BY <1>2, <1>3, StepKinds, Zenon

\* No decrement undoes a value written in between.
THEOREM ValuesKept ==
    ASSUME Recorded
    PROVE  Spec => DecrementKeepsValue
  <1>1. Init => RefCountInv
    BY RefCountInit, Zenon
  <1>2. RefCountInv /\ [Next]_vars => RefCountInv'
    BY RefCountStep, Zenon
  <1>3. RefCountInv /\ [Next]_vars =>
          [\A k \in Keys : (store'[k].present /\ store'[k].flags < store[k].flags)
                            => store'[k].val = store[k].val]_vars
    BY DecrementStep, Zenon
  <1> QED
    BY <1>1, <1>2, <1>3, PTL DEF Spec, DecrementKeepsValue

\* An apply that has written a key the resource owned still owns it.
Kept(w) == w.committed \cap OwnedStatusKeys(w.inst.entries) \subseteq w.owns

KeptInv == \A c \in CRs : Kept(work[c])

LEMMA KeptStep ==
    ASSUME Recorded, RefCountInv, KeptInv, [Next]_vars
    PROVE  KeptInv'
  <1> DEFINE Same(w, n) == n.committed = w.committed /\ n.inst = w.inst /\ n.owns = w.owns
  <1>1. work \in [CRs -> Reconcile] /\ \A c \in CRs : work[c] \in Reconcile /\ Kept(work[c])
    BY Zenon DEF RefCountInv, TypeOK, KeptInv
  <1>2. ASSUME NEW c \in CRs, NEW n, work' = [work EXCEPT ![c] = n],
               n.committed = {} \/ Same(work[c], n) \/ Kept(n)
        PROVE  KeptInv'
    <2>1. Kept(n)
      BY <1>1, <1>2, Zenon DEF Kept
    <2> QED
      BY <1>1, <1>2, <2>1, Zenon DEF KeptInv
  <1>3. CASE work' = work
    BY <1>3, Zenon DEF KeptInv
  <1>4. Idle.committed = {}
    BY Zenon DEF Idle
  <1>5. ASSUME NEW c \in CRs
        PROVE  LeaveChunk(work[c]) \in Reconcile /\ Same(work[c], LeaveChunk(work[c]))
    BY <1>1, LeaveChunkType, ZenonT(60) DEF LeaveChunk, Reconcile
  <1>6. ASSUME NEW c \in CRs, NEW failed \in BOOLEAN, LeaveBatches(c, failed)
        PROVE  KeptInv'
    <2> DEFINE n == AfterBatches(work[c], failed)
    <2>1. work' = [work EXCEPT ![c] = n]
      BY <1>6, Zenon DEF LeaveBatches
    <2>2. n = Idle \/ Same(work[c], n)
      <3> DEFINE left == [LeaveChunk(work[c]) EXCEPT !.todo = {}, !.err = @ \/ failed]
      <3>1. left \in Reconcile /\ Same(work[c], left)
        BY <1>5, ZenonT(60) DEF Reconcile
      <3> HIDE DEF left
      <3>2. /\ Same(left, [left EXCEPT !.pc = "remove", !.todo = RemovedKeys(work[c].inst)])
            /\ Same(left, [left EXCEPT !.pc = "status"])
            /\ Same(left, [left EXCEPT !.pc = "removeFinalizer"])
            /\ Same(left, [left EXCEPT !.pc = "partial"])
        BY <3>1, Zenon DEF Reconcile
      <3>3. \/ n = [left EXCEPT !.pc = "remove", !.todo = RemovedKeys(work[c].inst)]
            \/ n = [left EXCEPT !.pc = "status"]
            \/ n = [left EXCEPT !.pc = "removeFinalizer"]
            \/ n = [left EXCEPT !.pc = "partial"]
            \/ n = Idle
        BY Zenon DEF AfterBatches, left
      <3> QED
        BY <3>1, <3>2, <3>3, Zenon
    <2> HIDE DEF n
    <2> QED
      BY <1>2, <1>4, <2>1, <2>2, Zenon
  <1>7. ASSUME NEW c \in CRs, Start(c)
        PROVE  KeptInv'
    <2>1. work' = [work EXCEPT ![c] = Begin(view[c])] /\ view[c] \in Resource
      BY <1>7, Zenon DEF Start, RefCountInv, TypeOK
    <2>2. Begin(view[c]).committed = {}
      BY <1>4, Zenon DEF Begin, Idle
    <2> QED
      BY <1>2, <2>1, <2>2, Zenon
  <1>8. ASSUME NEW c \in CRs,
               RemoveFinalizer(c) \/ UpdateFails(c) \/ UpdateStatus(c) \/ UpdatePartial(c)
        PROVE  KeptInv'
    <2>1. work' = [work EXCEPT ![c] = Idle]
      BY <1>8, Zenon DEF RemoveFinalizer, UpdateFails, UpdateStatus, UpdatePartial, End
    <2> QED
      BY <1>2, <1>4, <2>1, Zenon
  <1>9. ASSUME NEW c \in CRs, AddFinalizer(c)
        PROVE  KeptInv'
    <2>1. work' = [work EXCEPT ![c] = [work[c] EXCEPT !.pc = "apply"]]
      BY <1>9, Zenon DEF AddFinalizer
    <2>2. Same(work[c], [work[c] EXCEPT !.pc = "apply"])
      BY <1>1, Zenon DEF Reconcile
    <2> QED
      BY <1>2, <2>1, <2>2, Zenon
  <1>10. ASSUME NEW c \in CRs, OpenChunk(c)
        PROVE  KeptInv'
    <2>1. PICK s \in SUBSET work[c].todo :
             work' = [work EXCEPT ![c] = [work[c] EXCEPT !.chunk = s, !.todo = @ \ s, !.attempt = 0]]
      BY <1>10, Zenon DEF OpenChunk
    <2>2. Same(work[c], [work[c] EXCEPT !.chunk = s, !.todo = @ \ s, !.attempt = 0])
      BY <1>1, Zenon DEF Reconcile
    <2> QED
      BY <1>2, <2>1, <2>2, Zenon
  <1>11. ASSUME NEW c \in CRs, ReadKey(c)
        PROVE  KeptInv'
    <2>1. PICK k \in work[c].chunk \ work[c].seen :
             work' = [work EXCEPT ![c] = [work[c] EXCEPT !.seen = @ \cup {k}, !.reads[k] = store[k]]]
      BY <1>11, Zenon DEF ReadKey
    <2>2. Same(work[c], [work[c] EXCEPT !.seen = @ \cup {k}, !.reads[k] = store[k]])
      BY <1>1, Zenon DEF Reconcile
    <2> QED
      BY <1>2, <2>1, <2>2, Zenon
  <1>12. ASSUME NEW c \in CRs, Commit(c)
        PROVE  KeptInv'
    <2> DEFINE w == work[c]
    <2>1. work' = [work EXCEPT ![c] = Record(w)]
      BY <1>12, Zenon DEF Commit
    <2>2. \A k \in w.chunk : k \in OwnedStatusKeys(w.inst.entries) => WillOwn(w, k)
      BY Zenon DEF WillOwn
    <2>3. Kept(Record(w))
      <3>1. w.pc = "apply" => /\ Record(w).committed = w.committed \cup w.chunk
                              /\ Record(w).owns = w.owns \cup {k \in w.chunk : WillOwn(w, k)}
                              /\ Record(w).inst = w.inst
        BY <1>5, Zenon DEF Record, Reconcile
      <3>2. w.pc # "apply" => Same(w, Record(w))
        BY <1>5, Zenon DEF Record, Reconcile
      <3> QED
        BY <1>1, <2>2, <3>1, <3>2, Zenon DEF Kept
    <2> QED
      BY <1>2, <2>1, <2>3, Zenon
  <1>13. ASSUME NEW c \in CRs, Reject(c) \/ RequestFails(c) \/ BatchesDone(c)
        PROVE  KeptInv'
    <2>1. CASE work' = [work EXCEPT ![c] = NextAttempt(work[c])]
      <3>1. Same(work[c], NextAttempt(work[c]))
        BY <1>1, Zenon DEF NextAttempt, Reconcile
      <3> QED
        BY <1>2, <2>1, <3>1, Zenon
    <2>2. CASE LeaveBatches(c, TRUE) \/ LeaveBatches(c, FALSE)
      BY <1>6, <2>2, Zenon
    <2> QED
      BY <1>13, <2>1, <2>2, Zenon DEF Reject, RequestFails, BatchesDone
  <1>14. ASSUME NEW c \in CRs, Create(c) \/ Edit(c) \/ Delete(c) \/ Sync(c)
        PROVE  work' = work
    BY <1>14, Zenon DEF Create, Edit, Delete, Sync
  <1>15. ASSUME NEW k \in AppKeys, ExternalPut(k) \/ ExternalDelete(k)
        PROVE  work' = work
    BY <1>15, Zenon DEF ExternalPut, ExternalDelete
  <1>16. \A op \in Operators : ~Crash(op)
    BY Zenon DEF Crash, Fault, Recorded
  <1>17. \A c \in CRs : ~PurgeKey(c) /\ ~PurgeTree(c) /\ ~PurgeFails(c) /\ ~ReplyLost(c)
    <2>1. \A c \in CRs : work[c].pc # "purge" /\ "lostReply" \notin Faults
      BY Zenon DEF RefCountInv, LocalInv, Phases, Recorded
    <2> QED
      BY <2>1, Zenon DEF PurgeKey, PurgeTree, PurgeFails, ReplyLost, Fault
  <1>18. CASE UNCHANGED vars
    BY <1>3, <1>18, Zenon DEF vars
  <1> QED
    BY <1>3, <1>7, <1>8, <1>9, <1>10, <1>11, <1>12, <1>13, <1>14, <1>15, <1>16, <1>17, <1>18
       DEF Next, ReconcileStep

LEMMA MarkStep ==
    ASSUME Recorded, RefCountInv, RefCountInv', KeptInv, [Next]_vars, NEW c \in CRs
    PROVE  OwnedStatusKeys(api[c].entries) \ OwnedStatusKeys(api'[c].entries)
              \subseteq work[c].released
  <1> DEFINE w == work[c]
             o == api[c]
             Marked == OwnedStatusKeys(o.entries) \ OwnedStatusKeys(api'[c].entries) \subseteq w.released
  <1>1. /\ w \in Reconcile /\ o \in Resource /\ LocalInv(w, o, stale[c], store) /\ Kept(w)
        /\ api \in [CRs -> Resource] /\ ~Lagging
    BY Zenon DEF RefCountInv, TypeOK, KeptInv, Recorded, Lagging
  <1>2. CASE api'[c].entries = o.entries
    BY <1>2, Zenon
  <1>3. \A k \in Keys : k \in OwnedStatusKeys(o.entries) /\ ~HoldsIn(w, o, k) => k \in w.released
    <2>1. w.committed # {} => w.inst.entries = o.entries
      BY <1>1, Zenon DEF LocalInv, Phases, Current, Reconcile
    <2> QED
      BY <1>1, <2>1, Zenon DEF HoldsIn, Kept
  <1>4. ASSUME NEW new, NEW r, Publish(c, new, r), w.pc \in {"status", "partial"},
               \A k \in Keys : k \in OwnedStatusKeys(new.entries) <=> HoldsIn(w, o, k)
        PROVE  Marked
    <2>1. api'[c] = new
      BY <1>1, <1>4, Zenon DEF Publish
    <2>2. OwnedStatusKeys(o.entries) \subseteq Keys
      BY Zenon DEF OwnedStatusKeys
    <2> QED
      BY <1>3, <1>4, <2>1, <2>2, Zenon
  <1>5. CASE UpdateStatus(c)
    <2> DEFINE m == MergeKVStatuses(o.entries, EntryStatuses(w), w.released)
               new == [o EXCEPT !.entries = MergeKVStatuses(@, EntryStatuses(w), w.released),
                                !.ok = ~w.err, !.obs = o.gen]
    <2>1. Publish(c, new, IF w.err THEN {c} ELSE {}) /\ w.pc = "status"
      BY <1>5, Zenon DEF UpdateStatus
    <2>2. new.entries = m
      BY <1>1, Zenon DEF Resource
    <2>3. \A k \in Keys : k \in OwnedStatusKeys(m) <=> HoldsIn(w, o, k)
      BY <1>1, <2>1, StatusLocal
    <2> HIDE DEF m, new
    <2> QED
      BY <1>4, <2>1, <2>2, <2>3, Zenon
  <1>6. CASE UpdatePartial(c)
    <2> DEFINE m == MarkReleased(o.entries, w.released)
               new == [o EXCEPT !.entries = MarkReleased(@, w.released)]
    <2>1. Publish(c, new, {c}) /\ w.pc = "partial"
      BY <1>6, Zenon DEF UpdatePartial
    <2>2. new.entries = m
      BY <1>1, Zenon DEF Resource
    <2>3. \A k \in Keys : k \in OwnedStatusKeys(m) <=> HoldsIn(w, o, k)
      BY <1>1, <2>1, PartialLocal, Zenon
    <2> HIDE DEF m, new
    <2> QED
      BY <1>4, <2>1, <2>2, <2>3, Zenon
  <1>7. CASE RemoveFinalizer(c)
    <2>1. w.pc = "removeFinalizer"
      BY <1>7, Zenon DEF RemoveFinalizer
    <2>2. w.released = OwnedStatusKeys(w.inst.entries) /\ w.inst.entries = o.entries
      BY <1>1, <2>1, Zenon DEF LocalInv, Phases, Current
    <2> QED
      BY <2>2, Zenon
  <1>8. CASE AddFinalizer(c)
    <2>1. Publish(c, [o EXCEPT !.fin = TRUE], {})
      BY <1>8, Zenon DEF AddFinalizer
    <2>2. api'[c] = [o EXCEPT !.fin = TRUE]
      BY <1>1, <2>1, Zenon DEF Publish
    <2> QED
      BY <1>1, <1>2, <2>2, Zenon DEF Resource
  <1>9. CASE Create(c)
    <2>1. o = Gone
      BY <1>1, <1>9, Zenon DEF Create, LocalInv, Current
    <2>2. OwnedStatusKeys(Gone.entries) = {}
      BY Zenon DEF OwnedStatusKeys, Gone, NoEntries, NoEntry
    <2> QED
      BY <2>1, <2>2, Zenon
  <1>10. CASE Edit(c)
    <2>1. PICK s \in Specs, p \in PurgeModes :
            Publish(c, [o EXCEPT !.gen = @ + 1, !.spec = s, !.purge = p], {})
      BY <1>10, Zenon DEF Edit
    <2>2. api'[c] = [o EXCEPT !.gen = @ + 1, !.spec = s, !.purge = p]
      BY <1>1, <2>1, Zenon DEF Publish
    <2> QED
      BY <1>1, <1>2, <2>2, Zenon DEF Resource
  <1>11. CASE Delete(c)
    <2>1. api'[c] = IF o.fin THEN [o EXCEPT !.deleting = TRUE, !.gen = @ + 1] ELSE Gone
      BY <1>1, <1>11, Zenon DEF Delete, Publish
    <2>2. ~o.fin => OwnedStatusKeys(o.entries) = {}
      BY <1>1 DEF LocalInv, Current, OwnedStatusKeys, NoEntries, NoEntry
    <2>3. o.fin => api'[c].entries = o.entries
      BY <1>1, <2>1, Zenon DEF Resource
    <2> QED
      BY <1>2, <2>2, <2>3, Zenon
  <1>12. ASSUME NEW d \in CRs, d # c,
                Start(d) \/ ReconcileStep(d) \/ Sync(d) \/ Create(d) \/ Edit(d) \/ Delete(d)
         PROVE  api'[c] = o
    <2>1. (\E new, r : Publish(d, new, r)) \/ api' = api
      BY <1>12, Zenon DEF Start, ReconcileStep, Sync, Create, Edit, Delete, AddFinalizer,
         RemoveFinalizer, UpdateFails, OpenChunk, ReadKey, Commit, Reject, RequestFails,
         ReplyLost, BatchesDone, UpdateStatus, UpdatePartial, PurgeKey, PurgeTree, PurgeFails
    <2> QED
      BY <1>1, <1>12, <2>1, Zenon DEF Publish
  <1>13. ASSUME Start(c) \/ Sync(c) \/ UpdateFails(c) \/ OpenChunk(c) \/ ReadKey(c) \/ Commit(c)
                \/ Reject(c) \/ RequestFails(c) \/ ReplyLost(c) \/ BatchesDone(c)
                \/ PurgeKey(c) \/ PurgeTree(c) \/ PurgeFails(c)
         PROVE  api' = api
    BY <1>13, Zenon DEF Start, Sync, UpdateFails, OpenChunk, ReadKey, Commit, Reject, RequestFails,
       ReplyLost, BatchesDone, PurgeKey, PurgeTree, PurgeFails
  <1>14. ASSUME \/ \E op \in Operators : Crash(op)
                \/ \E k \in AppKeys : ExternalPut(k) \/ ExternalDelete(k)
                \/ UNCHANGED vars
         PROVE  api' = api
    BY <1>14, Zenon DEF Crash, ExternalPut, ExternalDelete, vars
  <1> HIDE DEF w, o
  <1>15. CASE api' = api
    BY <1>2, <1>15, Zenon DEF o
  <1>16. CASE \E d \in CRs \ {c} :
                Start(d) \/ ReconcileStep(d) \/ Sync(d) \/ Create(d) \/ Edit(d) \/ Delete(d)
    BY <1>2, <1>12, <1>16, Zenon
  <1>17. \/ UpdateStatus(c) \/ UpdatePartial(c) \/ RemoveFinalizer(c) \/ AddFinalizer(c)
         \/ Create(c) \/ Edit(c) \/ Delete(c) \/ api' = api
         \/ \E d \in CRs \ {c} :
               Start(d) \/ ReconcileStep(d) \/ Sync(d) \/ Create(d) \/ Edit(d) \/ Delete(d)
    BY <1>13, <1>14, Zenon DEF Next, ReconcileStep
  <1> QED
    BY <1>5, <1>6, <1>7, <1>8, <1>9, <1>10, <1>11, <1>15, <1>16, <1>17

\* A mark of ownership in a status goes only with the decrement of the counter.
THEOREM MarksKept ==
    ASSUME Recorded
    PROVE  Spec => OwnedUntilReleased
  <1>1. Init => RefCountInv /\ KeptInv
    <2>1. Idle.committed = {}
      BY Zenon DEF Idle
    <2>2. ASSUME Init PROVE \A c \in CRs : work[c] = Idle
      BY <2>2, Zenon DEF Init
    <2> QED
      BY <2>1, <2>2, RefCountInit, Zenon DEF KeptInv, Kept
  <1>2. RefCountInv /\ KeptInv /\ [Next]_vars => RefCountInv' /\ KeptInv'
    BY RefCountStep, KeptStep, Zenon
  <1>3. RefCountInv /\ KeptInv /\ RefCountInv' /\ [Next]_vars =>
          [\A c \in CRs :
             OwnedStatusKeys(api[c].entries) \ OwnedStatusKeys(api'[c].entries)
                \subseteq work[c].released]_vars
    BY MarkStep, Zenon
  <1> QED
    BY <1>1, <1>2, <1>3, PTL DEF Spec, OwnedUntilReleased
=============================================================================
