---------------------------- MODULE ConsulKVTypes ----------------------------
(* ConsulKV is well typed, for every value of its constants.               *)
EXTENDS ConsulKV, TLAPS

LEMMA SeqElement ==
    ASSUME NEW S, NEW s \in Seq(S), NEW i \in DOMAIN s
    PROVE  s[i] \in S
  OBVIOUS

LEMMA GoneType == Gone \in Resource /\ Idle \in Reconcile
  BY Zenon DEF Gone, Idle, Resource, Reconcile, NoEntries, NoEntry, Entry, Absent, Pair

LEMMA PublishType ==
    ASSUME TypeOK, NEW c \in CRs, NEW o \in Resource, NEW r \in SUBSET CRs,
           Publish(c, o, r)
    PROVE  /\ api' \in [CRs -> Resource]
           /\ view' \in [CRs -> Resource]
           /\ queue' \in SUBSET CRs
  BY Zenon DEF TypeOK, Publish

LEMMA SpecType ==
    ASSUME NEW s \in Specs \cup {<<>>}
    PROVE  /\ \A i \in DOMAIN s : s[i].key \in Keys /\ s[i].val \in Values
           /\ Declared(s) \subseteq Keys
           /\ \A k : LastValue(s, k) \in Values \cup {NoValue}
  <1>1. ASSUME s \in Specs
        PROVE  \A i \in DOMAIN s : s[i] \in [key : Keys, val : Values]
    <2>1. s \in Seq([key : Keys, val : Values])
      BY <1>1, ConstantsAssumption, Zenon
    <2> QED
      BY <2>1, SeqElement, Zenon
  <1>2. \A i \in DOMAIN s : s[i] \in [key : Keys, val : Values]
    BY <1>1
  <1>3. \A i \in DOMAIN s : s[i].key \in Keys /\ s[i].val \in Values
    BY <1>2, Zenon
  <1>4. ASSUME NEW k, LastIndex(s, k) # {}
        PROVE  LastValue(s, k) \in Values
    <2> DEFINE i == CHOOSE i \in LastIndex(s, k) : TRUE
    <2>1. i \in LastIndex(s, k)
      BY <1>4, Zenon
    <2>2. i \in DOMAIN s
      BY <2>1, Zenon DEF LastIndex
    <2> QED
      BY <1>3, <1>4, <2>2, Zenon DEF LastValue
  <1> QED
    BY <1>3, <1>4, Zenon DEF Declared, LastValue

LEMMA BeginType ==
    ASSUME NEW o \in Resource
    PROVE  Begin(o) \in Reconcile
  <1>1. Idle \in Reconcile
    BY GoneType, Zenon
  <1>2. ValidKeys(o.spec) \subseteq Keys
    BY SpecType, Zenon DEF ValidKeys, Resource
  <1>3. StatusKeys(o.entries) \subseteq Keys /\ OwnedStatusKeys(o.entries) \subseteq Keys
    BY Zenon DEF StatusKeys, OwnedStatusKeys
  <1> QED
    BY <1>1, <1>2, <1>3, Zenon DEF Begin, Reconcile

LEMMA LeaveChunkType ==
    ASSUME NEW w \in Reconcile
    PROVE  LeaveChunk(w) \in Reconcile
  BY GoneType, Zenon DEF LeaveChunk, Reconcile

LEMMA NextAttemptType ==
    ASSUME NEW w \in Reconcile
    PROVE  NextAttempt(w) \in Reconcile
  <1>1. w.attempt + 1 \in Nat
    BY DEF Reconcile
  <1>2. Idle.reads \in [Keys -> Pair]
    BY GoneType, Zenon DEF Reconcile
  <1> QED
    BY <1>1, <1>2, Zenon DEF NextAttempt, Reconcile

LEMMA RecordType ==
    ASSUME NEW w \in Reconcile
    PROVE  Record(w) \in Reconcile
  BY LeaveChunkType, ZenonT(60) DEF Record, Reconcile

LEMMA AfterBatchesType ==
    ASSUME NEW w \in Reconcile, NEW failed \in BOOLEAN
    PROVE  AfterBatches(w, failed) \in Reconcile
  <1> DEFINE left == [LeaveChunk(w) EXCEPT !.todo = {}, !.err = @ \/ failed]
  <1>1. left \in Reconcile
    BY LeaveChunkType, Zenon DEF Reconcile
  <1>2. RemovedKeys(w.inst) \subseteq Keys
    BY Zenon DEF RemovedKeys, OwnedStatusKeys
  <1> HIDE DEF left
  <1>3. [left EXCEPT !.pc = "remove", !.todo = RemovedKeys(w.inst)] \in Reconcile
    BY <1>1, <1>2, Zenon DEF Reconcile
  <1>4. /\ [left EXCEPT !.pc = "status"] \in Reconcile
        /\ [left EXCEPT !.pc = "removeFinalizer"] \in Reconcile
        /\ [left EXCEPT !.pc = "partial"] \in Reconcile
    BY <1>1, Zenon DEF Reconcile
  <1> QED
    BY <1>3, <1>4, GoneType, Zenon DEF AfterBatches, left

LEMMA TxnResultType ==
    ASSUME TypeOK, NEW w \in Reconcile
    PROVE  TxnResult(w) \in [Keys -> Pair]
  <1>1. ASSUME NEW k \in Keys
        PROVE  Target(w, k) \in Pair
    <2>1. w.reads[k] \in Pair /\ w.inst.spec \in Specs \cup {<<>>}
      BY Zenon DEF Reconcile, Resource
    <2>2. LastValue(w.inst.spec, k) \in Values \cup {NoValue}
      BY <2>1, SpecType, Zenon
    <2>3. NewFlags(w, k) \in Nat
      BY <2>1 DEF NewFlags, Pair
    <2> QED
      BY <2>1, <2>2, <2>3 DEF Target, Pair, Absent
  <1> QED
    BY <1>1, Zenon DEF TxnResult, TypeOK

LEMMA EntriesType ==
    ASSUME NEW w \in Reconcile, NEW e \in [Keys -> Entry]
    PROVE  /\ MergeKVStatuses(e, EntryStatuses(w), w.released) \in [Keys -> Entry]
           /\ MarkReleased(e, w.released) \in [Keys -> Entry]
  <1>1. EntryStatuses(w) \in [Declared(w.inst.spec) -> Entry]
    <2>1. ASSUME NEW k \in Declared(w.inst.spec)
          PROVE  EntryStatuses(w)[k] \in Entry
      <3>1. Duplicated(w.inst.spec, k) \in BOOLEAN
        BY Zenon DEF Duplicated
      <3> HIDE DEF Duplicated
      <3>2. CASE k = EmptyKey
        BY <3>2, Zenon DEF EntryStatuses, Entry
      <3>3. CASE k # EmptyKey
        <4>1. (k \in w.owns) \in BOOLEAN /\ (k \in OwnedStatusKeys(w.inst.entries)) \in BOOLEAN
          OBVIOUS
        <4> QED
          BY <3>1, <3>3, <4>1, Zenon DEF EntryStatuses, Entry
      <3> QED
        BY <3>2, <3>3, Zenon
    <2> QED
      BY <2>1, Zenon DEF EntryStatuses
  <1>2. ASSUME NEW k \in Keys
        PROVE  MergeKVStatuses(e, EntryStatuses(w), w.released)[k] \in Entry
    BY <1>1, Zenon DEF MergeKVStatuses, Entry, NoEntry, FirstOwned
  <1>3. ASSUME NEW k \in Keys
        PROVE  MarkReleased(e, w.released)[k] \in Entry
    BY Zenon DEF MarkReleased, Entry
  <1> QED
    BY <1>2, <1>3, Zenon DEF MergeKVStatuses, MarkReleased

LEMMA WorkType ==
    ASSUME TypeOK, NEW c \in CRs, NEW w \in Reconcile, work' = [work EXCEPT ![c] = w]
    PROVE  work' \in [CRs -> Reconcile]
  BY Zenon DEF TypeOK

LEMMA WriteType ==
    ASSUME TypeOK, NEW by, NEW new \in [Keys -> Pair], Write(by, new)
    PROVE  store' \in [Keys -> Pair] /\ stale' \in [CRs -> SUBSET Keys]
  BY Zenon DEF TypeOK, Write, Reconcile

LEMMA LeaveBatchesType ==
    ASSUME TypeOK, NEW c \in CRs, NEW failed \in BOOLEAN, LeaveBatches(c, failed)
    PROVE  work' \in [CRs -> Reconcile] /\ queue' \in SUBSET CRs
  <1>1. work[c] \in Reconcile
    BY Zenon DEF TypeOK
  <1>2. AfterBatches(work[c], failed) \in Reconcile
    BY <1>1, AfterBatchesType, Zenon
  <1> QED
    BY <1>2, Zenon DEF TypeOK, LeaveBatches

LEMMA Typing ==
    ASSUME TypeOK, [Next]_vars
    PROVE  TypeOK'
  <1> USE GoneType
  <1>w. \A c \in CRs : work[c] \in Reconcile /\ api[c] \in Resource /\ view[c] \in Resource
    BY Zenon DEF TypeOK
  <1>f. \A kind : Fault(kind) => faults' \in Nat
    BY DEF TypeOK, Fault
  <1>e. Edited => edits' \in Nat
    BY DEF TypeOK, Edited
  <1>1. ASSUME NEW c \in CRs, Start(c) PROVE TypeOK'
    BY <1>1, <1>w, BeginType, Zenon DEF TypeOK, Start
  <1>2. ASSUME NEW c \in CRs, Sync(c) PROVE TypeOK'
    BY <1>2, Zenon DEF TypeOK, Sync, Deliver
  <1>3. ASSUME NEW c \in CRs, AddFinalizer(c) PROVE TypeOK'
    <2>1. [api[c] EXCEPT !.fin = TRUE] \in Resource
      BY <1>w, Zenon DEF Resource
    <2>2. [work[c] EXCEPT !.pc = "apply"] \in Reconcile
      BY <1>w, Zenon DEF Reconcile
    <2>3. work' \in [CRs -> Reconcile]
      BY <1>3, <2>2, Zenon DEF AddFinalizer, TypeOK
    <2> QED
      BY <1>3, <2>1, <2>3, PublishType DEF TypeOK, AddFinalizer
  <1>4. ASSUME NEW c \in CRs, RemoveFinalizer(c) PROVE TypeOK'
    BY <1>4, PublishType, Zenon DEF TypeOK, RemoveFinalizer, End
  <1>5. ASSUME NEW c \in CRs, UpdateFails(c) PROVE TypeOK'
    BY <1>5, <1>f, Zenon DEF TypeOK, UpdateFails, End
  <1>6. ASSUME NEW c \in CRs, OpenChunk(c) PROVE TypeOK'
    <2>1. PICK s \in SUBSET work[c].todo :
             work' = [work EXCEPT ![c] = [work[c] EXCEPT !.chunk = s, !.todo = @ \ s, !.attempt = 0]]
      BY <1>6, Zenon DEF OpenChunk
    <2>2. [work[c] EXCEPT !.chunk = s, !.todo = @ \ s, !.attempt = 0] \in Reconcile
      BY <1>w, Zenon DEF Reconcile
    <2> QED
      BY <1>6, <2>1, <2>2, Zenon DEF TypeOK, OpenChunk
  <1>7. ASSUME NEW c \in CRs, ReadKey(c) PROVE TypeOK'
    <2>1. PICK k \in work[c].chunk \ work[c].seen :
             work' = [work EXCEPT ![c] = [work[c] EXCEPT !.seen = @ \cup {k}, !.reads[k] = store[k]]]
      BY <1>7, Zenon DEF ReadKey
    <2>2. k \in Keys /\ store[k] \in Pair
      BY <1>w, Zenon DEF TypeOK, Reconcile
    <2>3. [work[c] EXCEPT !.seen = @ \cup {k}, !.reads[k] = store[k]] \in Reconcile
      BY <1>w, <2>2, ZenonT(60) DEF Reconcile
    <2> QED
      BY <1>7, <2>1, <2>3, Zenon DEF TypeOK, ReadKey
  <1>8. ASSUME NEW c \in CRs, Commit(c) PROVE TypeOK'
    BY <1>8, <1>w, WriteType, TxnResultType, RecordType, Zenon DEF TypeOK, Commit
  <1>9. ASSUME NEW c \in CRs, Reject(c) PROVE TypeOK'
    <2>1. NextAttempt(work[c]) \in Reconcile
      BY <1>w, NextAttemptType, Zenon
    <2>2. work' \in [CRs -> Reconcile] /\ queue' \in SUBSET CRs
      <3>1. CASE work[c].attempt + 1 < CasMaxRetries
        BY <1>9, <2>1, <3>1, Zenon DEF TypeOK, Reject
      <3>2. CASE ~(work[c].attempt + 1 < CasMaxRetries)
        BY <1>9, <3>2, LeaveBatchesType, Zenon DEF Reject
      <3> QED
        BY <3>1, <3>2, Zenon
    <2> QED
      BY <1>9, <2>2, Zenon DEF TypeOK, Reject
  <1>10. ASSUME NEW c \in CRs, RequestFails(c) PROVE TypeOK'
    BY <1>10, <1>f, LeaveBatchesType, Zenon DEF TypeOK, RequestFails
  <1>11. ASSUME NEW c \in CRs, ReplyLost(c) PROVE TypeOK'
    BY <1>11, <1>f, <1>w, LeaveBatchesType, WriteType, TxnResultType, Zenon DEF TypeOK, ReplyLost
  <1>12. ASSUME NEW c \in CRs, BatchesDone(c) PROVE TypeOK'
    BY <1>12, LeaveBatchesType, Zenon DEF TypeOK, BatchesDone
  <1>13. ASSUME NEW c \in CRs, UpdateStatus(c) PROVE TypeOK'
    <2> DEFINE m == MergeKVStatuses(api[c].entries, EntryStatuses(work[c]), work[c].released)
               o == [api[c] EXCEPT !.entries = m, !.ok = ~work[c].err, !.obs = api[c].gen]
    <2>1. m \in [Keys -> Entry]
      BY <1>w, EntriesType, Zenon DEF Resource
    <2> HIDE DEF m
    <2>2. o \in Resource
      <3>1. api[c].gen \in Nat /\ (~work[c].err) \in BOOLEAN
        BY <1>w, Zenon DEF Resource, Reconcile
      <3> QED
        BY <1>w, <2>1, <3>1, ZenonT(60) DEF Resource
    <2>3. PICK r \in SUBSET CRs : Publish(c, o, r)
      BY <1>13, Zenon DEF UpdateStatus, m
    <2> HIDE DEF o
    <2>4. /\ api' \in [CRs -> Resource]
          /\ view' \in [CRs -> Resource]
          /\ queue' \in SUBSET CRs
      BY <2>2, <2>3, PublishType, Zenon
    <2> QED
      BY <1>13, <2>4, Zenon DEF TypeOK, UpdateStatus, End
  <1>14. ASSUME NEW c \in CRs, UpdatePartial(c) PROVE TypeOK'
    <2> DEFINE m == MarkReleased(api[c].entries, work[c].released)
    <2>1. m \in [Keys -> Entry]
      BY <1>w, EntriesType, Zenon DEF Resource
    <2> HIDE DEF m
    <2>2. [api[c] EXCEPT !.entries = m] \in Resource
      BY <1>w, <2>1, Zenon DEF Resource
    <2>3. Publish(c, [api[c] EXCEPT !.entries = m], {c})
      BY <1>14, Zenon DEF UpdatePartial, m
    <2> QED
      BY <1>14, <2>2, <2>3, PublishType DEF TypeOK, UpdatePartial, End
  <1>15. ASSUME NEW c \in CRs, PurgeKey(c) PROVE TypeOK'
    <2>1. PICK k \in work[c].todo :
            /\ work' = [work EXCEPT ![c] = [work[c] EXCEPT !.todo = @ \ {k}, !.chunk = {k}]]
            /\ IF k \in Dirs THEN UNCHANGED <<store, stale, foreign>>
               ELSE Write({c}, [store EXCEPT ![k] = Absent]) /\ foreign' = foreign \ {k}
      BY <1>15, Zenon DEF PurgeKey
    <2>2. k \in Keys /\ [work[c] EXCEPT !.todo = @ \ {k}, !.chunk = {k}] \in Reconcile
      BY <1>w, ZenonT(60) DEF Reconcile
    <2>3. [store EXCEPT ![k] = Absent] \in [Keys -> Pair]
      BY <2>2, Zenon DEF TypeOK, Absent, Pair
    <2>4. store' \in [Keys -> Pair] /\ stale' \in [CRs -> SUBSET Keys] /\ foreign' \in SUBSET Keys
      BY <2>1, <2>3, WriteType, Zenon DEF TypeOK
    <2> QED
      BY <1>15, <2>1, <2>2, <2>4, Zenon DEF TypeOK, PurgeKey
  <1>16. ASSUME NEW c \in CRs, PurgeTree(c) PROVE TypeOK'
    <2> DEFINE gone == UNION {Tree[k] : k \in work[c].chunk}
               new == [k \in Keys |-> IF k \in gone THEN Absent ELSE store[k]]
    <2>1. new \in [Keys -> Pair]
      BY Zenon DEF TypeOK, Absent, Pair
    <2>2. Write({c}, new) /\ foreign' = foreign \ gone
      BY <1>16, Zenon DEF PurgeTree
    <2> HIDE DEF new
    <2> QED
      BY <1>16, <1>w, <2>1, <2>2, WriteType, LeaveChunkType, Zenon DEF TypeOK, PurgeTree
  <1>17. ASSUME NEW c \in CRs, PurgeFails(c) PROVE TypeOK'
    <2>1. /\ [work[c] EXCEPT !.chunk = {}, !.err = TRUE] \in Reconcile
          /\ \A k : [work[c] EXCEPT !.todo = @ \ {k}, !.err = TRUE] \in Reconcile
      BY <1>w, Zenon DEF Reconcile
    <2>2. work' \in [CRs -> Reconcile]
      <3>1. PICK w \in Reconcile : work' = [work EXCEPT ![c] = w]
        BY <1>17, <2>1, Zenon DEF PurgeFails
      <3> QED
        BY <3>1, WorkType, Zenon
    <2> QED
      BY <1>17, <1>f, <2>2, Zenon DEF TypeOK, PurgeFails
  <1>18. ASSUME NEW o \in Operators, Crash(o) PROVE TypeOK'
    BY <1>18, <1>f, Zenon DEF TypeOK, Crash
  <1>19. ASSUME NEW c \in CRs, Create(c) PROVE TypeOK'
    <2>1. PICK s \in Specs, p \in PurgeModes :
            Publish(c, [Gone EXCEPT !.exists = TRUE, !.gen = 1, !.spec = s, !.purge = p], {})
      BY <1>19, Zenon DEF Create
    <2>2. [Gone EXCEPT !.exists = TRUE, !.gen = 1, !.spec = s, !.purge = p] \in Resource
      BY ConstantsAssumption, Zenon DEF Resource
    <2> QED
      BY <1>19, <1>e, <2>1, <2>2, PublishType DEF TypeOK, Create
  <1>20. ASSUME NEW c \in CRs, Edit(c) PROVE TypeOK'
    <2>1. PICK s \in Specs, p \in PurgeModes :
            Publish(c, [api[c] EXCEPT !.gen = @ + 1, !.spec = s, !.purge = p], {})
      BY <1>20, Zenon DEF Edit
    <2>2. [api[c] EXCEPT !.gen = @ + 1, !.spec = s, !.purge = p] \in Resource
      <3>1. api[c].gen + 1 \in Nat /\ p \in BOOLEAN
        BY <1>w, ConstantsAssumption DEF Resource
      <3> QED
        BY <1>w, <3>1, Zenon DEF Resource
    <2> QED
      BY <1>20, <1>e, <2>1, <2>2, PublishType DEF TypeOK, Edit
  <1>21. ASSUME NEW c \in CRs, Delete(c) PROVE TypeOK'
    <2>1. [api[c] EXCEPT !.deleting = TRUE, !.gen = @ + 1] \in Resource
      <3>1. api[c].gen + 1 \in Nat
        BY <1>w DEF Resource
      <3> QED
        BY <1>w, <3>1, Zenon DEF Resource
    <2> QED
      BY <1>21, <1>e, <2>1, PublishType DEF TypeOK, Delete
  <1>22. ASSUME NEW k \in AppKeys, ExternalPut(k) PROVE TypeOK'
    <2> DEFINE new == [store EXCEPT ![k] = [present |-> TRUE, flags |-> 0, val |-> ExternalValue]]
    <2>1. k \in Keys /\ new \in [Keys -> Pair]
      BY ConstantsAssumption, Zenon DEF TypeOK, Pair
    <2> QED
      BY <1>22, <1>e, <2>1, WriteType, Zenon DEF TypeOK, ExternalPut
  <1>23. ASSUME NEW k \in AppKeys, ExternalDelete(k) PROVE TypeOK'
    <2>1. [store EXCEPT ![k] = Absent] \in [Keys -> Pair]
      BY Zenon DEF TypeOK, Pair, Absent
    <2> QED
      BY <1>23, <1>e, <2>1, WriteType, Zenon DEF TypeOK, ExternalDelete
  <1>24. CASE UNCHANGED vars
    BY <1>24, Zenon DEF TypeOK, vars
  <1> QED
    BY <1>1, <1>2, <1>3, <1>4, <1>5, <1>6, <1>7, <1>8, <1>9, <1>10, <1>11, <1>12, <1>13,
       <1>14, <1>15, <1>16, <1>17, <1>18, <1>19, <1>20, <1>21, <1>22, <1>23, <1>24, Zenon
       DEF Next, ReconcileStep

\* Every reachable state is well typed, whatever faults happen.
THEOREM TypeCorrect == Spec => []TypeOK
  <1>1. Init => TypeOK
    BY GoneType DEF Init, TypeOK, Absent, Pair
  <1> QED
    BY <1>1, Typing, PTL DEF Spec
=============================================================================
