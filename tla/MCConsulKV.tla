----------------------------- MODULE MCConsulKV -----------------------------
(* Small instances of ConsulKV for TLC.                                    *)
EXTENDS ConsulKV

CONSTANTS c1, c2, k1, k2, none, v1, v2, app, op1, op2

MCCRs == {c1, c2}
OneCR == {c1}

\* The operators watch all namespaces with strict validation.  The
\* resources live beside op1; c2 names op2 where that one runs.
Scope == INSTANCE OperatorScope WITH
    Namespace <- [c \in CRs |-> op1],
    OperatorNamespace <- [c \in CRs |-> IF c = c2 /\ op2 \in Operators THEN op2 ELSE none],
    Empty <- none,
    Strict <- TRUE,
    AllNamespaces <- [o \in Operators |-> TRUE],
    WatchNamespaces <- [o \in Operators |-> {}]
ByScope == [c \in CRs |-> CHOOSE o \in Operators : Scope!Reconciles(o, c)]

MCKeys == {k1, k2, EmptyKey}
NoTree == [k \in MCKeys |-> {}]

E(k, v) == [key |-> k, val |-> v]

\* A shared key, a second key, and an entry with an empty key.
DistinctSpecs == {<<E(k1, v1)>>, <<E(k1, v2), E(k2, v1), E(EmptyKey, v1)>>}

\* The same, with the first key declared twice.
DuplicateSpecs == {<<E(k1, v1)>>, <<E(k1, v1), E(k2, v1), E(EmptyKey, v1), E(k1, v2)>>}

\* k1 ends with a slash: it is the directory of k2.
DirTree == [k \in MCKeys |-> IF k = k1 THEN {k1, k2} ELSE {}]
=============================================================================
