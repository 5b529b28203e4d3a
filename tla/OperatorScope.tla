---------------------------- MODULE OperatorScope ----------------------------
(***************************************************************************)
(* Which operator reconciles a custom resource.  Two places of the code    *)
(* decide: configureMgrNamespaces (main.go) tells the cache which          *)
(* resources to watch, and isOwnedByOperator (controllers/ownership.go) is *)
(* the predicate of both controllers on what the cache delivers.  An       *)
(* operator is named by the namespace it runs in.  ConsulKVInvariants      *)
(* proves that the two agree, and that a resource has at most one operator.*)
(***************************************************************************)
CONSTANTS
    Operators,          \* the namespaces operators run in
    CRs,                \* custom resources
    Namespace,          \* Namespace[c]: the namespace of a resource
    OperatorNamespace,  \* OperatorNamespace[c]: spec.operatorNamespace
    Empty,              \* the empty string
    Strict,             \* STRICT_NAMESPACE_VALIDATION
    AllNamespaces,      \* AllNamespaces[o]: WATCH_NAMESPACE of o is "*"
    WatchNamespaces     \* WatchNamespaces[o]: its list otherwise

IsOwnedByOperator(c, o) ==
    IF OperatorNamespace[c] # Empty
    THEN OperatorNamespace[c] = o
    ELSE ~Strict \/ Namespace[c] = o

\* With "*" and strict validation a field selector limits the cache outside
\* the own namespace; the own namespace is always in a list.
Cached(c, o) ==
    IF AllNamespaces[o]
    THEN ~Strict \/ Namespace[c] = o \/ OperatorNamespace[c] = o
    ELSE Namespace[c] \in WatchNamespaces[o] \cup {o}

Reconciles(o, c) == Cached(c, o) /\ IsOwnedByOperator(c, o)
=============================================================================
