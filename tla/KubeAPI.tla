------------------------------ MODULE KubeAPI -------------------------------
(***************************************************************************)
(* What the controllers of the ACL configurator operator see of            *)
(* Kubernetes: the API server that stores the custom resources, the        *)
(* informer cache behind mgr.GetClient(), and the work queue that the      *)
(* predicates of SetupWithManager feed.  A resource is a record with at    *)
(* least the fields exists and gen (metadata.generation).                  *)
(*                                                                         *)
(* The bounds on the steps of users and on the failures live here too.     *)
(***************************************************************************)
EXTENDS Naturals

CONSTANTS
    CRs,            \* names of resources
    Faults,         \* which kinds of failure happen
    MaxEdits,       \* bound on the steps of users and applications
    MaxFaults       \* bound on the failures

VARIABLES
    api,      \* the resources as the API server stores them
    view,     \* the resources in the informer cache of their operator
    queue,    \* the work queue of the controllers
    edits,    \* steps users and applications have taken
    faults    \* failures that have happened

Lagging == "staleCache" \in Faults

\* The predicates of SetupWithManager: creation, deletion, new generation.
Triggers(old, new) == old.exists # new.exists \/ old.gen # new.gen

\* The API server stores o; a cache that does not lag sees it at once.
Publish(c, o, requeued) ==
    /\ api' = [api EXCEPT ![c] = o]
    /\ IF Lagging
       THEN view' = view /\ queue' = queue \cup requeued
       ELSE /\ view' = [view EXCEPT ![c] = o]
            /\ queue' = queue \cup requeued
                          \cup (IF Triggers(api[c], o) THEN {c} ELSE {})

\* The watch of the informer delivers the latest version of c.
Deliver(c) ==
    /\ Lagging
    /\ view[c] # api[c]
    /\ view' = [view EXCEPT ![c] = api[c]]
    /\ queue' = queue \cup (IF Triggers(view[c], api[c]) THEN {c} ELSE {})

\* Updates read the cached resource first, so they conflict while it lags.
UpToDate(c) == view[c].exists /\ view[c] = api[c]

Fault(kind) ==
    /\ kind \in Faults
    /\ faults < MaxFaults
    /\ faults' = faults + 1

Edited == edits < MaxEdits /\ edits' = edits + 1
=============================================================================
