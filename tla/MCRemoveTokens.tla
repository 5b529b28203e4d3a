--------------------------- MODULE MCRemoveTokens ---------------------------
(* Two client pods, for TLC.                                               *)
EXTENDS RemoveTokens

CONSTANTS p1, p2

\* The bootstrap token, a token of another component with the name of a client
\* pod, and a token without a pod.
MCOthers ==
    {[id |-> 1, bootstrap |-> TRUE, component |-> "client", pod |-> p1],
     [id |-> 2, bootstrap |-> FALSE, component |-> "other", pod |-> p1],
     [id |-> 3, bootstrap |-> FALSE, component |-> "client", pod |-> NoPod]}
=============================================================================
