---------------------------- MODULE KeyOwnership ----------------------------
(***************************************************************************)
(* What the ConsulKV controller promises of the KV store: a key belongs to *)
(* the resources that declare it.  It appears with the first owner, goes   *)
(* with the last one, and keeps its value when any other owner leaves.  A  *)
(* key somebody else has put there is written, but never owned and never   *)
(* deleted.  There are no counters here, no batches, no retries and no     *)
(* reconciles: an owner joins or leaves in one step.                       *)
(***************************************************************************)
CONSTANTS
    Owners,    \* the resources
    Keys,
    Values,    \* values a resource may declare
    NoValue,   \* the value of an absent key
    Used       \* values of keys that applications write

VARIABLES
    pair,      \* presence and value of each key
    owners     \* owners[k]: the resources that own k

ownershipVars == <<pair, owners>>

Missing == [present |-> FALSE, val |-> NoValue]

Present(v) == [present |-> TRUE, val |-> v]

\* Somebody else's key.
External(k) == pair[k].present /\ owners[k] = {}

OwnershipInit ==
    /\ pair = [k \in Keys |-> Missing]
    /\ owners = [k \in Keys |-> {}]

\* Resource c writes the keys of s.
Declare(c, s) ==
    /\ \A k \in s : pair'[k].val \in Values
    /\ pair' = [k \in Keys |-> IF k \in s THEN Present(pair'[k].val) ELSE pair[k]]
    /\ owners' = [k \in Keys |-> IF k \in s /\ ~External(k) THEN owners[k] \cup {c}
                                                            ELSE owners[k]]

\* Resource c gives up the keys of s, which it owns.
Release(c, s) ==
    /\ \A k \in s : c \in owners[k]
    /\ pair' = [k \in Keys |-> IF k \in s /\ owners[k] = {c} THEN Missing ELSE pair[k]]
    /\ owners' = [k \in Keys |-> IF k \in s THEN owners[k] \ {c} ELSE owners[k]]

\* An application writes or deletes a key that nobody owns.
Use(k) ==
    /\ owners[k] = {}
    /\ \E p \in {Missing} \cup {Present(v) : v \in Used} : pair' = [pair EXCEPT ![k] = p]
    /\ owners' = owners

OwnershipNext ==
    \/ \E k \in Keys : Use(k)
    \/ \E c \in Owners, s \in SUBSET Keys : Declare(c, s) \/ Release(c, s)

OwnershipSpec == OwnershipInit /\ [][OwnershipNext]_ownershipVars
=============================================================================
