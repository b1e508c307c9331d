----------------------------- MODULE IdealTable -----------------------------
(***************************************************************************)
(* What the routing table promises: the k-buckets of Kademlia, one for     *)
(* each length of common prefix, always all there, each of a fixed size.   *)
(* The code keeps fewer buckets, splits the last one when it overflows and *)
(* merges buckets when peers leave; none of that may show.                 *)
(***************************************************************************)
EXTENDS Integers, FiniteSets

CONSTANTS Peer, BucketSize, MaxCpl, Cpl

VARIABLES
    group,        \* the peers of each Cpl
    replaceable,  \* the peers that may be evicted for another one
    reply         \* what the last attempt to add a peer returned

vars == <<group, replaceable, reply>>

Home(p) == group[Cpl[p]]

Full(p) == Cardinality(Home(p)) >= BucketSize

Init ==
    /\ group = [c \in 0..MaxCpl |-> {}]
    /\ replaceable = {}
    /\ reply = "none"

MayReplace(p, isReplaceable) == IF isReplaceable THEN {p} ELSE {}

Exists(p) ==
    /\ p \in Home(p)
    /\ reply' = "exists"
    /\ UNCHANGED <<group, replaceable>>

TurnAway(p) ==
    /\ p \notin Home(p)
    /\ reply' \in {"latency", "diversity"}
    /\ UNCHANGED <<group, replaceable>>

Insert(p, isReplaceable) ==
    /\ p \notin Home(p)
    /\ ~Full(p)
    /\ group' = [group EXCEPT ![Cpl[p]] = @ \cup {p}]
    /\ replaceable' = replaceable \cup MayReplace(p, isReplaceable)
    /\ reply' = "added"

Replace(p, v, isReplaceable) ==
    /\ p \notin Home(p)
    /\ Full(p)
    /\ v \in Home(p) \cap replaceable
    /\ group' = [group EXCEPT ![Cpl[p]] = (@ \cup {p}) \ {v}]
    /\ replaceable' = (replaceable \ {v}) \cup MayReplace(p, isReplaceable)
    /\ reply' = "added"

NoCapacity(p) ==
    /\ p \notin Home(p)
    /\ Full(p)
    /\ Home(p) \cap replaceable = {}
    /\ reply' = "capacity"
    /\ UNCHANGED <<group, replaceable>>

Remove(p) ==
    /\ p \in Home(p)
    /\ group' = [group EXCEPT ![Cpl[p]] = @ \ {p}]
    /\ replaceable' = replaceable \ {p}
    /\ UNCHANGED reply

MarkAllIrreplaceable ==
    /\ replaceable' = {}
    /\ UNCHANGED <<group, reply>>

Next ==
    \/ \E p \in Peer :
          \/ Exists(p)
          \/ TurnAway(p)
          \/ NoCapacity(p)
          \/ Remove(p)
          \/ \E isReplaceable \in BOOLEAN :
                \/ Insert(p, isReplaceable)
                \/ \E v \in Peer : Replace(p, v, isReplaceable)
    \/ MarkAllIrreplaceable

Spec == Init /\ [][Next]_vars
=============================================================================
