---------------------------- MODULE MCListTable ----------------------------
(***************************************************************************)
(* ListTable for TLC.  Peers are named after their Cpl, as in              *)
(* MCRoutingTable.tla.                                                     *)
(***************************************************************************)
EXTENDS ListTable, TLC

CONSTANTS a1, b1, c1, a2

MCCpl == [p \in Peer |-> IF p = a2 THEN 2 ELSE 1]

\* Peers of the same Cpl are interchangeable.
SameCplSymmetry == Permutations({a1, b1, c1})

\* All but the time of the last successful query, which nothing depends on.
ViewOfPeer(p) == <<info[p].lastUsefulAt, info[p].addedAt, info[p].replaceable>>

QueryTimesLeftOut == <<lists, [p \in DOMAIN info |-> ViewOfPeer(p)], notified, reply, now>>
=============================================================================
