--------------------------- MODULE MCRoutingTable ---------------------------
(***************************************************************************)
(* RoutingTable for TLC.  Peers are named after their Cpl: a0, b0 and c0   *)
(* share no bit with the local peer, a3 is the local peer itself.          *)
(***************************************************************************)
EXTENDS RoutingTable, TLC

CONSTANTS a0, b0, c0, a1, b1, c1, a2, b2, c2, a3

MCCpl == [p \in Peer |-> CASE p \in {a0, b0, c0} -> 0
                           [] p \in {a1, b1, c1} -> 1
                           [] p \in {a2, b2, c2} -> 2
                           [] p = a3             -> 3]

\* Peers of the same Cpl are interchangeable.
SameCplSymmetry ==
    Permutations({a0, b0, c0} \cap Peer)
        \cup Permutations({a1, b1, c1} \cap Peer)
        \cup Permutations({a2, b2, c2} \cap Peer)

\* All but the times in the records.  What a step does to the rest of the
\* state does not depend on them, and no property here but TypeOK is about them.
TimelessView ==
    <<buckets, {p \in DOMAIN info : info[p].replaceable}, DOMAIN info, notified, reply, now>>
=============================================================================
