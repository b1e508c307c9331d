--------------------------- MODULE MCNearestPeers ---------------------------
(***************************************************************************)
(* NearestPeers for TLC.  IDs have three bits; a peer is the number its    *)
(* bits spell, and the local ID is 000.                                    *)
(***************************************************************************)
EXTENDS NearestPeers

MCDhtId == [p \in Peer |-> [i \in 1..IdBits |-> (p \div 2^(IdBits - i)) % 2]]

MCLocal == [i \in 1..IdBits |-> 0]

MCCpl == [p \in Peer |-> CommonPrefixLen(MCDhtId[p], MCLocal)]

\* All of the state but the times in the records, which no lookup reads.
TimelessView ==
    <<buckets, [p \in DOMAIN info |-> info[p].replaceable], notified, reply, now>>
=============================================================================
