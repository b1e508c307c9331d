-------------------------- MODULE MCRefreshTracking --------------------------
(***************************************************************************)
(* RefreshTracking for TLC.  Peers are named after their Cpl; a3's Cpl     *)
(* is beyond what is refreshed.                                            *)
(***************************************************************************)
EXTENDS RefreshTracking, TLC

CONSTANTS a1, b1, a3

MCCpl == [p \in Peer |-> CASE p \in {a1, b1} -> 1
                           [] p = a3          -> 3]

\* Peers of the same Cpl are interchangeable.
SameCplSymmetry == Permutations({a1, b1})

\* All that a guard or an invariant here depends on: of the records, who is in
\* the table and replaceable, and of the last answer how many Cpls it has, for
\* the times in it are used at once.
RoundView ==
    <<buckets, {p \in DOMAIN info : info[p].replaceable}, DOMAIN info, notified, now,
      cplRefreshedAt, getting, TrackedCpls, tracked.held, round>>
=============================================================================
