-------------------------- MODULE MCDiversityFilter --------------------------
(***************************************************************************)
(* DiversityFilter for TLC: p0, q0 and r0 have Cpl 0, p1 has Cpl 1.       *)
(***************************************************************************)
EXTENDS DiversityFilter, TLC

CONSTANTS p0, q0, r0, p1, k1, k2

MCCpl == [p \in Peer |-> IF p = p1 THEN 1 ELSE 0]

\* No address, one, two in different groups, two in one group, and an
\* address that is no IP address after a good one.
MCAddressList ==
    {<<>>, <<k1>>, <<k2>>, <<k1, k2>>, <<k1, k1>>, <<k1, NoKey>>}

\* The two keys are not interchangeable in AddressList, the peers of Cpl 0 are.
Cpl0Symmetry == Permutations({p0, q0, r0})
=============================================================================
