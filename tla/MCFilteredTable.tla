--------------------------- MODULE MCFilteredTable ---------------------------
(***************************************************************************)
(* FilteredTable for TLC: p0, q0 and r0 have Cpl 0, p1 has Cpl 1.          *)
(***************************************************************************)
EXTENDS FilteredTable, TLC

CONSTANTS p0, q0, r0, p1, k1, k2

MCCpl == [p \in Peer |-> IF p = p1 THEN 1 ELSE 0]

MCAddressList == {<<>>, <<k1>>, <<k2, k2>>, <<k1, k2>>}

Cpl0Symmetry == Permutations({p0, q0, r0})
=============================================================================
