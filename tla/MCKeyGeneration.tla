-------------------------- MODULE MCKeyGeneration --------------------------
(***************************************************************************)
(* KeyGeneration for TLC.  A candidate's hash has the bits of a number     *)
(* that a linear map gives: another one for each length, so that a peer ID *)
(* that is encoded otherwise than the candidate has another hash.  The     *)
(* prefix of candidate 0 comes again (at 5) before the last prefix does    *)
(* (at 22).                                                                *)
(***************************************************************************)
EXTENDS KeyGeneration

MCPeerID == {SHA2_256} \X {0, 32} \X (0..MaxUint32)

Bits(n) == [i \in 1..IdBits |-> (n \div 2^(IdBits - i)) % 2]

MCHash == [p \in MCPeerID |->
              Bits((IF p[2] = 32 THEN 25 * p[3] + 11 ELSE 41 * p[3] + 5) % 2^IdBits)]
=============================================================================
