------------------------------- MODULE PeerCpl -------------------------------
(***************************************************************************)
(* The peers, and the length of the prefix that the ID of each shares with *)
(* the local ID: CommonPrefixLen(ConvertPeerID(p), rt.local), which is     *)
(* also the cplFnc that NewRoutingTable's caller gives to the diversity    *)
(* filter.  Neither the table nor the filter asks anything else of an ID   *)
(* to put a peer in its place, so peers are opaque here.                   *)
(***************************************************************************)
EXTENDS Integers

CONSTANTS
    Peer,    \* peer IDs
    MaxCpl,  \* length of an ID in bits: only the local ID has this Cpl
    Cpl      \* the common prefix length of each peer

ASSUME CplAssumption == MaxCpl \in Nat /\ Cpl \in [Peer -> 0..MaxCpl]
=============================================================================
