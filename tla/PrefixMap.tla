------------------------------ MODULE PrefixMap ------------------------------
(***************************************************************************)
(* The search that computes bucket_prefixmap.go (generate/main.go), which  *)
(* go generate runs before the library is built.  It hashes one candidate  *)
(* peer ID after the other until it has one for every prefix of PrefixBits *)
(* bits.  The array indices of the code are numbers; here a prefix is the  *)
(* function of its bits, as an ID is.                                      *)
(*                                                                         *)
(* A candidate is a multihash that holds nothing but a number: its code,   *)
(* its length, the number.  SHA-256 is external: any function of the peer  *)
(* ID that leads to every prefix.                                          *)
(***************************************************************************)
EXTENDS KeySpace, FiniteSets

CONSTANTS
    PrefixBits,  \* bits, 16
    MaxUint32,   \* 2^32 - 1
    PeerID,      \* the peer IDs that anything in the model hashes
    Hash         \* sha256, and ConvertPeerID of util.go

SHA2_256 == 18  \* mh.SHA2_256

Number == 0..MaxUint32

\* inp: the candidate with a number.
Candidate(n) == <<SHA2_256, 32, n>>

Prefix == [1..PrefixBits -> Bit]

\* The first PrefixBits bits.
PrefixOf(id) == [b \in 1..PrefixBits |-> id[b]]

ASSUME PrefixMapAssumption ==
    /\ PrefixBits \in Nat \ {0} /\ PrefixBits <= IdBits
    /\ MaxUint32 \in Nat
    /\ \A n \in Number : Candidate(n) \in PeerID
    /\ Hash \in [PeerID -> ID]

\* Else the search never ends.
ASSUME HashAssumption ==
    \A prefix \in Prefix : \E n \in Number : PrefixOf(Hash[Candidate(n)]) = prefix

VARIABLES
    number,  \* i: the next candidate
    ids,     \* for each prefix, the number of a candidate; 0 by default
    found,   \* for each prefix, whether there is one yet
    count    \* how many there are

searchVars == <<number, ids, found, count>>

target == 2^PrefixBits

\* The map is written when the loop has ended.
mapWritten == count >= target

keyPrefixMap == ids

SearchInit ==
    /\ number = 0
    /\ ids = [prefix \in Prefix |-> 0]
    /\ found = [prefix \in Prefix |-> FALSE]
    /\ count = 0

-----------------------------------------------------------------------------
\* i as an integer too narrow for the search.
Advance_Narrow == number' = (number + 1) % ((MaxUint32 + 1) \div 2)

Advance == number' = (number + 1) % (MaxUint32 + 1)

\* The default of ids is the number of a candidate, too.
Keep_UnlessNumbered(prefix) ==
    IF ids[prefix] = 0
    THEN /\ found' = [found EXCEPT ![prefix] = TRUE]
         /\ ids' = [ids EXCEPT ![prefix] = number]
         /\ count' = count + 1
    ELSE UNCHANGED <<ids, found, count>>

Keep(prefix) ==
    IF ~found[prefix]
    THEN /\ found' = [found EXCEPT ![prefix] = TRUE]
         /\ ids' = [ids EXCEPT ![prefix] = number]
         /\ count' = count + 1
    ELSE UNCHANGED <<ids, found, count>>

\* One round of the loop.
Search ==
    /\ ~mapWritten
    /\ Keep(PrefixOf(Hash[Candidate(number)]))
    /\ Advance

-----------------------------------------------------------------------------
(***************************************************************************)
(* Once it is written the map has a peer ID for every prefix, whose hash   *)
(* begins with the prefix, and it is the first of all candidates that does *)
(* so: the generated file is the same whenever it is generated.            *)
(***************************************************************************)
MapHasLeastPreimages ==
    mapWritten =>
        \A prefix \in Prefix :
            LET n == keyPrefixMap[prefix]
            IN  /\ PrefixOf(Hash[Candidate(n)]) = prefix
                /\ \A m \in 0..(n - 1) : PrefixOf(Hash[Candidate(m)]) # prefix

(***************************************************************************)
(* The search ends, if the hashes lead to every prefix: a prefix is not    *)
(* counted twice, nor a candidate passed over.                             *)
(***************************************************************************)
MapIsWritten == <>mapWritten
=============================================================================
