---------------------------- MODULE KeyGeneration ----------------------------
(***************************************************************************)
(* The random keys with which a caller refreshes the buckets:              *)
(* GenRandomKey (table_refresh.go) and GenRandPeerIDWithCPL (util.go).     *)
(* Both are to produce an ID that shares exactly the first cpl bits with   *)
(* the local one, both by masking bytes or words, and both check cpl first *)
(* on unsigned machine integers.  The second takes its peer IDs from the   *)
(* map of PrefixMap, which is part of the library once it is written.      *)
(*                                                                         *)
(* Random bytes are a choice over all IDs; a mask is the set of the bits   *)
(* it has.  The random source may fail, which is returned as an error.     *)
(***************************************************************************)
EXTENDS PrefixMap

CONSTANTS
    ByteBits,  \* 8
    MaxInt     \* the greatest int: 2^63 - 1, or 2^31 - 1

ASSUME KeyGenerationAssumption ==
    /\ ByteBits \in Nat \ {0} /\ MaxInt \in Nat
    /\ IdBits % ByteBits = 0
    /\ IdBits <= MaxInt

VARIABLES
    local,   \* rt.local, any ID
    asked,   \* the last call: of which function, and for which Cpl
    result   \* what the last call did: its outcome, and the ID if there is one

callVars == <<local, asked, result>>

vars == <<callVars, searchVars>>

\* uint, and its conversion to an int.
Uint == 0..(2 * MaxInt + 1)

AsInt(u) == IF u <= MaxInt THEN u ELSE u - (2 * MaxInt + 2)

Returned(id) == [outcome |-> "id", id |-> id]

Failed(outcome) == [outcome |-> outcome, id |-> local]

Init ==
    /\ SearchInit
    /\ local \in ID
    /\ asked = [of |-> "none", cpl |-> 0]
    /\ result = Failed("none")

-----------------------------------------------------------------------------
\* GenRandomKey

Refused_SumLeftOut(cpl) == AsInt(cpl) > IdBits

\* int(targetCpl+1) >= len(rt.local)*8: the sum wraps around, and the
\* conversion may make it negative.
Refused(cpl) == AsInt((cpl + 1) % (2 * MaxInt + 2)) >= IdBits

\* rt.local[partialOffset] does not exist.
OutOfRange(cpl) == cpl \div ByteBits >= IdBits \div ByteBits

\* The whole bytes before partialOffset are copied; of the byte at it, the
\* bits of origMask are kept, the next one is flipped and those of randMask
\* are random, as are all later bytes.
RandomKey_WholeByte(cpl, random) ==
    LET start == (cpl \div ByteBits) * ByteBits
        flip  == start + (cpl % ByteBits) + 1
        byte  == (start + 1)..(start + ByteBits)
    IN  [i \in 1..IdBits |->
            IF i = flip THEN 1 - local[i]
            ELSE IF i <= start \/ i \in byte THEN local[i]
            ELSE random[i]]

RandomKey(cpl, random) ==
    LET start    == (cpl \div ByteBits) * ByteBits
        origMask == {start + k : k \in 1..(cpl % ByteBits)}
        flip     == start + (cpl % ByteBits) + 1
    IN  [i \in 1..IdBits |->
            IF i <= start \/ i \in origMask THEN local[i]
            ELSE IF i = flip THEN 1 - local[i]
            ELSE random[i]]

GenRandomKey(cpl) ==
    /\ asked' = [of |-> "GenRandomKey", cpl |-> cpl]
    /\ \/ /\ Refused(cpl) \/ ~OutOfRange(cpl)  \* or there are no random bytes
          /\ result' = Failed("error")
       \/ /\ ~Refused(cpl) /\ OutOfRange(cpl)
          /\ result' = Failed("panic")
       \/ /\ ~Refused(cpl) /\ ~OutOfRange(cpl)
          /\ \E random \in ID : result' = Returned(RandomKey(cpl, random))
    /\ UNCHANGED local

-----------------------------------------------------------------------------
\* GenRandPeerIDWithCPL

\* PeerIDPreimageMaxCpl, maxCplForRefresh
MaxCplForRefresh == PrefixBits - 1

\* (toggledLocalPrefix & mask) | (randPrefix & ^mask), as the first PrefixBits
\* bits of an ID.
TargetPrefix_LongMask(cpl, random) ==
    LET toggled == [i \in 1..PrefixBits |->
                       IF i = cpl + 1 THEN 1 - local[i] ELSE local[i]]
    IN  [i \in 1..PrefixBits |-> IF i <= cpl + 2 THEN toggled[i] ELSE random[i]]

TargetPrefix(cpl, random) ==
    LET toggled == [i \in 1..PrefixBits |->
                       IF i = cpl + 1 THEN 1 - local[i] ELSE local[i]]
        mask    == 1..(cpl + 1)
    IN  [i \in 1..PrefixBits |-> IF i \in mask THEN toggled[i] ELSE random[i]]

\* The peer ID with a key of the map: the generator's candidate, encoded
\* once more.
PeerIDFor_NoLength(key) == <<SHA2_256, 0, key>>

PeerIDFor(key) == <<SHA2_256, 32, key>>

GenRandPeerID(cpl) ==
    /\ asked' = [of |-> "GenRandPeerID", cpl |-> cpl]
    /\ \/ result' = Failed("error")  \* too great a cpl, or no random bytes
       \/ /\ cpl <= MaxCplForRefresh
          /\ \E random \in Prefix :
                LET key == keyPrefixMap[TargetPrefix(cpl, random)]
                IN  result' = Returned(Hash[PeerIDFor(key)])
    /\ UNCHANGED local

Next ==
    \/ Search /\ UNCHANGED callVars
    \/ /\ mapWritten
       /\ \E cpl \in Uint : GenRandomKey(cpl) \/ GenRandPeerID(cpl)
       /\ UNCHANGED searchVars

\* The generator is a loop of one thread.
Spec == Init /\ [][Next]_vars /\ WF_vars(Search /\ UNCHANGED callVars)

-----------------------------------------------------------------------------
(***************************************************************************)
(* An ID that is returned shares exactly the Cpl asked for with the local  *)
(* one: not a bit less, nor by chance one more, at any offset in a byte.   *)
(***************************************************************************)
GeneratedHasCpl ==
    result.outcome = "id" => CommonPrefixLen(result.id, local) = asked.cpl

(***************************************************************************)
(* "the remaining bits are randomly generated": every ID of a Cpl is       *)
(* generated by some random bytes, so that no part of a bucket's key space *)
(* is left out of every refresh.                                           *)
(***************************************************************************)
EveryKeyIsPossible ==
    \A id \in ID :
        LET cpl == CommonPrefixLen(id, local)
        IN  cpl < IdBits - 1 =>
                \E random \in ID : RandomKey(cpl, random) = id

(***************************************************************************)
(* The same for GenRandPeerIDWithCPL, as far as its map goes: every prefix *)
(* that first differs from the local one in a given bit is the target      *)
(* prefix of some random one, so that every peer ID of the map is used.    *)
(***************************************************************************)
EveryPrefixIsPossible ==
    \A prefix \in Prefix, cpl \in 0..MaxCplForRefresh :
        /\ \A i \in 1..cpl : prefix[i] = local[i]
        /\ prefix[cpl + 1] # local[cpl + 1]
        => \E random \in Prefix : TargetPrefix(cpl, random) = prefix

(***************************************************************************)
(* For every Cpl below the greatest int GenRandomKey returns, with a key   *)
(* or an error: its check keeps it from the bytes beyond the ID, although  *)
(* it compares a sum that may wrap around, converted to a signed integer.  *)
(* (From the greatest int upwards it does panic.)                          *)
(***************************************************************************)
PanicsOnlyOnOverflow ==
    result.outcome = "panic" => asked.cpl >= MaxInt
=============================================================================
