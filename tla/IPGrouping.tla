----------------------------- MODULE IPGrouping -----------------------------
(***************************************************************************)
(* IPGroupKey of peerdiversity/filter.go: the key of the group that an IP  *)
(* address counts for.  The groups themselves are defined by the comment   *)
(* on PeerIPGroupKey and, for an IPv6 address of no known AS, by the one   *)
(* in the function; the key is to be the same for two addresses exactly    *)
(* if they are in the same group, or a policy counts wrongly.              *)
(*                                                                         *)
(* An address is what the function looks at: whether it is written in 4    *)
(* or 16 bytes, the bytes of an IPv4 address, the AS and the first 32 bits *)
(* of an IPv6 one.                                                         *)
(***************************************************************************)
EXTENDS Integers, Sequences, FiniteSets

CONSTANTS
    Byte,          \* values of a byte
    LegacyClassA,  \* legacyClassA, the first bytes of its /8 networks
    Prefix32,      \* the first 32 bits of an IPv6 address
    Asn,           \* AS numbers, and 0 for an address of no known AS
    MaxGrouped     \* bound: how many addresses are compared

ASSUME IPGroupingAssumption ==
    /\ 0 \in Byte /\ Byte \subseteq 0..255
    /\ LegacyClassA \subseteq Byte
    /\ Asn \subseteq Nat
    /\ MaxGrouped \in Nat

VARIABLE keyOf  \* the addresses grouped so far, each with its key

groupingVars == <<keyOf>>

IPv4 == [form : {"4 bytes", "16 bytes"}, bytes : [1..4 -> Byte]]

IPv6 == [form : {"16 bytes"}, prefix : Prefix32, asn : Asn]

IP == IPv4 \cup IPv6

IsIPv4(ip) == "bytes" \in DOMAIN ip

-----------------------------------------------------------------------------
\* net.IP.To4: an IPv4-mapped address of 16 bytes is an IPv4 address as well.
To4(ip) == IF IsIPv4(ip) THEN ip.bytes ELSE <<>>

\* The AS that holds the address, which need not hold all of its /32.
AsnForIPv6(ip) == ip.asn

\* ip.Mask(...).String(), with the first n bytes of the mask all ones.
Masked(bytes, n) == [i \in 1..4 |-> IF i <= n THEN bytes[i] ELSE 0]

InLegacyCidrs(bytes) == bytes[1] \in LegacyClassA

\* Only an IP address has dots in it, and only the third kind of key begins
\* with "unknown ASN": two kinds of key are never the same text.
IPGroupKey_ByForm(ip) ==
    IF ip.form = "16 bytes"
    THEN IF ~IsIPv4(ip) /\ AsnForIPv6(ip) # 0
         THEN <<"ASN", AsnForIPv6(ip)>>
         ELSE <<"unknown ASN", "ffffffff000000000000000000000000">>
    ELSE <<"ip", Masked(ip.bytes, IF InLegacyCidrs(ip.bytes) THEN 1 ELSE 2)>>

IPGroupKey(ip) ==
    IF To4(ip) = <<>>
    THEN IF AsnForIPv6(ip) = 0
         THEN <<"unknown ASN", "ffffffff000000000000000000000000">>
         ELSE <<"ASN", AsnForIPv6(ip)>>
    ELSE <<"ip", Masked(To4(ip), IF InLegacyCidrs(To4(ip)) THEN 1 ELSE 2)>>

\* TryAdd asks for the key of one address after another.
GroupAddress(ip) ==
    /\ Cardinality(DOMAIN keyOf) < MaxGrouped
    /\ ip \notin DOMAIN keyOf
    /\ keyOf' = [a \in DOMAIN keyOf \cup {ip} |->
                    IF a = ip THEN IPGroupKey(ip) ELSE keyOf[a]]

GroupingInit == keyOf = [a \in {} |-> <<>>]

GroupingNext == \E ip \in IP : GroupAddress(ip)

GroupingSpec == GroupingInit /\ [][GroupingNext]_groupingVars

-----------------------------------------------------------------------------
\* "all addresses that belong to same legacy (Class A)/8 allocations OR share
\* the same /16 prefix are in the same group", IPv6 addresses are grouped "by
\* the ASN".
SameGroup(a, b) ==
    IF IsIPv4(a) /\ IsIPv4(b)
    THEN /\ a.bytes[1] = b.bytes[1]
         /\ a.bytes[1] \in LegacyClassA \/ a.bytes[2] = b.bytes[2]
    ELSE /\ ~IsIPv4(a) /\ ~IsIPv4(b)
         /\ a.asn = b.asn

\* UnknownAsnGroupedByPrefix is about those that have none.
HasGroup(ip) == IsIPv4(ip) \/ ip.asn # 0

(***************************************************************************)
(* Two addresses have one key if and only if they are in one group,        *)
(* however they are written: neither do two groups share the slots of one, *)
(* nor does a group get the slots of two.                                  *)
(***************************************************************************)
OneKeyPerGroup ==
    \A a, b \in DOMAIN keyOf :
        HasGroup(a) => (keyOf[a] = keyOf[b] <=> SameGroup(a, b))

(***************************************************************************)
(* What the comment in IPGroupKey says of an IPv6 address whose AS is not  *)
(* known: "if no ASN found then fallback on using the /32 prefix"          *)
(* (filter.go:210), that is, two of them have one key only if they share   *)
(* their first 32 bits.                                                    *)
(***************************************************************************)
UnknownAsnGroupedByPrefix ==
    \A a, b \in DOMAIN keyOf \cap IPv6 :
        a.asn = 0 /\ b.asn = 0 /\ keyOf[a] = keyOf[b]
            => a.prefix = b.prefix
=============================================================================
