--------------------------- MODULE RefreshTracking ---------------------------
(***************************************************************************)
(* The refresh times of table_refresh.go, beside the table they are about. *)
(*                                                                         *)
(* GetTrackedCplsForRefresh holds tabLock while it asks for the greatest   *)
(* Cpl and cplRefreshLk while it copies the times, one after the other:    *)
(* two steps, between which both the table and the times may change.       *)
(*                                                                         *)
(* What the times are for is a round of refreshing: a caller takes the     *)
(* Cpls that are due from an answer and, for one after the other, makes an *)
(* ID and resets its Cpl, while others do as they like.  An ID is known by *)
(* its Cpl here, which KeyGeneration shows to be the one asked for.        *)
(***************************************************************************)
EXTENDS RoutingTable

CONSTANT MaxCplForRefresh  \* maxCplForRefresh, 15 in the code

ASSUME RefreshAssumption == MaxCplForRefresh \in Nat

VARIABLES
    cplRefreshedAt,  \* when each Cpl was last refreshed, Never by default
    getting,         \* the call of GetTrackedCplsForRefresh that is between
                     \* its locks: what it has read, and who has been in the
                     \* table all the while
    tracked,         \* what the last such call returned, and likewise
    round            \* the round that its caller makes of it: when it began,
                     \* the Cpls still to do, and those for which another
                     \* caller has since given a time before it began

refreshVars == <<cplRefreshedAt, getting, tracked, round>>

CplForRefresh == 0..MaxCplForRefresh

Smaller(a, b) == IF a < b THEN a ELSE b

RefreshInit ==
    /\ Init
    /\ cplRefreshedAt = [c \in CplForRefresh |-> Never]
    /\ getting = {}
    /\ tracked = [times |-> <<>>, held |-> {}]
    /\ round = [since |-> Never, todo |-> {}, older |-> {}]

-----------------------------------------------------------------------------
\* The first lock of GetTrackedCplsForRefresh.  One call stands for all: they
\* only read.
ReadMaxCpl_BucketCount ==
    /\ getting = {}
    /\ getting' = {[upTo |-> Smaller(Len(buckets) - 1, MaxCplForRefresh),
                    held |-> TablePeers]}
    /\ UNCHANGED <<vars, cplRefreshedAt, tracked, round>>

ReadMaxCpl ==
    /\ getting = {}
    /\ getting' = {[upTo |-> Smaller(MaxCommonPrefix, MaxCplForRefresh),
                    held |-> TablePeers]}
    /\ UNCHANGED <<vars, cplRefreshedAt, tracked, round>>

\* rt.cplRefreshedAt[cpl], which is the zero time if there is no entry.
RefreshedAt(cpl) == IF cpl \in CplForRefresh THEN cplRefreshedAt[cpl] ELSE Never

\* The second lock.  The slice starts at Cpl 0, the sequence at 1.  The caller
\* goes on with the Cpls that were not refreshed at this instant.
ReturnTimes ==
    \E call \in getting :
        /\ tracked' = [times |-> [i \in 1..(call.upTo + 1) |-> RefreshedAt(i - 1)],
                       held |-> call.held]
        /\ round' = [since |-> now,
                     todo |-> {c \in 0..call.upTo : RefreshedAt(c) < now},
                     older |-> {}]
        /\ getting' = {}
        /\ UNCHANGED <<vars, cplRefreshedAt>>

\* ResetCplRefreshedAtForID for an ID of this Cpl: one above the maximum is
\* ignored.
AfterReset_MaxLeftOut(cpl, t) ==
    IF cpl >= MaxCplForRefresh THEN cplRefreshedAt
    ELSE [cplRefreshedAt EXCEPT ![cpl] = t]

AfterReset(cpl, t) ==
    IF cpl > MaxCplForRefresh THEN cplRefreshedAt
    ELSE [cplRefreshedAt EXCEPT ![cpl] = t]

\* A step of the round: the ID that GenRandPeerID makes, which refuses a Cpl
\* above the maximum, is looked up, and its Cpl reset with a time of the round.
\* (If there are no random bytes the caller tries again.)
RefreshCpl(cpl) ==
    /\ cpl \in round.todo
    /\ \E t \in round.since..now :
          cplRefreshedAt' = IF cpl > MaxCplForRefresh THEN cplRefreshedAt
                            ELSE AfterReset(cpl, t)
    /\ round' = [round EXCEPT !.todo = @ \ {cpl}, !.older = @ \ {cpl}]
    /\ UNCHANGED <<vars, getting, tracked>>

\* Any other caller, for an ID of any Cpl, with a time that it read before or
\* none at all.
ResetCplRefreshedAtForID(cpl, t) ==
    /\ cplRefreshedAt' = AfterReset(cpl, t)
    /\ round' = [round EXCEPT
                    !.older = IF t < round.since THEN @ \cup {cpl} ELSE @ \ {cpl}]
    /\ UNCHANGED <<vars, getting, tracked>>

\* A method of the table, or the clock.
TableStep ==
    /\ Next
    /\ getting' = {[call EXCEPT !.held = @ \cap TablePeers'] : call \in getting}
    /\ UNCHANGED <<cplRefreshedAt, tracked, round>>

RefreshNext ==
    \/ ReadMaxCpl
    \/ ReturnTimes
    \/ \E cpl \in 0..MaxCpl : RefreshCpl(cpl)
    \/ \E cpl \in 0..MaxCpl, t \in {Never} \cup 1..now : ResetCplRefreshedAtForID(cpl, t)
    \/ TableStep

RefreshSpec == RefreshInit /\ [][RefreshNext]_<<vars, refreshVars>>

-----------------------------------------------------------------------------
TrackedCpls == {i - 1 : i \in DOMAIN tracked.times}

(***************************************************************************)
(* Every peer that was in the table for the whole call has its Cpl among   *)
(* those returned, or shares the greatest one that can be refreshed, even  *)
(* if the table unfolds or collapses while the call is between its locks   *)
(* and although it has seen only the last bucket with peers in it.         *)
(***************************************************************************)
TrackedCoverTable ==
    \A p \in tracked.held : Smaller(Cpl[p], MaxCplForRefresh) \in TrackedCpls

(***************************************************************************)
(* A round reaches all it has to.  When its caller is through, each Cpl it *)
(* was told of, and with them each Cpl of a peer that was in the table for *)
(* the whole call, is recorded as refreshed since the round began; unless, *)
(* after the round did it, another caller gave a time from before, which   *)
(* is all that can make a recorded time too old.  For that the limits in   *)
(* GetTrackedCplsForRefresh, GenRandPeerID and ResetCplRefreshedAtForID    *)
(* have to agree, or the greatest Cpl is refreshed again and again and     *)
(* stays overdue for ever.                                                 *)
(***************************************************************************)
RoundLeavesNoneOverdue ==
    round.todo = {} =>
        \A c \in TrackedCpls \cup {Smaller(Cpl[p], MaxCplForRefresh) : p \in tracked.held} :
            RefreshedAt(c) >= round.since \/ c \in round.older
=============================================================================
