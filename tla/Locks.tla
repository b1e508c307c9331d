-------------------------------- MODULE Locks --------------------------------
(***************************************************************************)
(* Who holds which lock when (table.go, table_refresh.go, filter.go).  The *)
(* library starts no goroutine: its concurrency is that of its callers,    *)
(* each of which is a process here and goes through the lock operations    *)
(* and the critical sections of one call after another.                    *)
(*                                                                         *)
(* A call is the sequence of the steps still to come.  What the steps do   *)
(* to the table is the other modules' business: they take a whole method   *)
(* as one step, and NoRace is what entitles them to.                       *)
(*                                                                         *)
(* tabLock and cplRefreshLk are sync.RWMutex, the filter's mu is a         *)
(* sync.Mutex: once a writer has announced itself no reader is let in, and *)
(* it enters when the readers before it have left.                         *)
(***************************************************************************)
EXTENDS Integers, Sequences

CONSTANT Caller

VARIABLES
    call,     \* what each caller has still to do; empty if it is in no call
    readers,  \* how many times each caller has each lock for reading
    writer    \* who has announced itself as, or is, the writer of each lock

vars == <<call, readers, writer>>

LockName == {"tabLock", "cplRefreshLk", "mu"}

Steps == {"RLock", "RUnlock", "Lock", "Enter", "Unlock", "Read", "Write", "Callback"}

TypeOK ==
    /\ \A c \in Caller : \A i \in DOMAIN call[c] :
          call[c][i].do \in Steps /\ call[c][i].of \in LockName
    /\ readers \in [LockName -> [Caller -> Nat]]
    /\ writer \in [LockName -> SUBSET Caller]

Init ==
    /\ call = [c \in Caller |-> <<>>]
    /\ readers = [l \in LockName |-> [c \in Caller |-> 0]]
    /\ writer = [l \in LockName |-> {}]

-----------------------------------------------------------------------------
\* The methods.  of names the lock that guards what a step touches; a callback
\* is code of the application (or of the policy, under mu): it may take as
\* long as it likes, but returns.
Step(do, lock) == <<[do |-> do, of |-> lock]>>

ReadLocked(lock, body) == Step("RLock", lock) \o body \o Step("RUnlock", lock)

Locked(lock, body) ==
    Step("Lock", lock) \o Step("Enter", lock) \o body \o Step("Unlock", lock)

Read(lock)  == Step("Read", lock)
Write(lock) == Step("Write", lock)

\* NPeersForCpl, UsefulNewPeer, GetPeerInfos, Size, ListPeers, Print, and the
\* part of NearestPeers that gathers peers.
ReadTable == ReadLocked("tabLock", Read("tabLock"))

\* NearestPeer asks for the size of a table without peers, after its search.
NearestPeer == ReadTable \o ReadTable

\* Mark and both Updates.
UpdateInfo_ReadLocked == ReadLocked("tabLock", Write("tabLock"))

UpdateInfo == Locked("tabLock", Write("tabLock"))

\* WhitelistPeers and GetDiversityStats.
UseFilter_TableLocked == ReadLocked("tabLock", Locked("mu", Write("mu")))

UseFilter == Locked("mu", Write("mu"))

ResetCplRefreshedAt == Locked("cplRefreshLk", Write("cplRefreshLk"))

\* TryAdd and Remove of the filter, with the policy's hooks.
Filter_Call == Locked("mu", Write("mu") \o Step("Callback", "mu"))

\* The part of removePeer after it has found the peer: out of its bucket, out
\* of the filter, and the empty buckets dropped.
Gone ==
    Write("tabLock") \o Filter_Call \o Write("tabLock") \o Step("Callback", "tabLock")

\* addPeer returns early, with or without a first usefulness to note; is
\* stopped by the filter; finds room; replaces a peer; or has no place, and
\* takes the peer out of the filter.
AddPeer ==
    LET added == Write("tabLock") \o Step("Callback", "tabLock")
    IN  {Locked("tabLock", Read("tabLock") \o rest) :
            rest \in {<<>>, Write("tabLock"), Filter_Call, Filter_Call \o added,
                      Filter_Call \o added \o Gone,
                      Filter_Call \o Write("tabLock") \o Filter_Call}}

RemovePeer ==
    {Locked("tabLock", Read("tabLock") \o rest) : rest \in {<<>>, Gone}}

GetTrackedCpls_Nested ==
    ReadLocked("tabLock", ReadTable
                          \o ReadLocked("cplRefreshLk", Read("cplRefreshLk")))

GetTrackedCpls == ReadTable \o ReadLocked("cplRefreshLk", Read("cplRefreshLk"))

Methods ==
    {ReadTable, NearestPeer, UpdateInfo, UseFilter, GetTrackedCpls, ResetCplRefreshedAt}
        \cup AddPeer \cup RemovePeer

-----------------------------------------------------------------------------
\* Nobody has the lock for reading.
NoReaders(lock) == \A c \in Caller : readers[lock][c] = 0

At(c, do) == call[c] # <<>> /\ Head(call[c]).do = do

Advance(c) == call' = [call EXCEPT ![c] = Tail(@)]

\* The caller makes its next call.
Begin(c) ==
    /\ call[c] = <<>>
    /\ \E steps \in Methods : call' = [call EXCEPT ![c] = steps]
    /\ UNCHANGED <<readers, writer>>

\* The two steps that wait for others to release a lock.
RLock(c) ==
    /\ At(c, "RLock")
    /\ LET lock == Head(call[c]).of
       IN  /\ writer[lock] = {}
           /\ readers' = [readers EXCEPT ![lock][c] = @ + 1]
    /\ Advance(c)
    /\ UNCHANGED writer

Lock(c) ==
    /\ At(c, "Lock")
    /\ LET lock == Head(call[c]).of
       IN  /\ writer[lock] = {}
           /\ writer' = [writer EXCEPT ![lock] = {c}]
    /\ Advance(c)
    /\ UNCHANGED readers

Acquire(c) == RLock(c) \/ Lock(c)

\* The writer is announced and the last reader has left.
Enter(c) ==
    /\ At(c, "Enter")
    /\ NoReaders(Head(call[c]).of)
    /\ Advance(c)
    /\ UNCHANGED <<readers, writer>>

RUnlock(c) ==
    /\ At(c, "RUnlock")
    /\ readers' = [readers EXCEPT ![Head(call[c]).of][c] = @ - 1]
    /\ Advance(c)
    /\ UNCHANGED writer

Unlock(c) ==
    /\ At(c, "Unlock")
    /\ writer' = [writer EXCEPT ![Head(call[c]).of] = {}]
    /\ Advance(c)
    /\ UNCHANGED readers

Work(c) ==
    /\ At(c, "Read") \/ At(c, "Write")
    /\ Advance(c)
    /\ UNCHANGED <<readers, writer>>

\* PeerAdded and PeerRemoved run under tabLock: what takes tabLock, called from
\* there, waits for ever, and is excluded; the methods that do not take it may
\* be called.  The hooks of the policy, under mu, call nothing.
Callback(c) ==
    /\ At(c, "Callback")
    /\ \E nested \in IF Head(call[c]).of = "tabLock"
                     THEN {<<>>, UseFilter, ResetCplRefreshedAt} ELSE {<<>>} :
          call' = [call EXCEPT ![c] = nested \o Tail(@)]
    /\ UNCHANGED <<readers, writer>>

Continue(c) == Enter(c) \/ RUnlock(c) \/ Unlock(c) \/ Work(c) \/ Callback(c)

Next == \E c \in Caller : Begin(c) \/ Acquire(c) \/ Continue(c)

(***************************************************************************)
(* Whoever can go on does.  A lock is acquired in the end if it is         *)
(* released again and again: Go's mutexes hand themselves over to a waiter *)
(* that has waited too long, and an RWMutex lets the waiting readers in    *)
(* when its writer leaves.  Nobody has to begin a call.                    *)
(***************************************************************************)
Fairness == \A c \in Caller : WF_vars(Continue(c)) /\ SF_vars(Acquire(c))

Spec == Init /\ [][Next]_vars /\ Fairness

-----------------------------------------------------------------------------
(***************************************************************************)
(* No data race: while a caller changes the table, the refresh times or    *)
(* the filter, no other is at a step that reads or changes the same.       *)
(***************************************************************************)
NoRace ==
    \A c, d \in Caller :
        c # d /\ At(c, "Write") /\ (At(d, "Read") \/ At(d, "Write"))
            => Head(call[c]).of # Head(call[d]).of

(***************************************************************************)
(* The order of the locks: whoever waits for tabLock has no lock at all,   *)
(* and whoever waits for another has none but tabLock, also in a callback. *)
(* So no two callers can wait for each other, and no reader waits behind a *)
(* writer that waits for that same reader.                                 *)
(***************************************************************************)
LockOrder ==
    \A c \in Caller, l \in LockName :
        /\ At(c, "RLock") \/ At(c, "Lock")
        /\ readers[l][c] > 0 \/ c \in writer[l]
        => l = "tabLock" /\ Head(call[c]).of # "tabLock"

\* The caller waits for others.
Waits(c) ==
    \/ At(c, "RLock") /\ writer[Head(call[c]).of] # {}
    \/ At(c, "Lock")  /\ writer[Head(call[c]).of] # {}
    \/ At(c, "Enter") /\ ~NoReaders(Head(call[c]).of)

(***************************************************************************)
(* Not all wait: while somebody is in a call, somebody who is in a call    *)
(* can go on without any other caller, so there is no deadlock.  (The      *)
(* nesting of tabLock, mu and cplRefreshLk, also in a callback.)           *)
(***************************************************************************)
SomebodyGoesOn ==
    (\E c \in Caller : call[c] # <<>>) => \E c \in Caller : call[c] # <<>> /\ ~Waits(c)

(***************************************************************************)
(* Every call returns, whatever the other callers do, and however often:   *)
(* neither readers nor writers are shut out, nor the filter's users by     *)
(* those of the table that use the filter.                                 *)
(***************************************************************************)
EveryCallReturns == \A c \in Caller : call[c] # <<>> ~> call[c] = <<>>
=============================================================================
