----------------------------- MODULE Locks_proofs -----------------------------
(***************************************************************************)
(* Proofs about Locks, for every set of callers.                           *)
(*                                                                         *)
(* What a caller has of each lock is nowhere in the state: readers and     *)
(* writer say who has a lock, call what is still to be done.  The proof    *)
(* gives every caller its holdings h, and says of the rest of its call     *)
(* that it runs from h to no lock at all (Runs): each step of it is one    *)
(* that is allowed with what the caller has by then.                       *)
(***************************************************************************)
EXTENDS Locks, TLAPS, SequenceTheorems

Hold == {"none", "read", "announced", "write"}

Holdings == [LockName -> Hold]

Free == [l \in LockName |-> "none"]

StepType == [do : Steps, of : LockName]

\* No lock other than tabLock is held, but for l itself.
OnlyTable(h, l) == \A k \in LockName \ {l} : h[k] # "none" => k = "tabLock"

\* The holdings with which a step may be taken.
Allowed(step, h) ==
    LET l == step.of
    IN  /\ step.do \in {"RLock", "Lock"} => h[l] = "none" /\ OnlyTable(h, l)
        /\ step.do = "Enter" => h[l] = "announced" /\ OnlyTable(h, l)
        /\ step.do \in {"RUnlock"} => h[l] = "read"
        /\ step.do = "Read" => h[l] \in {"read", "write"}
        /\ step.do \in {"Unlock", "Write", "Callback"} => h[l] = "write"
        /\ step.do = "Callback" /\ l = "tabLock" => OnlyTable(h, l)

\* What is held after it.
After(step, h) ==
    IF step.do \in {"Read", "Write", "Callback"} THEN h
    ELSE [h EXCEPT ![step.of] = IF step.do = "RLock" THEN "read"
                                ELSE IF step.do = "Lock" THEN "announced"
                                ELSE IF step.do = "Enter" THEN "write"
                                ELSE "none"]

\* The steps s can be taken one after the other, from holdings h to g.
Runs(s, h, g) ==
    \E trace \in [1..(Len(s) + 1) -> Holdings] :
        /\ trace[1] = h
        /\ trace[Len(s) + 1] = g
        /\ \A i \in 1..Len(s) :
              Allowed(s[i], trace[i]) /\ trace[i + 1] = After(s[i], trace[i])

-----------------------------------------------------------------------------
LEMMA FreeType == Free \in Holdings
BY DEF Free, Holdings, Hold

LEMMA AfterType ==
    ASSUME NEW h \in Holdings, NEW step \in StepType
    PROVE  After(step, h) \in Holdings
BY DEF After, Holdings, Hold, StepType, Steps, LockName

LEMMA RunsNothing ==
    ASSUME NEW h \in Holdings, NEW g
    PROVE  Runs(<<>>, h, g) <=> h = g
<1>1. ASSUME Runs(<<>>, h, g) PROVE h = g
  BY <1>1 DEF Runs
<1>2. ASSUME h = g PROVE Runs(<<>>, h, g)
  <2> DEFINE trace == [i \in 1..1 |-> h]
  <2>1. trace \in [1..(Len(<<>>) + 1) -> Holdings]
    OBVIOUS
  <2>2. trace[1] = h /\ trace[Len(<<>>) + 1] = g /\ 1..Len(<<>>) = {}
    BY <1>2
  <2> HIDE DEF trace
  <2>3. QED
    BY <2>1, <2>2 DEF Runs
<1>3. QED
  BY <1>1, <1>2

LEMMA RunsOne ==
    ASSUME NEW h \in Holdings, NEW step \in StepType, Allowed(step, h)
    PROVE  Runs(<<step>>, h, After(step, h))
<1> DEFINE trace == [i \in 1..2 |-> IF i = 1 THEN h ELSE After(step, h)]
<1>1. After(step, h) \in Holdings
  BY AfterType
<1>2. trace \in [1..(Len(<<step>>) + 1) -> Holdings]
  BY <1>1
<1>3. /\ trace[1] = h
      /\ trace[Len(<<step>>) + 1] = After(step, h)
  OBVIOUS
<1> DEFINE one == <<step>>
<1>4. Len(one) = 1 /\ one[1] = step /\ trace[2] = After(step, h)
  OBVIOUS
<1> HIDE DEF trace, one
<1>5. \A i \in 1..Len(one) : Allowed(one[i], trace[i]) /\ trace[i + 1] = After(one[i], trace[i])
  <2> SUFFICES ASSUME NEW i \in 1..Len(one)
               PROVE  Allowed(one[i], trace[i]) /\ trace[i + 1] = After(one[i], trace[i])
    OBVIOUS
  <2>1. i = 1
    BY <1>4
  <2>2. QED
    BY <1>3, <1>4, <2>1
<1>6. QED
  BY <1>2, <1>3, <1>5 DEF Runs, one

(***************************************************************************)
(* Two runs, one after the other.                                          *)
(***************************************************************************)
LEMMA RunsConcat ==
    ASSUME NEW s \in Seq(StepType), NEW t \in Seq(StepType),
           NEW h, NEW g, NEW k, Runs(s, h, g), Runs(t, g, k)
    PROVE  s \o t \in Seq(StepType) /\ Runs(s \o t, h, k)
<1>1. PICK first \in [1..(Len(s) + 1) -> Holdings] :
         /\ first[1] = h /\ first[Len(s) + 1] = g
         /\ \A i \in 1..Len(s) :
               Allowed(s[i], first[i]) /\ first[i + 1] = After(s[i], first[i])
  BY DEF Runs
<1>2. PICK second \in [1..(Len(t) + 1) -> Holdings] :
         /\ second[1] = g /\ second[Len(t) + 1] = k
         /\ \A i \in 1..Len(t) :
               Allowed(t[i], second[i]) /\ second[i + 1] = After(t[i], second[i])
  BY DEF Runs
<1> DEFINE both == s \o t
           n == Len(s)
           m == Len(t)
           trace == [i \in 1..(n + m + 1) |-> IF i <= n THEN first[i] ELSE second[i - n]]
<1>3. n \in Nat /\ m \in Nat /\ Len(both) = n + m
  OBVIOUS
<1>4. \A i \in 1..n : both[i] = s[i]
  OBVIOUS
<1>5. \A i \in 1..m : both[n + i] = t[i]
  OBVIOUS
<1> HIDE DEF both, n, m
<1>6. trace \in [1..(Len(both) + 1) -> Holdings]
  BY <1>1, <1>2, <1>3 DEF n, m
<1>7. trace[1] = h
  BY <1>1, <1>2, <1>3 DEF n
<1>8. trace[Len(both) + 1] = k
  BY <1>2, <1>3 DEF m
<1>9. ASSUME NEW i \in 1..Len(both)
      PROVE  Allowed(both[i], trace[i]) /\ trace[i + 1] = After(both[i], trace[i])
  <2>1. CASE i < n
    BY <1>1, <1>3, <1>4, <2>1 DEF n
  <2>2. CASE i = n
    <3>1. n \in 1..n /\ n + 1 - n = 1 /\ n \in 1..(n + m + 1) /\ n + 1 \in 1..(n + m + 1)
      BY <1>3, <2>2
    <3>2. trace[i] = first[n] /\ trace[i + 1] = second[1] /\ both[i] = s[n]
      BY <1>3, <1>4, <2>2, <3>1
    <3>3. QED
      BY <1>1, <1>2, <3>1, <3>2 DEF n
  <2>3. CASE i > n
    <3>1. i - n \in 1..m /\ (i - n) + 1 = (i + 1) - n
      BY <1>3, <2>3
    <3>2. both[i] = t[i - n]
      BY <1>3, <1>5, <3>1
    <3>3. trace[i] = second[i - n] /\ trace[i + 1] = second[(i - n) + 1]
      BY <1>3, <2>3
    <3>4. QED
      BY <1>2, <3>1, <3>2, <3>3 DEF m
  <2>4. QED
    BY <1>3, <2>1, <2>2, <2>3
<1>10. Runs(both, h, k)
  BY <1>6, <1>7, <1>8, <1>9 DEF Runs
<1>11. QED
  BY <1>10 DEF both

(***************************************************************************)
(* The first step of a run, and what remains after it.                     *)
(***************************************************************************)
LEMMA RunsFirst ==
    ASSUME NEW s \in Seq(StepType), s # <<>>, NEW h, NEW g, Runs(s, h, g)
    PROVE  /\ Allowed(Head(s), h)
           /\ Runs(Tail(s), After(Head(s), h), g)
<1>1. PICK trace \in [1..(Len(s) + 1) -> Holdings] :
         /\ trace[1] = h /\ trace[Len(s) + 1] = g
         /\ \A i \in 1..Len(s) :
               Allowed(s[i], trace[i]) /\ trace[i + 1] = After(s[i], trace[i])
  BY DEF Runs
<1> DEFINE n == Len(s)
           rest == Tail(s)
           later == [i \in 1..n |-> trace[i + 1]]
<1>2. n \in Nat \ {0} /\ Len(rest) = n - 1 /\ Head(s) = s[1]
  OBVIOUS
<1>3. \A i \in 1..(n - 1) : rest[i] = s[i + 1]
  OBVIOUS
<1> HIDE DEF n, rest
<1>4. Allowed(Head(s), h) /\ trace[2] = After(Head(s), h)
  BY <1>1, <1>2 DEF n
<1>5. later \in [1..(Len(rest) + 1) -> Holdings]
  BY <1>1, <1>2 DEF n
<1>6. later[1] = After(Head(s), h) /\ later[Len(rest) + 1] = g
  BY <1>1, <1>2, <1>4 DEF n
<1>7. ASSUME NEW i \in 1..Len(rest)
      PROVE  Allowed(rest[i], later[i]) /\ later[i + 1] = After(rest[i], later[i])
  <2>1. i + 1 \in 1..Len(s) /\ rest[i] = s[i + 1]
    BY <1>2, <1>3 DEF n
  <2>2. later[i] = trace[i + 1] /\ later[i + 1] = trace[(i + 1) + 1]
    BY <1>2
  <2>3. QED
    BY <1>1, <2>1, <2>2
<1>8. Runs(rest, After(Head(s), h), g)
  BY <1>5, <1>6, <1>7 DEF Runs
<1>9. QED
  BY <1>4, <1>8 DEF rest

-----------------------------------------------------------------------------
(* The methods: each is a run from no lock to no lock.                     *)

LEMMA StepRuns ==
    ASSUME NEW do \in Steps, NEW lock \in LockName, NEW h \in Holdings,
           Allowed([do |-> do, of |-> lock], h)
    PROVE  /\ Step(do, lock) \in Seq(StepType)
           /\ Runs(Step(do, lock), h, After([do |-> do, of |-> lock], h))
<1>1. [do |-> do, of |-> lock] \in StepType
  BY DEF StepType
<1>2. QED
  BY <1>1, RunsOne DEF Step

\* A step that neither takes nor releases a lock.
LEMMA WorkRuns ==
    ASSUME NEW do \in {"Read", "Write", "Callback"}, NEW lock \in LockName,
           NEW h \in Holdings, Allowed([do |-> do, of |-> lock], h)
    PROVE  /\ Step(do, lock) \in Seq(StepType)
           /\ Runs(Step(do, lock), h, h)
<1>1. do \in Steps /\ After([do |-> do, of |-> lock], h) = h
  BY DEF Steps, After
<1>2. QED
  BY <1>1, StepRuns

LEMMA ReadLockedRuns ==
    ASSUME NEW h \in Holdings, NEW lock \in LockName, NEW body \in Seq(StepType),
           h[lock] = "none", OnlyTable(h, lock),
           Runs(body, [h EXCEPT ![lock] = "read"], [h EXCEPT ![lock] = "read"])
    PROVE  /\ ReadLocked(lock, body) \in Seq(StepType)
           /\ Runs(ReadLocked(lock, body), h, h)
<1> DEFINE r == [h EXCEPT ![lock] = "read"]
<1>1. r \in Holdings /\ r[lock] = "read"
  BY DEF Holdings, Hold
<1>2. After([do |-> "RLock", of |-> lock], h) = r
  BY DEF After
<1>3. After([do |-> "RUnlock", of |-> lock], r) = h
  BY DEF After, Holdings
<1>4. Allowed([do |-> "RLock", of |-> lock], h)
  BY DEF Allowed
<1>5. Allowed([do |-> "RUnlock", of |-> lock], r)
  BY <1>1 DEF Allowed
<1> DEFINE a == Step("RLock", lock)
           b == Step("RUnlock", lock)
<1>6. a \in Seq(StepType) /\ Runs(a, h, r)
  BY <1>2, <1>4, StepRuns DEF Steps
<1>7. b \in Seq(StepType) /\ Runs(b, r, h)
  BY <1>1, <1>3, <1>5, StepRuns DEF Steps
<1> HIDE DEF a, b, r
<1>8. Runs(body, r, r)
  BY DEF r
<1> DEFINE c == a \o body
<1>9. c \in Seq(StepType) /\ Runs(c, h, r)
  BY <1>6, <1>8, RunsConcat
<1> HIDE DEF c
<1>10. c \o b \in Seq(StepType) /\ Runs(c \o b, h, h)
  BY <1>7, <1>9, RunsConcat
<1>11. QED
  BY <1>10 DEF a, b, c, ReadLocked

LEMMA LockedRuns ==
    ASSUME NEW h \in Holdings, NEW lock \in LockName, NEW body \in Seq(StepType),
           h[lock] = "none", OnlyTable(h, lock),
           Runs(body, [h EXCEPT ![lock] = "write"], [h EXCEPT ![lock] = "write"])
    PROVE  /\ Locked(lock, body) \in Seq(StepType)
           /\ Runs(Locked(lock, body), h, h)
<1> DEFINE n == [h EXCEPT ![lock] = "announced"]
           w == [h EXCEPT ![lock] = "write"]
<1>1. n \in Holdings /\ n[lock] = "announced" /\ w \in Holdings /\ w[lock] = "write"
  BY DEF Holdings, Hold
<1>2. After([do |-> "Lock", of |-> lock], h) = n
  BY DEF After
<1>3. After([do |-> "Enter", of |-> lock], n) = w
  BY DEF After, Holdings
<1>4. After([do |-> "Unlock", of |-> lock], w) = h
  BY DEF After, Holdings
<1>5. Allowed([do |-> "Lock", of |-> lock], h)
  BY DEF Allowed
<1>6. Allowed([do |-> "Enter", of |-> lock], n)
  BY <1>1 DEF Allowed, OnlyTable, Holdings
<1>7. Allowed([do |-> "Unlock", of |-> lock], w)
  BY <1>1 DEF Allowed
<1> DEFINE a == Step("Lock", lock)
           b == Step("Enter", lock)
           z == Step("Unlock", lock)
<1>8. a \in Seq(StepType) /\ Runs(a, h, n)
  BY <1>2, <1>5, StepRuns DEF Steps
<1>9. b \in Seq(StepType) /\ Runs(b, n, w)
  BY <1>1, <1>3, <1>6, StepRuns DEF Steps
<1>10. z \in Seq(StepType) /\ Runs(z, w, h)
  BY <1>1, <1>4, <1>7, StepRuns DEF Steps
<1> HIDE DEF a, b, z, n, w
<1>11. Runs(body, w, w)
  BY DEF w
<1> DEFINE c == a \o b
<1>12. c \in Seq(StepType) /\ Runs(c, h, w)
  BY <1>8, <1>9, RunsConcat
<1> HIDE DEF c
<1> DEFINE d == c \o body
<1>13. d \in Seq(StepType) /\ Runs(d, h, w)
  BY <1>11, <1>12, RunsConcat
<1> HIDE DEF d
<1>14. d \o z \in Seq(StepType) /\ Runs(d \o z, h, h)
  BY <1>10, <1>13, RunsConcat
<1>15. QED
  BY <1>14 DEF a, b, c, d, z, Locked

\* A call, or a part of one, that leaves the caller with what it had.
Closed(s, h) == s \in Seq(StepType) /\ Runs(s, h, h)

LEMMA ClosedConcat ==
    ASSUME NEW s, NEW t, NEW h, Closed(s, h), Closed(t, h)
    PROVE  Closed(s \o t, h)
BY RunsConcat DEF Closed

LEMMA ClosedNothing ==
    ASSUME NEW h \in Holdings
    PROVE  Closed(<<>>, h)
BY RunsNothing DEF Closed

\* The calls that may be made under tabLock.
LEMMA FilterCallsRun ==
    ASSUME NEW h \in Holdings, h["mu"] = "none", OnlyTable(h, "mu")
    PROVE  Closed(UseFilter, h) /\ Closed(Filter_Call, h)
<1> DEFINE w == [h EXCEPT !["mu"] = "write"]
<1>1. w \in Holdings /\ w["mu"] = "write" /\ "mu" \in LockName
  BY DEF Holdings, Hold, LockName
<1>2. Allowed([do |-> "Write", of |-> "mu"], w) /\ Allowed([do |-> "Callback", of |-> "mu"], w)
  BY <1>1 DEF Allowed
<1> HIDE DEF w
<1>3. Closed(Write("mu"), w) /\ Closed(Step("Callback", "mu"), w)
  BY <1>1, <1>2, WorkRuns DEF Closed, Write
<1>4. Closed(Write("mu") \o Step("Callback", "mu"), w)
  BY <1>3, ClosedConcat
<1>5. Closed(Locked("mu", Write("mu")), h)
  BY <1>1, <1>3, LockedRuns DEF Closed, w
<1>6. Closed(Locked("mu", Write("mu") \o Step("Callback", "mu")), h)
  BY <1>1, <1>4, LockedRuns DEF Closed, w
<1>7. QED
  BY <1>5, <1>6 DEF UseFilter, Filter_Call

LEMMA ResetRuns ==
    ASSUME NEW h \in Holdings, h["cplRefreshLk"] = "none", OnlyTable(h, "cplRefreshLk")
    PROVE  Closed(ResetCplRefreshedAt, h)
<1> DEFINE w == [h EXCEPT !["cplRefreshLk"] = "write"]
<1>1. w \in Holdings /\ w["cplRefreshLk"] = "write" /\ "cplRefreshLk" \in LockName
  BY DEF Holdings, Hold, LockName
<1>2. Allowed([do |-> "Write", of |-> "cplRefreshLk"], w)
  BY <1>1 DEF Allowed
<1> HIDE DEF w
<1>3. Closed(Write("cplRefreshLk"), w)
  BY <1>1, <1>2, WorkRuns DEF Closed, Write
<1>4. QED
  BY <1>1, <1>3, LockedRuns DEF Closed, w, ResetCplRefreshedAt

\* What a caller has inside of tabLock.
TableHeld == [Free EXCEPT !["tabLock"] = "write"]

LEMMA FreeFacts ==
    /\ Free \in Holdings
    /\ \A l \in LockName : Free[l] = "none" /\ OnlyTable(Free, l)
    /\ TableHeld \in Holdings
    /\ TableHeld["tabLock"] = "write"
    /\ OnlyTable(TableHeld, "tabLock")
    /\ \A l \in {"mu", "cplRefreshLk"} : TableHeld[l] = "none" /\ OnlyTable(TableHeld, l)
BY DEF Free, TableHeld, Holdings, Hold, OnlyTable, LockName

LEMMA ReadMethodsRun ==
    ASSUME NEW lock \in LockName
    PROVE  Closed(ReadLocked(lock, Read(lock)), Free)
<1> DEFINE r == [Free EXCEPT ![lock] = "read"]
<1>1. r \in Holdings /\ r[lock] = "read"
  BY DEF Holdings, Hold, Free
<1>2. Allowed([do |-> "Read", of |-> lock], r)
  BY <1>1 DEF Allowed
<1> HIDE DEF r
<1>3. Closed(Read(lock), r)
  BY <1>1, <1>2, WorkRuns DEF Closed, Read
<1>4. QED
  BY <1>3, FreeFacts, ReadLockedRuns DEF Closed, r

LEMMA TableLockedRuns ==
    ASSUME NEW body, Closed(body, TableHeld)
    PROVE  Closed(Locked("tabLock", body), Free)
BY FreeFacts, LockedRuns DEF Closed, TableHeld, LockName

LEMMA TableStepsRun ==
    /\ Closed(Read("tabLock"), TableHeld)
    /\ Closed(Write("tabLock"), TableHeld)
    /\ Closed(Step("Callback", "tabLock"), TableHeld)
    /\ Closed(Filter_Call, TableHeld)
    /\ Closed(<<>>, TableHeld)
<1>1. \A do \in {"Read", "Write", "Callback"} : Allowed([do |-> do, of |-> "tabLock"], TableHeld)
  BY FreeFacts DEF Allowed
<1>2. \A do \in {"Read", "Write", "Callback"} : Closed(Step(do, "tabLock"), TableHeld)
  BY <1>1, FreeFacts, WorkRuns DEF Closed, LockName
<1>3. Closed(Filter_Call, TableHeld) /\ Closed(<<>>, TableHeld)
  BY FreeFacts, FilterCallsRun, ClosedNothing
<1>4. QED
  BY <1>2, <1>3 DEF Read, Write

LEMMA GoneRuns == Closed(Gone, TableHeld)
<1>1. Closed(Write("tabLock") \o Filter_Call, TableHeld)
  BY TableStepsRun, ClosedConcat
<1>2. Closed(Write("tabLock") \o Filter_Call \o Write("tabLock"), TableHeld)
  BY <1>1, TableStepsRun, ClosedConcat
<1>3. QED
  BY <1>2, TableStepsRun, ClosedConcat DEF Gone

LEMMA AddPeerRuns ==
    ASSUME NEW s \in AddPeer
    PROVE  Closed(s, Free)
<1> DEFINE added == Write("tabLock") \o Step("Callback", "tabLock")
<1>1. Closed(added, TableHeld)
  BY TableStepsRun, ClosedConcat
<1>2. Closed(Filter_Call \o Write("tabLock"), TableHeld)
  BY TableStepsRun, ClosedConcat
<1>3. Closed(Filter_Call \o Write("tabLock") \o Filter_Call, TableHeld)
  BY <1>2, TableStepsRun, ClosedConcat
<1>4. Closed(Filter_Call \o added, TableHeld)
  BY <1>1, TableStepsRun, ClosedConcat
<1>5. Closed(Filter_Call \o added \o Gone, TableHeld)
  BY <1>4, GoneRuns, ClosedConcat
<1>6. PICK rest \in {<<>>, Write("tabLock"), Filter_Call, Filter_Call \o added,
                     Filter_Call \o added \o Gone,
                     Filter_Call \o Write("tabLock") \o Filter_Call} :
         s = Locked("tabLock", Read("tabLock") \o rest)
  BY DEF AddPeer
<1>7. Closed(rest, TableHeld)
  BY <1>3, <1>4, <1>5, <1>6, TableStepsRun
<1>8. Closed(Read("tabLock") \o rest, TableHeld)
  BY <1>7, TableStepsRun, ClosedConcat
<1>9. QED
  BY <1>6, <1>8, TableLockedRuns

LEMMA RemovePeerRuns ==
    ASSUME NEW s \in RemovePeer
    PROVE  Closed(s, Free)
<1>1. PICK rest \in {<<>>, Gone} : s = Locked("tabLock", Read("tabLock") \o rest)
  BY DEF RemovePeer
<1>2. Closed(Read("tabLock") \o rest, TableHeld)
  BY <1>1, GoneRuns, TableStepsRun, ClosedConcat
<1>3. QED
  BY <1>1, <1>2, TableLockedRuns

LEMMA MethodsRun ==
    ASSUME NEW s \in Methods
    PROVE  Closed(s, Free)
<1>1. Closed(ReadTable, Free)
  BY ReadMethodsRun DEF ReadTable, LockName
<1>2. Closed(NearestPeer, Free)
  BY <1>1, ClosedConcat DEF NearestPeer
<1>3. Closed(UpdateInfo, Free)
  BY TableStepsRun, TableLockedRuns DEF UpdateInfo
<1>4. Closed(UseFilter, Free)
  BY FreeFacts, FilterCallsRun DEF LockName
<1>5. Closed(ResetCplRefreshedAt, Free)
  BY FreeFacts, ResetRuns DEF LockName
<1>6. Closed(GetTrackedCpls, Free)
  BY <1>1, ReadMethodsRun, ClosedConcat DEF GetTrackedCpls, LockName
<1>7. QED
  BY <1>1, <1>2, <1>3, <1>4, <1>5, <1>6, AddPeerRuns, RemovePeerRuns DEF Methods

-----------------------------------------------------------------------------
(***************************************************************************)
(* The invariant.  The holdings explain the state: the rest of each call   *)
(* runs from them, readers and writer record them, and two callers hold    *)
(* what an RWMutex lets them.                                              *)
(***************************************************************************)
Writing == {"announced", "write"}

Explains(held) ==
    /\ \A c \in Caller : Runs(call[c], held[c], Free)
    /\ \A l \in LockName, c \in Caller :
          readers[l][c] = IF held[c][l] = "read" THEN 1 ELSE 0
    /\ \A l \in LockName : writer[l] = {c \in Caller : held[c][l] \in Writing}
    /\ \A l \in LockName : \A c, d \in Caller :
          /\ held[c][l] \in Writing /\ held[d][l] \in Writing => c = d
          /\ held[c][l] = "write" => held[d][l] # "read"

LockType ==
    /\ call \in [Caller -> Seq(StepType)]
    /\ readers \in [LockName -> [Caller -> 0..1]]
    /\ writer \in [LockName -> SUBSET Caller]

LockIInv == LockType /\ \E held \in [Caller -> Holdings] : Explains(held)

LEMMA LockInitial == Init => LockIInv
<1> SUFFICES ASSUME Init PROVE LockIInv
  OBVIOUS
<1> DEFINE held == [c \in Caller |-> Free]
<1>1. held \in [Caller -> Holdings]
  BY FreeType
<1>2. LockType
  BY DEF Init, LockType
<1>3. \A c \in Caller : Runs(call[c], held[c], Free)
  BY FreeType, RunsNothing DEF Init
<1>4. \A l \in LockName, c \in Caller : held[c][l] = "none"
  BY DEF Free
<1>5. Explains(held)
  <2> HIDE DEF held
  <2>1. \A l \in LockName, c \in Caller :
          readers[l][c] = IF held[c][l] = "read" THEN 1 ELSE 0
    BY <1>4 DEF Init
  <2>2. \A l \in LockName : writer[l] = {c \in Caller : held[c][l] \in Writing}
    BY <1>4 DEF Init, Writing
  <2>3. \A l \in LockName : \A c, d \in Caller :
          /\ held[c][l] \in Writing /\ held[d][l] \in Writing => c = d
          /\ held[c][l] = "write" => held[d][l] # "read"
    BY <1>4 DEF Writing
  <2>4. QED
    BY <1>3, <2>1, <2>2, <2>3 DEF Explains
<1>6. QED
  BY <1>1, <1>2, <1>5 DEF LockIInv

(***************************************************************************)
(* A step of caller c: s remains to be done, lock l is what it touches,    *)
(* and it has h afterwards, which readers and writer record as r and w.    *)
(***************************************************************************)
Takes(held, c, s, l, h, r, w) ==
    /\ s \in Seq(StepType) /\ l \in LockName /\ h \in Holdings
    /\ Runs(s, h, Free)
    /\ \A k \in LockName \ {l} : h[k] = held[c][k]
    /\ r \in 0..1 /\ r = (IF h[l] = "read" THEN 1 ELSE 0)
    /\ w \in SUBSET Caller /\ w = (IF h[l] \in Writing THEN {c} ELSE writer[l] \ {c})
    /\ \A d \in Caller \ {c} :
          /\ h[l] \in Writing => held[d][l] \notin Writing
          /\ h[l] = "write" => held[d][l] # "read"
          /\ h[l] = "read" => held[d][l] # "write"
    /\ call' = [call EXCEPT ![c] = s]
    /\ readers' = [readers EXCEPT ![l][c] = r]
    /\ writer' = [writer EXCEPT ![l] = w]

LEMMA StepKeepsInvariant ==
    ASSUME LockType, NEW held \in [Caller -> Holdings], Explains(held),
           NEW c \in Caller, NEW s, NEW l, NEW h, NEW r, NEW w,
           Takes(held, c, s, l, h, r, w)
    PROVE  LockIInv'
<1> USE DEF Takes
<1> DEFINE new == [held EXCEPT ![c] = h]
<1>1. new \in [Caller -> Holdings]
  OBVIOUS
<1>2. new[c] = h /\ \A d \in Caller \ {c} : new[d] = held[d]
  OBVIOUS
<1>3. \A d \in Caller : d # c => call'[d] = call[d]
  BY DEF LockType
<1>4. call'[c] = s
  BY DEF LockType
<1>5. \A k \in LockName, d \in Caller :
        readers'[k][d] = IF k = l /\ d = c THEN (IF h[l] = "read" THEN 1 ELSE 0)
                                           ELSE readers[k][d]
  BY DEF LockType
<1>6. writer'[l] = (IF h[l] \in Writing THEN {c} ELSE writer[l] \ {c})
      /\ \A k \in LockName \ {l} : writer'[k] = writer[k]
  BY DEF LockType
<1>7. LockType'
  <2>1. call' \in [Caller -> Seq(StepType)]
    BY DEF LockType
  <2>2. readers' \in [LockName -> [Caller -> 0..1]]
    BY DEF LockType
  <2>3. writer' \in [LockName -> SUBSET Caller]
    BY DEF LockType
  <2>4. QED
    BY <2>1, <2>2, <2>3 DEF LockType
<1> HIDE DEF new
<1>8. \A d \in Caller : Runs(call'[d], new[d], Free)
  BY <1>2, <1>3, <1>4 DEF Explains
<1>9. \A k \in LockName, d \in Caller :
         readers'[k][d] = IF new[d][k] = "read" THEN 1 ELSE 0
  <2> SUFFICES ASSUME NEW k \in LockName, NEW d \in Caller
               PROVE  readers'[k][d] = IF new[d][k] = "read" THEN 1 ELSE 0
    OBVIOUS
  <2>1. CASE d # c
    BY <1>2, <1>5, <2>1 DEF Explains
  <2>2. CASE d = c /\ k = l
    BY <1>2, <1>5, <2>2
  <2>3. CASE d = c /\ k # l
    <3>1. new[d][k] = held[d][k]
      BY <1>2, <2>3
    <3>2. QED
      BY <1>5, <2>3, <3>1 DEF Explains
  <2>4. QED
    BY <2>1, <2>2, <2>3
<1>10. \A k \in LockName : writer'[k] = {d \in Caller : new[d][k] \in Writing}
  <2> SUFFICES ASSUME NEW k \in LockName
               PROVE  writer'[k] = {d \in Caller : new[d][k] \in Writing}
    OBVIOUS
  <2>1. writer[k] = {d \in Caller : held[d][k] \in Writing}
    BY DEF Explains
  <2>2. CASE k # l
    <3>1. \A d \in Caller : new[d][k] = held[d][k]
      BY <1>2, <2>2
    <3>2. QED
      BY <1>6, <2>1, <2>2, <3>1
  <2>3. CASE k = l /\ h[l] \in Writing
    BY <1>2, <1>6, <2>3
  <2>4. CASE k = l /\ h[l] \notin Writing
    BY <1>2, <1>6, <2>1, <2>4
  <2>5. QED
    BY <2>2, <2>3, <2>4
<1>11. ASSUME NEW k \in LockName, NEW d \in Caller, NEW e \in Caller
       PROVE  /\ new[d][k] \in Writing /\ new[e][k] \in Writing => d = e
              /\ new[d][k] = "write" => new[e][k] # "read"
  <2>1. /\ held[d][k] \in Writing /\ held[e][k] \in Writing => d = e
        /\ held[d][k] = "write" => held[e][k] # "read"
    BY DEF Explains
  <2>2. CASE k # l
    <3>1. new[d][k] = held[d][k] /\ new[e][k] = held[e][k]
      BY <1>2, <2>2
    <3>2. QED
      BY <2>1, <3>1
  <2>3. CASE k = l
    BY <1>2, <2>1, <2>3 DEF Writing
  <2>4. QED
    BY <2>2, <2>3
<1>12. Explains(new)'
  BY <1>8, <1>9, <1>10, <1>11 DEF Explains
<1>13. QED
  BY <1>1, <1>7, <1>12 DEF LockIInv

\* What is known of a caller that is about to take its next step.
LEMMA NextStep ==
    ASSUME LockType, NEW held \in [Caller -> Holdings], Explains(held),
           NEW c \in Caller, call[c] # <<>>
    PROVE  /\ Head(call[c]) \in StepType
           /\ Head(call[c]).of \in LockName
           /\ Tail(call[c]) \in Seq(StepType)
           /\ Allowed(Head(call[c]), held[c])
           /\ After(Head(call[c]), held[c]) \in Holdings
           /\ Runs(Tail(call[c]), After(Head(call[c]), held[c]), Free)
<1>1. call[c] \in Seq(StepType) /\ held[c] \in Holdings /\ Runs(call[c], held[c], Free)
  BY DEF LockType, Explains
<1>2. Head(call[c]) \in StepType /\ Tail(call[c]) \in Seq(StepType)
  BY <1>1
<1>3. Head(call[c]).of \in LockName
  BY <1>2 DEF StepType
<1>4. QED
  BY <1>1, <1>2, <1>3, RunsFirst, AfterType

\* A caller with nothing to do has nothing.
LEMMA IdleHoldsNothing ==
    ASSUME NEW held \in [Caller -> Holdings], Explains(held), NEW c \in Caller, call[c] = <<>>
    PROVE  held[c] = Free
BY RunsNothing DEF Explains

\* Each step of a caller keeps the invariant.
LEMMA BeginKeeps ==
    ASSUME LockType, NEW held \in [Caller -> Holdings], Explains(held),
           NEW c \in Caller, Begin(c)
    PROVE  LockIInv'
<1>1. held[c] = Free
  BY IdleHoldsNothing DEF Begin
<1>2. PICK s \in Methods : call' = [call EXCEPT ![c] = s]
  BY DEF Begin
<1>3. s \in Seq(StepType) /\ Runs(s, Free, Free)
  BY MethodsRun DEF Closed
<1> DEFINE l == "mu"
<1>4. l \in LockName /\ Free[l] = "none" /\ Free \in Holdings
  BY FreeFacts DEF LockName
<1>5. readers[l][c] = 0 /\ c \notin writer[l]
  BY <1>1, <1>4 DEF Explains, Writing
<1>6. readers' = [readers EXCEPT ![l][c] = 0]
  BY <1>4, <1>5 DEF Begin, LockType
<1> DEFINE w == writer[l] \ {c}
<1>7. w \in SUBSET Caller /\ writer' = [writer EXCEPT ![l] = w]
  BY <1>4, <1>5 DEF Begin, LockType
<1> HIDE DEF w, l
<1>9. w = (IF Free[l] \in Writing THEN {c} ELSE writer[l] \ {c})
  BY <1>4 DEF w, Writing
<1>20. Takes(held, c, s, l, Free, 0, w)
  BY <1>1, <1>2, <1>3, <1>4, <1>6, <1>7, <1>9 DEF Writing, Takes
<1>21. QED
  BY <1>20, StepKeepsInvariant

LEMMA RLockKeeps ==
    ASSUME LockType, NEW held \in [Caller -> Holdings], Explains(held),
           NEW c \in Caller, RLock(c)
    PROVE  LockIInv'
<1> DEFINE step == Head(call[c])
           l == step.of
           h == After(step, held[c])
<1>1. call[c] # <<>> /\ step.do = "RLock"
  BY DEF RLock, At
<1>2. /\ l \in LockName /\ Tail(call[c]) \in Seq(StepType) /\ Allowed(step, held[c])
      /\ h \in Holdings /\ Runs(Tail(call[c]), h, Free)
  BY <1>1, NextStep
<1>3. held[c][l] = "none" /\ writer[l] = {}
  BY <1>1, <1>2 DEF Allowed, RLock
<1>4. h[l] = "read" /\ \A k \in LockName \ {l} : h[k] = held[c][k]
  BY <1>1, <1>2 DEF After, Holdings
<1>5. call' = [call EXCEPT ![c] = Tail(call[c])]
  BY DEF RLock, Advance, LockType
<1>6. readers[l][c] = 0
  BY <1>2, <1>3 DEF Explains
<1>7. readers' = [readers EXCEPT ![l][c] = 1]
  BY <1>2, <1>6 DEF RLock, LockType
<1> DEFINE w == writer[l] \ {c}
<1>8. w \in SUBSET Caller /\ writer' = [writer EXCEPT ![l] = w]
  BY <1>2, <1>3 DEF RLock, LockType
<1>11. w = (IF h[l] \in Writing THEN {c} ELSE writer[l] \ {c})
  BY <1>4 DEF Writing
<1>9. \A d \in Caller : held[d][l] \notin Writing
  BY <1>2, <1>3 DEF Explains
<1> HIDE DEF step, l, h, w
<1>20. Takes(held, c, Tail(call[c]), l, h, 1, w)
  BY <1>2, <1>4, <1>5, <1>7, <1>8, <1>9, <1>11 DEF Writing, Takes
<1>21. QED
  BY <1>20, StepKeepsInvariant

LEMMA LockKeeps ==
    ASSUME LockType, NEW held \in [Caller -> Holdings], Explains(held),
           NEW c \in Caller, Lock(c)
    PROVE  LockIInv'
<1> DEFINE step == Head(call[c])
           l == step.of
           h == After(step, held[c])
<1>1. call[c] # <<>> /\ step.do = "Lock"
  BY DEF Lock, At
<1>2. /\ l \in LockName /\ Tail(call[c]) \in Seq(StepType) /\ Allowed(step, held[c])
      /\ h \in Holdings /\ Runs(Tail(call[c]), h, Free)
  BY <1>1, NextStep
<1>3. held[c][l] = "none" /\ writer[l] = {}
  BY <1>1, <1>2 DEF Allowed, Lock
<1>4. h[l] = "announced" /\ \A k \in LockName \ {l} : h[k] = held[c][k]
  BY <1>1, <1>2 DEF After, Holdings
<1>5. call' = [call EXCEPT ![c] = Tail(call[c])]
  BY DEF Lock, Advance, LockType
<1>6. readers[l][c] = 0
  BY <1>2, <1>3 DEF Explains
<1>7. readers' = [readers EXCEPT ![l][c] = 0]
  BY <1>2, <1>6 DEF Lock, LockType
<1>8. writer' = [writer EXCEPT ![l] = {c}]
  BY <1>2 DEF Lock
<1>9. \A d \in Caller : held[d][l] \notin Writing
  BY <1>2, <1>3 DEF Explains
<1> HIDE DEF step, l, h
<1>20. Takes(held, c, Tail(call[c]), l, h, 0, {c})
  BY <1>2, <1>4, <1>5, <1>7, <1>8, <1>9 DEF Writing, Takes
<1>21. QED
  BY <1>20, StepKeepsInvariant

LEMMA EnterKeeps ==
    ASSUME LockType, NEW held \in [Caller -> Holdings], Explains(held),
           NEW c \in Caller, Enter(c)
    PROVE  LockIInv'
<1> DEFINE step == Head(call[c])
           l == step.of
           h == After(step, held[c])
<1>1. call[c] # <<>> /\ step.do = "Enter"
  BY DEF Enter, At
<1>2. /\ l \in LockName /\ Tail(call[c]) \in Seq(StepType) /\ Allowed(step, held[c])
      /\ h \in Holdings /\ Runs(Tail(call[c]), h, Free)
  BY <1>1, NextStep
<1>3. held[c][l] = "announced" /\ \A d \in Caller : readers[l][d] = 0
  BY <1>1, <1>2 DEF Allowed, Enter, NoReaders
<1>4. h[l] = "write" /\ \A k \in LockName \ {l} : h[k] = held[c][k]
  BY <1>1, <1>2 DEF After, Holdings
<1>5. call' = [call EXCEPT ![c] = Tail(call[c])]
  BY DEF Enter, Advance, LockType
<1>6. readers' = [readers EXCEPT ![l][c] = 0]
  BY <1>2, <1>3 DEF Enter, LockType
<1>7. \A d \in Caller \ {c} : held[d][l] \notin Writing
  BY <1>2, <1>3 DEF Explains, Writing
<1>8. \A d \in Caller : held[d][l] # "read"
  <2> SUFFICES ASSUME NEW d \in Caller, held[d][l] = "read" PROVE FALSE
    OBVIOUS
  <2>1. readers[l][d] = 1
    BY <1>2 DEF Explains
  <2>2. QED
    BY <1>3, <2>1
<1>9. writer[l] = {c}
  BY <1>2, <1>3, <1>7 DEF Explains, Writing
<1>10. writer' = [writer EXCEPT ![l] = {c}]
  BY <1>2, <1>9 DEF Enter, LockType
<1> HIDE DEF step, l, h
<1>11. Takes(held, c, Tail(call[c]), l, h, 0, {c})
  BY <1>2, <1>4, <1>5, <1>6, <1>7, <1>8, <1>10 DEF Writing, Takes
<1>12. QED
  BY <1>11, StepKeepsInvariant

LEMMA RUnlockKeeps ==
    ASSUME LockType, NEW held \in [Caller -> Holdings], Explains(held),
           NEW c \in Caller, RUnlock(c)
    PROVE  LockIInv'
<1> DEFINE step == Head(call[c])
           l == step.of
           h == After(step, held[c])
<1>1. call[c] # <<>> /\ step.do = "RUnlock"
  BY DEF RUnlock, At
<1>2. /\ l \in LockName /\ Tail(call[c]) \in Seq(StepType) /\ Allowed(step, held[c])
      /\ h \in Holdings /\ Runs(Tail(call[c]), h, Free)
  BY <1>1, NextStep
<1>3. held[c][l] = "read"
  BY <1>1, <1>2 DEF Allowed
<1>4. h[l] = "none" /\ \A k \in LockName \ {l} : h[k] = held[c][k]
  BY <1>1, <1>2 DEF After, Holdings
<1>5. call' = [call EXCEPT ![c] = Tail(call[c])]
  BY DEF RUnlock, Advance, LockType
<1>6. readers[l][c] = 1 /\ c \notin writer[l]
  BY <1>2, <1>3 DEF Explains, Writing
<1>7. readers' = [readers EXCEPT ![l][c] = 0]
  BY <1>2, <1>6 DEF RUnlock, LockType
<1> DEFINE w == writer[l] \ {c}
<1>8. w \in SUBSET Caller /\ writer' = [writer EXCEPT ![l] = w]
  BY <1>2, <1>6 DEF RUnlock, LockType
<1>11. w = (IF h[l] \in Writing THEN {c} ELSE writer[l] \ {c})
  BY <1>4 DEF Writing
<1> HIDE DEF step, l, h, w
<1>20. Takes(held, c, Tail(call[c]), l, h, 0, w)
  BY <1>2, <1>4, <1>5, <1>7, <1>8, <1>11 DEF Writing, Takes
<1>21. QED
  BY <1>20, StepKeepsInvariant

LEMMA UnlockKeeps ==
    ASSUME LockType, NEW held \in [Caller -> Holdings], Explains(held),
           NEW c \in Caller, Unlock(c)
    PROVE  LockIInv'
<1> DEFINE step == Head(call[c])
           l == step.of
           h == After(step, held[c])
<1>1. call[c] # <<>> /\ step.do = "Unlock"
  BY DEF Unlock, At
<1>2. /\ l \in LockName /\ Tail(call[c]) \in Seq(StepType) /\ Allowed(step, held[c])
      /\ h \in Holdings /\ Runs(Tail(call[c]), h, Free)
  BY <1>1, NextStep
<1>3. held[c][l] = "write"
  BY <1>1, <1>2 DEF Allowed
<1>4. h[l] = "none" /\ \A k \in LockName \ {l} : h[k] = held[c][k]
  BY <1>1, <1>2 DEF After, Holdings
<1>5. call' = [call EXCEPT ![c] = Tail(call[c])]
  BY DEF Unlock, Advance, LockType
<1>6. readers[l][c] = 0
  BY <1>2, <1>3 DEF Explains
<1>7. readers' = [readers EXCEPT ![l][c] = 0]
  BY <1>2, <1>6 DEF Unlock, LockType
<1>8. writer[l] \ {c} = {}
  BY <1>2, <1>3 DEF Explains, Writing
<1>9. writer' = [writer EXCEPT ![l] = {}]
  BY <1>2 DEF Unlock
<1> HIDE DEF step, l, h
<1>11. {} = (IF h[l] \in Writing THEN {c} ELSE writer[l] \ {c})
  BY <1>4, <1>8 DEF Writing
<1>20. Takes(held, c, Tail(call[c]), l, h, 0, {})
  BY <1>2, <1>4, <1>5, <1>7, <1>9, <1>11 DEF Writing, Takes
<1>21. QED
  BY <1>20, StepKeepsInvariant

\* Work and Callback change nobody's holdings.
LEMMA SameHoldings ==
    ASSUME LockType, NEW held \in [Caller -> Holdings], Explains(held),
           NEW c \in Caller, NEW s \in Seq(StepType), Runs(s, held[c], Free),
           call' = [call EXCEPT ![c] = s], UNCHANGED <<readers, writer>>
    PROVE  LockIInv'
<1> DEFINE l == "mu"
           h == held[c]
<1>1. l \in LockName /\ h \in Holdings
  BY DEF LockName
<1> DEFINE r == readers[l][c]
           w == writer[l]
<1>2. r \in 0..1 /\ r = (IF h[l] = "read" THEN 1 ELSE 0)
  BY <1>1 DEF LockType, Explains
<1>3. readers' = [readers EXCEPT ![l][c] = r]
  BY <1>1 DEF LockType
<1>4. w \in SUBSET Caller /\ writer' = [writer EXCEPT ![l] = w]
  BY <1>1 DEF LockType
<1>5. w = (IF h[l] \in Writing THEN {c} ELSE writer[l] \ {c})
  <2>1. w = {d \in Caller : held[d][l] \in Writing}
    BY <1>1 DEF Explains
  <2>2. CASE h[l] \in Writing
    <3>1. \A d \in Caller : held[d][l] \in Writing => d = c
      BY <1>1, <2>2 DEF Explains
    <3>2. QED
      BY <2>1, <2>2, <3>1
  <2>3. CASE h[l] \notin Writing
    BY <2>1, <2>3
  <2>4. QED
    BY <2>2, <2>3
<1>6. \A d \in Caller \ {c} :
         /\ h[l] \in Writing => held[d][l] \notin Writing
         /\ h[l] = "write" => held[d][l] # "read"
         /\ h[l] = "read" => held[d][l] # "write"
  BY <1>1 DEF Explains
<1>7. \A k \in LockName \ {l} : h[k] = held[c][k]
  OBVIOUS
<1>8. Runs(s, h, Free)
  OBVIOUS
<1> HIDE DEF l, r, w, h
<1>9. Takes(held, c, s, l, h, r, w)
  BY <1>1, <1>2, <1>3, <1>4, <1>5, <1>6, <1>7, <1>8 DEF Takes
<1>10. QED
  BY <1>9, StepKeepsInvariant

LEMMA WorkKeeps ==
    ASSUME LockType, NEW held \in [Caller -> Holdings], Explains(held),
           NEW c \in Caller, Work(c)
    PROVE  LockIInv'
<1>1. call[c] # <<>> /\ Head(call[c]).do \in {"Read", "Write"}
  BY DEF Work, At
<1>2. After(Head(call[c]), held[c]) = held[c]
  BY <1>1 DEF After
<1>3. Tail(call[c]) \in Seq(StepType) /\ Runs(Tail(call[c]), held[c], Free)
  BY <1>1, <1>2, NextStep
<1>4. call' = [call EXCEPT ![c] = Tail(call[c])] /\ UNCHANGED <<readers, writer>>
  BY DEF Work, Advance, LockType
<1>5. QED
  BY <1>3, <1>4, SameHoldings

LEMMA CallbackKeeps ==
    ASSUME LockType, NEW held \in [Caller -> Holdings], Explains(held),
           NEW c \in Caller, Callback(c)
    PROVE  LockIInv'
<1> DEFINE h == held[c]
           step == Head(call[c])
<1>1. call[c] # <<>> /\ step.do = "Callback"
  BY DEF Callback, At
<1>2. After(step, h) = h
  BY <1>1 DEF After
<1>3. Tail(call[c]) \in Seq(StepType) /\ Runs(Tail(call[c]), h, Free) /\ Allowed(step, h)
  BY <1>1, <1>2, NextStep
<1>4. PICK nested \in IF step.of = "tabLock"
                      THEN {<<>>, UseFilter, ResetCplRefreshedAt} ELSE {<<>>} :
         call' = [call EXCEPT ![c] = nested \o Tail(call[c])]
  BY DEF Callback, LockType
<1>5. h \in Holdings
  OBVIOUS
<1>6. Closed(nested, h)
  <2>1. CASE nested = <<>>
    BY <1>5, <2>1, ClosedNothing
  <2>2. CASE step.of = "tabLock" /\ nested \in {UseFilter, ResetCplRefreshedAt}
    <3>1. h["tabLock"] = "write" /\ OnlyTable(h, "tabLock")
      BY <1>1, <1>3, <2>2 DEF Allowed
    <3>2. \A l \in {"mu", "cplRefreshLk"} : h[l] = "none" /\ OnlyTable(h, l)
      BY <3>1 DEF OnlyTable, LockName
    <3>3. QED
      BY <1>5, <2>2, <3>2, FilterCallsRun, ResetRuns
  <2>3. QED
    BY <1>4, <2>1, <2>2
<1> HIDE DEF h, step
<1>7. nested \o Tail(call[c]) \in Seq(StepType) /\ Runs(nested \o Tail(call[c]), h, Free)
  BY <1>3, <1>6, RunsConcat DEF Closed
<1>8. UNCHANGED <<readers, writer>>
  BY DEF Callback
<1> DEFINE s == nested \o Tail(call[c])
<1> HIDE DEF s
<1>9. s \in Seq(StepType) /\ Runs(s, held[c], Free) /\ call' = [call EXCEPT ![c] = s]
  BY <1>4, <1>7 DEF s, h
<1>10. QED
  BY <1>8, <1>9, SameHoldings

(***************************************************************************)
(* LockIInv is an invariant.                                               *)
(***************************************************************************)
THEOREM LockInvariant == Spec => []LockIInv
<1>1. LockIInv /\ [Next]_vars => LockIInv'
  <2> SUFFICES ASSUME LockIInv, [Next]_vars PROVE LockIInv'
    OBVIOUS
  <2>1. PICK held \in [Caller -> Holdings] : Explains(held)
    BY DEF LockIInv
  <2>2. LockType
    BY DEF LockIInv
  <2>3. CASE UNCHANGED vars
    BY <2>3 DEF vars, LockIInv, LockType, Explains
  <2>4. ASSUME NEW c \in Caller, Begin(c) \/ Acquire(c) \/ Continue(c) PROVE LockIInv'
    BY <2>1, <2>2, <2>4, BeginKeeps, RLockKeeps, LockKeeps, EnterKeeps, RUnlockKeeps,
       UnlockKeeps, WorkKeeps, CallbackKeeps DEF Acquire, Continue
  <2>5. QED
    BY <2>3, <2>4 DEF Next
<1>2. QED
  BY <1>1, LockInitial, PTL DEF Spec

-----------------------------------------------------------------------------
(* What follows from the invariant.                                        *)

LEMMA TypesFollow == LockIInv => TypeOK
<1> SUFFICES ASSUME LockIInv PROVE TypeOK
  OBVIOUS
<1>1. LockType
  BY DEF LockIInv
<1>2. ASSUME NEW c \in Caller, NEW i \in DOMAIN call[c]
      PROVE  call[c][i].do \in Steps /\ call[c][i].of \in LockName
  <2>1. call[c] \in Seq(StepType)
    BY <1>1 DEF LockType
  <2>2. call[c][i] \in StepType
    BY <2>1
  <2>3. QED
    BY <2>2 DEF StepType
<1>3. readers \in [LockName -> [Caller -> Nat]]
  BY <1>1 DEF LockType
<1>4. writer \in [LockName -> SUBSET Caller]
  BY <1>1 DEF LockType
<1>5. QED
  BY <1>2, <1>3, <1>4 DEF TypeOK

\* A caller that is at a step may take it with what it has.
LEMMA AtAllowed ==
    ASSUME LockType, NEW held \in [Caller -> Holdings], Explains(held),
           NEW c \in Caller, NEW do, At(c, do)
    PROVE  /\ Head(call[c]).do = do /\ Head(call[c]).of \in LockName
           /\ Allowed(Head(call[c]), held[c])
BY NextStep DEF At

LEMMA NoRaceFollows == LockIInv => NoRace
<1> SUFFICES ASSUME LockIInv, NEW c \in Caller, NEW d \in Caller, c # d,
                    At(c, "Write"), At(d, "Read") \/ At(d, "Write"),
                    Head(call[c]).of = Head(call[d]).of
             PROVE  FALSE
  BY DEF NoRace
<1>1. PICK held \in [Caller -> Holdings] : Explains(held)
  BY DEF LockIInv
<1> DEFINE l == Head(call[c]).of
<1>2. l \in LockName /\ held[c][l] = "write"
  BY <1>1, AtAllowed DEF LockIInv, Allowed
<1>3. held[d][l] \in {"read", "write"}
  BY <1>1, AtAllowed DEF LockIInv, Allowed
<1>4. QED
  BY <1>1, <1>2, <1>3 DEF Explains, Writing

LEMMA LockOrderFollows == LockIInv => LockOrder
<1> SUFFICES ASSUME LockIInv, NEW c \in Caller, NEW l \in LockName,
                    At(c, "RLock") \/ At(c, "Lock"),
                    readers[l][c] > 0 \/ c \in writer[l]
             PROVE  l = "tabLock" /\ Head(call[c]).of # "tabLock"
  BY DEF LockOrder
<1>1. PICK held \in [Caller -> Holdings] : Explains(held)
  BY DEF LockIInv
<1> DEFINE m == Head(call[c]).of
<1>2. m \in LockName /\ held[c][m] = "none" /\ OnlyTable(held[c], m)
  BY <1>1, AtAllowed DEF LockIInv, Allowed
<1>3. held[c][l] # "none"
  <2>1. CASE readers[l][c] > 0
    BY <1>1, <2>1 DEF Explains
  <2>2. CASE c \in writer[l]
    BY <1>1, <2>2 DEF Explains, Writing
  <2>3. QED
    BY <2>1, <2>2
<1>4. QED
  BY <1>2, <1>3 DEF OnlyTable

(***************************************************************************)
(* No data race, for any number of callers.                                *)
(***************************************************************************)
THEOREM NoRaceHolds == Spec => []NoRace
BY LockInvariant, NoRaceFollows, PTL

(***************************************************************************)
(* The order of the locks, for any number of callers.                      *)
(***************************************************************************)
THEOREM LockOrderHolds == Spec => []LockOrder
BY LockInvariant, LockOrderFollows, PTL

(***************************************************************************)
(* The calls consist of known steps on known locks, and no lock is         *)
(* released for reading more often than it was taken.                      *)
(***************************************************************************)
THEOREM LockTypesHold == Spec => []TypeOK
BY LockInvariant, TypesFollow, PTL

-----------------------------------------------------------------------------
LEMMA SomebodyGoesOnFollows == LockIInv => SomebodyGoesOn
<1> SUFFICES ASSUME LockIInv, NEW a \in Caller, call[a] # <<>>,
                    \A c \in Caller : call[c] # <<>> => Waits(c)
             PROVE  FALSE
  BY DEF SomebodyGoesOn
<1>1. PICK held \in [Caller -> Holdings] : Explains(held)
  BY DEF LockIInv
<1>2. LockType
  BY DEF LockIInv
<1>3. ASSUME NEW c \in Caller, NEW l \in LockName, held[c][l] # "none"
      PROVE  Waits(c)
  <2>1. call[c] # <<>>
    BY <1>1, <1>3, IdleHoldsNothing DEF Free
  <2>2. QED
    BY <2>1
\* Whoever has a lock other than tabLock waits to enter it.
<1>4. ASSUME NEW c \in Caller, NEW l \in LockName \ {"tabLock"}, held[c][l] # "none"
      PROVE  held[c][l] = "announced" /\ ~NoReaders(l)
  <2>1. Waits(c)
    BY <1>3, <1>4
  <2>2. ~At(c, "RLock") /\ ~At(c, "Lock")
    BY <1>1, <1>2, <1>4, AtAllowed DEF Allowed, OnlyTable
  <2>3. At(c, "Enter") /\ ~NoReaders(Head(call[c]).of)
    BY <2>1, <2>2 DEF Waits
  <2>4. Head(call[c]).of = l /\ held[c][l] = "announced"
    BY <1>1, <1>2, <1>4, <2>3, AtAllowed DEF Allowed, OnlyTable
  <2>5. QED
    BY <2>3, <2>4
\* So nobody has one, because nobody could be reading it.
<1>5. \A c \in Caller : \A l \in LockName \ {"tabLock"} : held[c][l] = "none"
  <2> SUFFICES ASSUME NEW c \in Caller, NEW l \in LockName \ {"tabLock"}, held[c][l] # "none"
               PROVE  FALSE
    OBVIOUS
  <2>1. PICK d \in Caller : readers[l][d] # 0
    BY <1>4 DEF NoReaders
  <2>2. held[d][l] = "read"
    BY <1>1, <2>1 DEF Explains
  <2>3. QED
    BY <1>4, <2>2
<1>6. \A l \in LockName \ {"tabLock"} : writer[l] = {} /\ NoReaders(l)
  BY <1>1, <1>5 DEF Explains, Writing, NoReaders
\* All wait for tabLock.
<1>7. ASSUME NEW c \in Caller, Waits(c)
      PROVE  /\ Head(call[c]).of = "tabLock"
             /\ At(c, "Enter") => ~NoReaders("tabLock")
             /\ ~At(c, "Enter") => held[c]["tabLock"] = "none" /\ writer["tabLock"] # {}
  <2>1. Head(call[c]).of \in LockName
    BY <1>1, <1>2, <1>7, AtAllowed DEF Waits
  <2>2. Head(call[c]).of = "tabLock"
    BY <1>6, <1>7, <2>1 DEF Waits
  <2>3. At(c, "RLock") \/ At(c, "Lock") => held[c]["tabLock"] = "none"
    BY <1>1, <1>2, <2>2, AtAllowed DEF Allowed
  <2>4. At(c, "Enter") => ~NoReaders("tabLock")
    <3>1. At(c, "Enter") => ~At(c, "RLock") /\ ~At(c, "Lock")
      BY DEF At
    <3>2. QED
      BY <1>7, <2>2, <3>1 DEF Waits
  <2>5. ~At(c, "Enter") => writer["tabLock"] # {}
    BY <1>7, <2>2 DEF Waits
  <2>6. QED
    BY <1>7, <2>2, <2>3, <2>4, <2>5 DEF Waits
\* Not to enter it, because its readers would wait as well ...
<1>8. ASSUME NEW c \in Caller, At(c, "Enter"), Waits(c)
      PROVE  FALSE
  <2>1. PICK d \in Caller : readers["tabLock"][d] # 0
    BY <1>7, <1>8 DEF NoReaders
  <2>2. held[d]["tabLock"] = "read" /\ "tabLock" \in LockName
    BY <1>1, <2>1 DEF Explains, LockName
  <2>3. Waits(d)
    BY <1>3, <2>2
  <2>4. At(d, "Enter") /\ Head(call[d]).of = "tabLock"
    BY <1>7, <2>2, <2>3
  <2>5. held[d]["tabLock"] = "announced"
    BY <1>1, <1>2, <2>4, AtAllowed DEF Allowed
  <2>6. QED
    BY <2>2, <2>5
\* ... nor to take it, because its writer would.
<1>9. Waits(a)
  OBVIOUS
<1>10. PICK d \in Caller : d \in writer["tabLock"]
  BY <1>2, <1>7, <1>8, <1>9 DEF LockType, LockName
<1>11. held[d]["tabLock"] \in Writing /\ "tabLock" \in LockName
  BY <1>1, <1>10 DEF Explains, LockName
<1>12. Waits(d)
  BY <1>3, <1>11 DEF Writing
<1>13. ~At(d, "Enter")
  BY <1>8, <1>12
<1>14. QED
  BY <1>7, <1>11, <1>12, <1>13 DEF Writing

(***************************************************************************)
(* No deadlock, for any number of callers: as long as a call is under way, *)
(* some caller that is in a call need not wait for any other.              *)
(***************************************************************************)
THEOREM NoDeadlock == Spec => []SomebodyGoesOn
BY LockInvariant, SomebodyGoesOnFollows, PTL
=============================================================================
