------------------------- MODULE AccessCacheProofs -------------------------
(***************************************************************************)
(* For any number of goroutines, any TTL and any load time: AccessCache is  *)
(* type correct, its decisions are fresh, and it implements AccessService.  *)
(***************************************************************************)
EXTENDS AccessCache, SequenceTheorems, TLAPS

-----------------------------------------------------------------------------
(* The inductive invariant.                                                *)

ClockInv ==
  /\ Len(saves) > 0
  /\ lastRefresh <= now
  /\ \A p \in Proc : asked[p] <= now /\ readAt[p] <= now

\* The cached map was in the file until LoadTime before it was stored.
CacheInv ==
  accessMap # NoMap => InFileAfter(accessMap, lastRefresh - LoadTime - 1)

\* What a loader holds was in the file when it was read, LoadTime ago at most.
LoadInv ==
  \A p \in Proc :
    pc[p] = "store" =>
      /\ loaded[p] # NoMap
      /\ InFileAfter(loaded[p], readAt[p] - 1)
      /\ now - readAt[p] <= LoadTime

\* Whoever is about to copy the map finds one stored since asked - TTL.
SnapshotInv ==
  \A p \in Proc :
    pc[p] = "snapshot" => accessMap # NoMap /\ asked[p] - lastRefresh < TTL

\* A request that has not decided yet has granted nothing.
PendingInv ==
  \A p \in Proc : pc[p] # "done" => answer[p] = Denied

IInv ==
  /\ TypeOK
  /\ ClockInv
  /\ CacheInv
  /\ LoadInv
  /\ SnapshotInv
  /\ PendingInv
  /\ FreshDecisions

USE DEF NoMap, Denied

-----------------------------------------------------------------------------
(* Facts about the history of access.o.                                    *)

LEMMA SavesElements ==
  ASSUME TypeOK, NEW i \in 1 .. Len(saves)
  PROVE  saves[i].at \in Nat /\ saves[i].valid \in BOOLEAN
<1> DEFINE S == [at : Nat, valid : BOOLEAN]
<1>1. saves \in Seq(S)
  BY DEF TypeOK
<1>2. ASSUME NEW r \in S PROVE r.at \in Nat /\ r.valid \in BOOLEAN
  OBVIOUS
<1>3. saves[i] \in S
  <2> HIDE DEF S
  <2> QED BY <1>1, ElementOfSeq
<1> QED BY <1>2, <1>3

\* What was in the file after t was in the file after anything before t.
LEMMA InFileAfterWeaken ==
  ASSUME TypeOK, NEW v \in 1 .. Len(saves), NEW t \in Int, NEW u \in Int,
         u <= t, InFileAfter(v, t)
  PROVE  InFileAfter(v, u)
<1>1. CASE v = Len(saves)
  BY <1>1 DEF InFileAfter
<1>2. CASE v # Len(saves)
  <2>1. saves[v + 1].at > t /\ saves[v].valid
    BY <1>2 DEF InFileAfter
  <2>2. v + 1 \in 1 .. Len(saves)
    <3>1. Len(saves) \in Nat
      BY DEF TypeOK
    <3> QED BY <1>2, <3>1
  <2>3. saves[v + 1].at \in Nat
    BY <2>2, SavesElements
  <2> QED BY <2>1, <2>3 DEF InFileAfter
<1> QED BY <1>1, <1>2

\* Saving the file now does not change what was in it after an earlier time.
LEMMA SaveKeepsInFileAfter ==
  ASSUME TypeOK, NEW valid \in BOOLEAN, SaveAccessData(valid),
         NEW v \in 1 .. Len(saves), NEW t \in Int, t < now, InFileAfter(v, t)
  PROVE  InFileAfter(v, t)'
<1> DEFINE s == [at |-> now, valid |-> valid]
<1>1. /\ saves' = Append(saves, s)
      /\ Len(saves') = Len(saves) + 1
      /\ saves'[Len(saves) + 1] = s
      /\ \A i \in 1 .. Len(saves) : saves'[i] = saves[i]
  BY DEF SaveAccessData, TypeOK
<1>2. CASE v = Len(saves)
  BY <1>1, <1>2 DEF InFileAfter, TypeOK
<1>3. CASE v # Len(saves)
  BY <1>1, <1>3 DEF InFileAfter, TypeOK
<1> QED BY <1>2, <1>3

-----------------------------------------------------------------------------
(* Type correctness.                                                       *)

LEMMA InitTypeOK == Init => TypeOK /\ Len(saves) > 0
<1> SUFFICES ASSUME Init PROVE TypeOK /\ Len(saves) > 0
  OBVIOUS
<1>1. PICK b \in BOOLEAN : saves = <<[at |-> 0, valid |-> b]>>
  BY DEF Init
<1>2. saves \in Seq([at : Nat, valid : BOOLEAN]) /\ Len(saves) = 1
  BY <1>1
<1> QED BY <1>2 DEF Init, TypeOK

LEMMA NextTypeOK == TypeOK /\ Len(saves) > 0 /\ [Next]_vars => TypeOK' /\ Len(saves') > 0
<1> SUFFICES ASSUME TypeOK, Len(saves) > 0, [Next]_vars
             PROVE  TypeOK' /\ Len(saves') > 0
  OBVIOUS
<1> USE DEF env, cache
<1>1. ASSUME NEW p \in Proc, EnsureFreshCache(p) PROVE TypeOK' /\ Len(saves') > 0
  BY <1>1 DEF EnsureFreshCache, TypeOK
<1>2. ASSUME NEW p \in Proc, LoadFails(p) PROVE TypeOK' /\ Len(saves') > 0
  BY <1>2 DEF LoadFails, TypeOK
<1>3. ASSUME NEW p \in Proc, LoadAccessData(p) PROVE TypeOK' /\ Len(saves') > 0
  BY <1>3 DEF LoadAccessData, TypeOK
<1>4. ASSUME NEW p \in Proc, StoreMap(p) PROVE TypeOK' /\ Len(saves') > 0
  BY <1>4 DEF StoreMap, TypeOK
<1>5. ASSUME NEW p \in Proc, Decide(p) PROVE TypeOK' /\ Len(saves') > 0
  BY <1>5 DEF Decide, TypeOK
<1>6. ASSUME NEW valid \in BOOLEAN, SaveAccessData(valid) PROVE TypeOK' /\ Len(saves') > 0
  <2>1. saves' \in Seq([at : Nat, valid : BOOLEAN]) /\ Len(saves') = Len(saves) + 1
    BY <1>6 DEF SaveAccessData, TypeOK
  <2>2. \A n \in 0 .. Len(saves) : n \in 0 .. Len(saves')
    BY <2>1 DEF TypeOK
  <2>3. UNCHANGED <<now, cache, pc, asked, loaded, readAt, answer>>
    BY <1>6 DEF SaveAccessData
  <2>6. accessMap' \in 0 .. Len(saves')
    BY <2>2, <2>3 DEF TypeOK
  <2>4. loaded' \in [Proc -> 0 .. Len(saves')] /\ answer' \in [Proc -> 0 .. Len(saves')]
    BY <2>2, <2>3 DEF TypeOK
  <2>5. Len(saves') > 0
    BY <2>1 DEF TypeOK
  <2> QED BY <2>1, <2>3, <2>4, <2>5, <2>6 DEF TypeOK
<1>7. CASE Tick
  BY <1>7 DEF Tick, TypeOK
<1>8. CASE UNCHANGED vars
  BY <1>8 DEF vars, TypeOK
<1> QED BY <1>1, <1>2, <1>3, <1>4, <1>5, <1>6, <1>7, <1>8 DEF Next, ResolvePermission

\* Every reachable state of the cache is well typed.
THEOREM TypeCorrect == Spec => []TypeOK
<1>1. Init => TypeOK /\ Len(saves) > 0
  BY InitTypeOK
<1>2. (TypeOK /\ Len(saves) > 0) /\ [Next]_vars => (TypeOK /\ Len(saves) > 0)'
  BY NextTypeOK
<1> QED BY <1>1, <1>2, PTL DEF Spec

-----------------------------------------------------------------------------
(* Freshness.                                                              *)

\* An action of one request that stores nothing leaves the clock, the file
\* and the cache alone: what is claimed of the other requests still holds.
LEMMA InFileAfterStays ==
  ASSUME UNCHANGED saves, NEW v, NEW t, InFileAfter(v, t)
  PROVE  InFileAfter(v, t)'
BY DEF InFileAfter

LEMMA InitIInv == Init => IInv
<1> SUFFICES ASSUME Init PROVE IInv
  OBVIOUS
<1>1. TypeOK /\ Len(saves) > 0
  BY InitTypeOK
<1>2. ClockInv /\ CacheInv
  BY <1>1 DEF Init, ClockInv, CacheInv
<1>3. LoadInv /\ SnapshotInv /\ PendingInv /\ FreshDecisions
  BY DEF Init, LoadInv, SnapshotInv, PendingInv, FreshDecisions
<1> QED BY <1>1, <1>2, <1>3 DEF IInv

LEMMA CheckIInv ==
  ASSUME IInv, TypeOK', NEW p \in Proc, EnsureFreshCache(p)
  PROVE  IInv'
<1> USE DEF EnsureFreshCache, env, cache, TypeOK
<1>1. ClockInv'
  BY DEF IInv, ClockInv
<1>2. CacheInv' /\ LoadInv'
  BY DEF IInv, CacheInv, LoadInv, InFileAfter
<1>3. SnapshotInv'
  <2>1. ASSUME NEW q \in Proc, q # p, pc'[q] = "snapshot"
        PROVE  (accessMap # NoMap /\ asked[q] - lastRefresh < TTL)'
    BY <2>1 DEF IInv, SnapshotInv
  <2>2. ASSUME pc'[p] = "snapshot"
        PROVE  (accessMap # NoMap /\ asked[p] - lastRefresh < TTL)'
    <3>1. ~NeedsRefresh /\ asked'[p] = now
      BY <2>2
    <3>2. accessMap # NoMap /\ ~(now - lastRefresh >= TTL)
      BY <3>1 DEF NeedsRefresh
    <3>3. now \in Nat /\ lastRefresh \in Nat /\ TTL \in Nat
      BY AccessCacheAssumption DEF IInv
    <3> QED BY <3>1, <3>2, <3>3
  <2> QED BY <2>1, <2>2 DEF SnapshotInv
<1>4. PendingInv' /\ FreshDecisions'
  BY DEF IInv, PendingInv, FreshDecisions, InFileAfter
<1> QED BY <1>1, <1>2, <1>3, <1>4 DEF IInv

LEMMA LoadFailsIInv ==
  ASSUME IInv, TypeOK', NEW p \in Proc, LoadFails(p)
  PROVE  IInv'
<1> USE DEF LoadFails, env, cache, TypeOK
<1>1. ClockInv' /\ CacheInv' /\ LoadInv' /\ SnapshotInv'
  BY DEF IInv, ClockInv, CacheInv, LoadInv, SnapshotInv, InFileAfter
<1>2. PendingInv'
  BY DEF IInv, PendingInv
<1>3. FreshDecisions'
  BY DEF IInv, PendingInv, FreshDecisions, InFileAfter
<1> QED BY <1>1, <1>2, <1>3 DEF IInv

LEMMA LoadIInv ==
  ASSUME IInv, TypeOK', NEW p \in Proc, LoadAccessData(p)
  PROVE  IInv'
<1> USE DEF LoadAccessData, env, cache, TypeOK
<1>1. ClockInv' /\ CacheInv' /\ SnapshotInv' /\ PendingInv' /\ FreshDecisions'
  BY DEF IInv, ClockInv, CacheInv, SnapshotInv, PendingInv, FreshDecisions, InFileAfter
<1>2. LoadInv'
  <2>1. InFileAfter(Len(saves), now - 1)'
    BY DEF InFileAfter
  <2>2. now - now <= LoadTime
    BY AccessCacheAssumption
  <2>3. Len(saves) # NoMap
    BY DEF IInv, ClockInv
  <2> QED BY <2>1, <2>2, <2>3 DEF IInv, LoadInv, InFileAfter
<1> QED BY <1>1, <1>2 DEF IInv

LEMMA StoreIInv ==
  ASSUME IInv, TypeOK', NEW p \in Proc, StoreMap(p)
  PROVE  IInv'
<1> USE DEF StoreMap, env, TypeOK
<1>1. ClockInv' /\ LoadInv' /\ PendingInv' /\ FreshDecisions'
  BY DEF IInv, ClockInv, LoadInv, PendingInv, FreshDecisions, InFileAfter
<1>2. CacheInv'
  <2>1. /\ loaded[p] \in 1 .. Len(saves)
        /\ InFileAfter(loaded[p], readAt[p] - 1)
        /\ now - LoadTime - 1 <= readAt[p] - 1
    BY AccessCacheAssumption DEF IInv, LoadInv
  <2>2. InFileAfter(loaded[p], now - LoadTime - 1)
    BY <2>1, InFileAfterWeaken, AccessCacheAssumption DEF IInv
  <2> QED BY <2>2 DEF CacheInv, InFileAfter
<1>3. SnapshotInv'
  <2>1. \A q \in Proc : asked[q] - now < TTL
    BY AccessCacheAssumption DEF IInv, ClockInv
  <2>2. loaded[p] # NoMap
    BY DEF IInv, LoadInv
  <2> QED BY <2>1, <2>2 DEF SnapshotInv
<1> QED BY <1>1, <1>2, <1>3 DEF IInv

LEMMA DecideIInv ==
  ASSUME IInv, TypeOK', NEW p \in Proc, Decide(p)
  PROVE  IInv'
<1> USE DEF Decide, env, cache, TypeOK
<1>1. ClockInv' /\ CacheInv' /\ LoadInv' /\ SnapshotInv' /\ PendingInv'
  BY DEF IInv, ClockInv, CacheInv, LoadInv, SnapshotInv, PendingInv, InFileAfter
<1>2. FreshDecisions'
  <2>1. /\ accessMap \in 1 .. Len(saves)
        /\ InFileAfter(accessMap, lastRefresh - LoadTime - 1)
        /\ asked[p] - (TTL + LoadTime) <= lastRefresh - LoadTime - 1
    BY AccessCacheAssumption DEF IInv, CacheInv, SnapshotInv
  <2>2. InFileAfter(accessMap, asked[p] - (TTL + LoadTime))
    BY <2>1, InFileAfterWeaken, AccessCacheAssumption DEF IInv
  <2> QED BY <2>2 DEF IInv, FreshDecisions, InFileAfter
<1> QED BY <1>1, <1>2 DEF IInv

LEMMA SaveIInv ==
  ASSUME IInv, TypeOK', NEW valid \in BOOLEAN, SaveAccessData(valid)
  PROVE  IInv'
<1>1. UNCHANGED <<now, cache, pc, asked, loaded, readAt, answer>> /\ Len(saves') > 0
  BY DEF SaveAccessData, IInv, TypeOK
<1>2. ASSUME NEW v \in 1 .. Len(saves), NEW t \in Int, t < now, InFileAfter(v, t)
      PROVE  InFileAfter(v, t)'
  BY <1>2, SaveKeepsInFileAfter DEF IInv
<1>3. ClockInv' /\ SnapshotInv' /\ PendingInv'
  BY <1>1 DEF IInv, ClockInv, SnapshotInv, PendingInv, cache
<1>4. CacheInv'
  <2> SUFFICES ASSUME accessMap # NoMap PROVE InFileAfter(accessMap, lastRefresh - LoadTime - 1)'
    BY <1>1 DEF CacheInv, cache
  <2>1. accessMap \in 1 .. Len(saves) /\ lastRefresh - LoadTime - 1 < now
    BY AccessCacheAssumption DEF IInv, TypeOK, ClockInv
  <2> QED BY <1>1, <1>2, <2>1, AccessCacheAssumption DEF IInv, CacheInv, TypeOK, cache
<1>5. LoadInv'
  <2> SUFFICES ASSUME NEW p \in Proc, pc[p] = "store"
               PROVE  InFileAfter(loaded[p], readAt[p] - 1)'
    BY <1>1 DEF IInv, LoadInv
  <2>1. loaded[p] \in 1 .. Len(saves) /\ readAt[p] - 1 < now /\ readAt[p] \in Nat
    <3>1. now \in Nat /\ readAt[p] \in Nat /\ loaded[p] \in 0 .. Len(saves)
      BY DEF IInv, TypeOK
    <3> QED BY <3>1 DEF IInv, ClockInv, LoadInv
  <2> QED BY <1>1, <1>2, <2>1 DEF IInv, LoadInv
<1>6. FreshDecisions'
  <2> SUFFICES ASSUME NEW p \in Proc, pc[p] = "done", answer[p] # Denied
               PROVE  InFileAfter(answer[p], asked[p] - (TTL + LoadTime))'
    BY <1>1 DEF FreshDecisions
  <2>1. /\ answer[p] \in 1 .. Len(saves)
        /\ asked[p] - (TTL + LoadTime) < now
        /\ asked[p] \in Nat
    <3>1. now \in Nat /\ asked[p] \in Nat /\ answer[p] \in 0 .. Len(saves)
      BY DEF IInv, TypeOK
    <3> QED BY <3>1, AccessCacheAssumption DEF IInv, ClockInv
  <2> QED BY <1>1, <1>2, <2>1, AccessCacheAssumption DEF IInv, FreshDecisions
<1> QED BY <1>3, <1>4, <1>5, <1>6 DEF IInv

LEMMA TickIInv ==
  ASSUME IInv, TypeOK', Tick
  PROVE  IInv'
<1> USE DEF Tick, cache, TypeOK
<1>1. ClockInv'
  BY DEF IInv, ClockInv
<1>2. LoadInv'
  BY AccessCacheAssumption DEF IInv, LoadInv, InFileAfter
<1>3. CacheInv' /\ SnapshotInv' /\ PendingInv' /\ FreshDecisions'
  BY DEF IInv, CacheInv, SnapshotInv, PendingInv, FreshDecisions, InFileAfter
<1> QED BY <1>1, <1>2, <1>3 DEF IInv

LEMMA NextIInv == IInv /\ [Next]_vars => IInv'
<1> SUFFICES ASSUME IInv, [Next]_vars PROVE IInv'
  OBVIOUS
<1>1. TypeOK'
  BY NextTypeOK DEF IInv, ClockInv
<1>2. CASE \E p \in Proc : ResolvePermission(p)
  BY <1>1, <1>2, CheckIInv, LoadFailsIInv, LoadIInv, StoreIInv, DecideIInv
     DEF ResolvePermission
<1>3. CASE \E valid \in BOOLEAN : SaveAccessData(valid)
  BY <1>1, <1>3, SaveIInv
<1>4. CASE Tick
  BY <1>1, <1>4, TickIInv
<1>5. CASE UNCHANGED vars
  BY <1>5 DEF vars, env, cache, IInv, TypeOK, ClockInv, CacheInv, LoadInv,
              SnapshotInv, PendingInv, FreshDecisions, InFileAfter
<1> QED BY <1>2, <1>3, <1>4, <1>5 DEF Next

\* No request is ever granted anything by a version of access.o that had been
\* replaced TTL + LoadTime before the request was made.
THEOREM DecisionsAreFresh == Spec => []FreshDecisions
<1>1. Spec => []IInv
  BY InitIInv, NextIInv, PTL DEF Spec
<1>2. IInv => FreshDecisions
  BY DEF IInv
<1> QED BY <1>1, <1>2, PTL

-----------------------------------------------------------------------------
(* The cache implements the access service.                                *)

Request(p) == IF pc[p] \in {"idle", "done"} THEN pc[p] ELSE "busy"

LEMMA InitRefines == Init => Service!Init
BY DEF Init, Service!Init, Service!Denied

LEMMA NextRefines ==
  IInv /\ IInv' /\ [Next]_vars => [Service!Next]_(Service!vars)
<1> SUFFICES ASSUME IInv, IInv', [Next]_vars
             PROVE  [Service!Next]_(Service!vars)
  OBVIOUS
<1> DEFINE req == [p \in Proc |-> Request(p)]
<1> USE DEF Request, Service!vars, Service!Next, Service!Denied
<1>1. ASSUME NEW p \in Proc, EnsureFreshCache(p) PROVE Service!Ask(p)
  BY <1>1 DEF EnsureFreshCache, Service!Ask, IInv, TypeOK, env, cache
<1>2. ASSUME NEW p \in Proc, LoadFails(p) PROVE Service!Answer(p)
  BY <1>2 DEF LoadFails, Service!Answer, IInv, TypeOK, env, cache
<1>3. ASSUME NEW p \in Proc, LoadAccessData(p) \/ StoreMap(p)
      PROVE  UNCHANGED Service!vars
  BY <1>3 DEF LoadAccessData, StoreMap, IInv, TypeOK, env, cache
<1>4. ASSUME NEW p \in Proc, Decide(p) PROVE Service!Answer(p)
  <2>1. /\ req[p] = "busy"
        /\ req' = [req EXCEPT ![p] = "done"]
        /\ UNCHANGED <<now, saves, asked>>
    BY <1>4 DEF Decide, IInv, TypeOK, env, cache
  <2>2. accessMap # NoMap /\ answer' = [answer EXCEPT ![p] = accessMap]
    BY <1>4 DEF Decide, IInv, SnapshotInv
  <2>3. InFileAfter(accessMap, asked[p] - (TTL + LoadTime))
    BY <1>4, <2>2 DEF Decide, IInv, FreshDecisions, InFileAfter, TypeOK, env, cache
  <2>4. accessMap \in DOMAIN saves
    BY <2>2 DEF IInv, TypeOK
  <2>5. Service!Fresh(accessMap, asked[p])
    <3>1. CASE accessMap = Len(saves)
      BY <3>1 DEF Service!Fresh
    <3>2. CASE accessMap # Len(saves)
      <4>1. saves[accessMap + 1].at > asked[p] - (TTL + LoadTime)
        BY <2>3, <3>2 DEF InFileAfter
      <4>2. accessMap + 1 \in 1 .. Len(saves)
        BY <2>2, <3>2 DEF IInv, TypeOK
      <4>3. saves[accessMap + 1].at \in Nat /\ asked[p] \in Nat
        BY <4>2, SavesElements DEF IInv, TypeOK
      <4> QED BY <4>1, <4>3, AccessCacheAssumption DEF Service!Fresh
    <3> QED BY <3>1, <3>2
  <2>6. saves[accessMap].valid
    BY <2>3 DEF InFileAfter
  <2> QED BY <2>1, <2>2, <2>4, <2>5, <2>6 DEF Service!Answer
<1>5. ASSUME NEW valid \in BOOLEAN, SaveAccessData(valid) PROVE Service!Save
  BY <1>5 DEF SaveAccessData, Service!Save, cache
<1>6. CASE Tick
  BY <1>6 DEF Tick, Service!Tick, cache
<1>7. CASE UNCHANGED vars
  BY <1>7 DEF vars, env
<1> QED BY <1>1, <1>2, <1>3, <1>4, <1>5, <1>6, <1>7 DEF Next, ResolvePermission

\* The cache, with its overlapping and failing loads, is an access service
\* whose window is TTL + LoadTime.
THEOREM CacheIsAService == Spec => ServiceSpec
<1>1. Spec => []IInv
  BY InitIInv, NextIInv, PTL DEF Spec
<1> QED BY <1>1, InitRefines, NextRefines, PTL DEF Spec, ServiceSpec, Service!Spec
=============================================================================
