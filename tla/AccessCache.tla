---------------------------- MODULE AccessCache ----------------------------
(***************************************************************************)
(* The TTL cache of the access map in pkg/authorization/authorizer.go.      *)
(*                                                                         *)
(* Every FTP and SFTP operation calls ResolvePermission from a goroutine of *)
(* its own.  The call looks at the age of the cache under RLock, reads and  *)
(* parses access.o with no lock held, takes the lock to store the new map,  *)
(* and takes RLock again to copy the map it will decide with.  Each of      *)
(* these is a step here, so loads overlap and finish in any order.          *)
(* A map is abstracted to its version, the position in the history of the   *)
(* file it was read from; what a map decides is AccessResolver's subject.   *)
(***************************************************************************)
EXTENDS Integers, Sequences

CONSTANTS
  Proc,       \* the goroutines that ask for permissions
  TTL,        \* cacheDuration, in ticks
  LoadTime,   \* the longest time from reading access.o to storing its map
  MaxTime,    \* bound of the model: the clock stops here
  MaxSaves    \* bound of the model: states access.o goes through

ASSUME AccessCacheAssumption ==
  /\ TTL \in Nat \ {0}
  /\ LoadTime \in Nat
  /\ MaxTime \in Nat
  /\ MaxSaves \in Nat \ {0}

VARIABLES
  now,          \* the clock
  saves,        \* every state access.o has been in: when it began, is it usable
  accessMap,    \* Authorizer.accessMap: the version cached, NoMap for nil
  lastRefresh,  \* Authorizer.lastRefresh
  pc,           \* pc[p]: where p is inside ResolvePermission
  asked,        \* asked[p]: when p's request looked at the cache
  loaded,       \* loaded[p]: the version p read from access.o
  readAt,       \* readAt[p]: when p read it
  answer        \* answer[p]: the version that decided p's request, or Denied

env == <<now, saves>>
cache == <<accessMap, lastRefresh>>
vars == <<env, cache, pc, asked, loaded, readAt, answer>>

NoMap == 0
Denied == 0

Init ==
  /\ now = 0
  /\ saves \in {<<[at |-> 0, valid |-> b]>> : b \in BOOLEAN}
  /\ accessMap = NoMap
  /\ lastRefresh = 0
  /\ pc = [p \in Proc |-> "idle"]
  /\ asked = [p \in Proc |-> 0]
  /\ loaded = [p \in Proc |-> NoMap]
  /\ readAt = [p \in Proc |-> 0]
  /\ answer = [p \in Proc |-> Denied]

-----------------------------------------------------------------------------
(* One call of ResolvePermission (also ResolveGroups, GetExplicitGroups).   *)

\* Mutant: only a nil map is refreshed.
NeedsRefreshOnce == accessMap = NoMap

\* Mutant: the age is compared with > instead of >=.
NeedsRefreshLate == accessMap = NoMap \/ now - lastRefresh > TTL

\* Before the first refresh lastRefresh is Go's zero time, so that the age is
\* past any TTL; the nil map alone already asks for the refresh.
NeedsRefresh == accessMap = NoMap \/ now - lastRefresh >= TTL

\* ensureFreshCache: the age is checked under RLock, which is then released.
EnsureFreshCache(p) ==
  /\ pc[p] \in {"idle", "done"}
  /\ pc' = [pc EXCEPT ![p] = IF NeedsRefresh THEN "load" ELSE "snapshot"]
  /\ asked' = [asked EXCEPT ![p] = now]
  /\ answer' = [answer EXCEPT ![p] = Denied]
  /\ UNCHANGED <<env, cache, loaded, readAt>>

\* Mutant: a refresh that fails dates the cache all the same.
LoadFailsButStamps(p) ==
  /\ pc[p] = "load"
  /\ ~saves[Len(saves)].valid
  /\ pc' = [pc EXCEPT ![p] = "done"]
  /\ lastRefresh' = now
  /\ UNCHANGED <<env, accessMap, asked, loaded, readAt, answer>>

\* Mutant: after a refresh that fails the cached map decides.
LoadFailsOpen(p) ==
  /\ pc[p] = "load"
  /\ ~saves[Len(saves)].valid
  /\ pc' = [pc EXCEPT ![p] = "snapshot"]
  /\ UNCHANGED <<env, cache, asked, loaded, readAt, answer>>

\* refreshCache fails: access.o is missing, or has no valid access_map.
\* ResolvePermission answers Revoked; the cached map and its age stay.
LoadFails(p) ==
  /\ pc[p] = "load"
  /\ ~saves[Len(saves)].valid
  /\ pc' = [pc EXCEPT ![p] = "done"]
  /\ UNCHANGED <<env, cache, asked, loaded, readAt, answer>>

\* refreshCache reads, parses and validates access.o, without the lock.
LoadAccessData(p) ==
  /\ pc[p] = "load"
  /\ saves[Len(saves)].valid
  /\ loaded' = [loaded EXCEPT ![p] = Len(saves)]
  /\ readAt' = [readAt EXCEPT ![p] = now]
  /\ pc' = [pc EXCEPT ![p] = "store"]
  /\ UNCHANGED <<env, cache, asked, answer>>

\* Mutant: what is stored is when the map expires.
StoreMapExpiry(p) ==
  /\ pc[p] = "store"
  /\ accessMap' = loaded[p]
  /\ lastRefresh' = now + TTL
  /\ pc' = [pc EXCEPT ![p] = "snapshot"]
  /\ UNCHANGED <<env, asked, loaded, readAt, answer>>

\* refreshCache stores what it read, whatever the cache holds by now, and
\* dates it at the store.
StoreMap(p) ==
  /\ pc[p] = "store"
  /\ accessMap' = loaded[p]
  /\ lastRefresh' = now
  /\ pc' = [pc EXCEPT ![p] = "snapshot"]
  /\ UNCHANGED <<env, asked, loaded, readAt, answer>>

\* ResolvePermission copies the map under RLock and decides with the copy.
Decide(p) ==
  /\ pc[p] = "snapshot"
  /\ answer' = [answer EXCEPT ![p] = IF accessMap = NoMap THEN Denied ELSE accessMap]
  /\ pc' = [pc EXCEPT ![p] = "done"]
  /\ UNCHANGED <<env, cache, asked, loaded, readAt>>

ResolvePermission(p) ==
  \/ EnsureFreshCache(p)
  \/ LoadFails(p)
  \/ LoadAccessData(p)
  \/ StoreMap(p)
  \/ Decide(p)

-----------------------------------------------------------------------------
(* The environment.                                                        *)

\* The MUD saves access.o, or leaves it damaged or missing.
SaveAccessData(valid) ==
  /\ Len(saves) < MaxSaves
  /\ saves' = Append(saves, [at |-> now, valid |-> valid])
  /\ UNCHANGED <<now, cache, pc, asked, loaded, readAt, answer>>

\* Time passes, but no load takes longer than LoadTime.
Tick ==
  /\ now < MaxTime
  /\ \A p \in Proc : pc[p] = "store" => now - readAt[p] < LoadTime
  /\ now' = now + 1
  /\ UNCHANGED <<saves, cache, pc, asked, loaded, readAt, answer>>

Next ==
  \/ \E p \in Proc : ResolvePermission(p)
  \/ \E valid \in BOOLEAN : SaveAccessData(valid)
  \/ Tick

Spec == Init /\ [][Next]_vars

\* Goroutines run, users keep asking, time goes on.
Fairness == WF_vars(Tick) /\ \A p \in Proc : WF_vars(ResolvePermission(p))

FairSpec == Spec /\ Fairness

-----------------------------------------------------------------------------
(* Properties.                                                             *)

\* In particular the cache is never dated later than now.
TypeOK ==
  /\ now \in Nat
  /\ saves \in Seq([at : Nat, valid : BOOLEAN])
  /\ accessMap \in 0 .. Len(saves)
  /\ lastRefresh \in 0 .. now
  /\ pc \in [Proc -> {"idle", "load", "store", "snapshot", "done"}]
  /\ asked \in [Proc -> Nat]
  /\ loaded \in [Proc -> 0 .. Len(saves)]
  /\ readAt \in [Proc -> Nat]
  /\ answer \in [Proc -> 0 .. Len(saves)]

\* Version v was valid, and still in access.o after time t.
InFileAfter(v, t) ==
  /\ saves[v].valid
  /\ v = Len(saves) \/ saves[v + 1].at > t

\* A request is never granted anything by a version that was replaced, or
\* damaged, TTL + LoadTime or more before the request was made: whichever
\* loads overlapped, failed, or stored an older map over a newer one, and
\* however long the goroutine slept between checking the age of the cache
\* and copying the map.
FreshDecisions ==
  \A p \in Proc :
    pc[p] = "done" /\ answer[p] # Denied
      => InFileAfter(answer[p], asked[p] - (TTL + LoadTime))

\* Time enough is left before the clock stops for a cached map to expire.
SavedInTime(v) ==
  Len(saves) = v /\ saves[v].at + LoadTime + TTL <= MaxTime

\* Once the MUD stops changing access.o, its last version ends up deciding
\* every request, for good: no slow load can bring an older one back.
SavedMapTakesOver ==
  \A v \in 1 .. MaxSaves :
    <>[](SavedInTime(v) /\ saves[v].valid)
      => <>[](\A p \in Proc : pc[p] = "done" => answer[p] = v)

\* Once access.o stays missing or damaged, every request ends up denied: an
\* expired map is never used because its refresh failed.
DamagedMapDenies ==
  \A v \in 1 .. MaxSaves :
    <>[](SavedInTime(v) /\ ~saves[v].valid)
      => <>[](\A p \in Proc : pc[p] = "done" => answer[p] = Denied)

\* The cache is an access service whose window is TTL + LoadTime.
Service == INSTANCE AccessService WITH
  Window  <- TTL + LoadTime,
  request <- [p \in Proc |->
                IF pc[p] \in {"idle", "done"} THEN pc[p] ELSE "busy"]

ServiceSpec == Service!Spec

=============================================================================
