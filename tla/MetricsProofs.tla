--------------------------- MODULE MetricsProofs ---------------------------
(***************************************************************************)
(* The counters never drift from the connections they count, the limit      *)
(* holds, and what the heartbeat adds up while they change lies between the *)
(* true totals, for any servers, clients and limit.                        *)
(***************************************************************************)
EXTENDS Metrics, FiniteSetTheorems, WellFoundedInduction, TLAPS

ConnectionsOK ==
  /\ client \in [Server -> [Client -> {"away"} \union CountedStates]]
  /\ active \in [Server -> Int]

IInv == ConnectionsOK /\ CountersBalance /\ ConnectionLimit

-----------------------------------------------------------------------------
(* Sums over the servers.                                                  *)

\* The principle that stands in for induction.
LEMMA LeastNumber ==
  ASSUME NEW T \in SUBSET Nat, T # {}
  PROVE  \E x \in T : \A y \in T : x <= y
<1> DEFINE R == OpToRel(<, Nat)
<1>1. \E x \in T : \A y \in T : ~ (<<y, x>> \in R)
  <2>1. IsWellFoundedOn(R, Nat)
    BY NatLessThanWellFounded
  <2> HIDE DEF R
  <2> QED
    BY <2>1, WFMin
<1>2. \A x, y \in T : y < x => <<y, x>> \in R
  BY DEF OpToRel
<1> HIDE DEF R
<1>3. \A x, y \in T : ~(y < x) => x <= y
  OBVIOUS
<1> QED
  BY <1>1, <1>2, <1>3

\* What Sums recurs through: s has the sums over the first m providers.
IsSum(s, counter, m) ==
  s = [n \in 0 .. m |-> IF n = 0 THEN 0 ELSE s[n - 1] + counter[Providers[n]]]

LEMMA SumValues ==
  ASSUME NEW counter, NEW m \in Nat, NEW s, IsSum(s, counter, m)
  PROVE  s[0] = 0 /\ \A n \in 1 .. m : s[n] = s[n - 1] + counter[Providers[n]]
BY DEF IsSum

LEMMA IsSumByValues ==
  ASSUME NEW counter, NEW m \in Nat, NEW s, s = [n \in 0 .. m |-> s[n]],
         s[0] = 0, \A n \in 1 .. m : s[n] = s[n - 1] + counter[Providers[n]]
  PROVE  IsSum(s, counter, m)
<1>1. \A n \in 0 .. m : n = 0 \/ n \in 1 .. m
  OBVIOUS
<1>2. \A n \in 0 .. m : s[n] = IF n = 0 THEN 0 ELSE s[n - 1] + counter[Providers[n]]
  BY <1>1
<1> QED
  BY <1>2 DEF IsSum

\* There are sums over any number of providers: a least number without would
\* have a predecessor with, whose sums are continued.
LEMMA SumExists ==
  ASSUME NEW counter, NEW N \in Nat
  PROVE  \E s : IsSum(s, counter, N)
<1> DEFINE T == {m \in Nat : \A s : ~IsSum(s, counter, m)}
<1> SUFFICES ASSUME T # {} PROVE FALSE
  OBVIOUS
<1>1. PICK m \in T : \A y \in T : m <= y
  BY LeastNumber
<1>2. CASE m = 0
  <2> DEFINE u == [n \in 0 .. m |-> 0]
  <2>1. u = [n \in 0 .. m |-> u[n]] /\ u[0] = 0
    OBVIOUS
  <2>2. \A n \in 1 .. m : u[n] = u[n - 1] + counter[Providers[n]]
    BY <1>2
  <2> HIDE DEF u
  <2>3. IsSum(u, counter, m)
    BY <2>1, <2>2, IsSumByValues
  <2> QED
    BY <1>1, <2>3
<1>3. CASE m # 0
  <2> DEFINE k == m - 1
  <2>1. k \in Nat /\ k \notin T
    BY <1>1, <1>3
  <2> HIDE DEF k
  <2>2. PICK s : IsSum(s, counter, k)
    BY <2>1
  <2>3. s[0] = 0 /\ \A n \in 1 .. k : s[n] = s[n - 1] + counter[Providers[n]]
    BY <2>1, <2>2, SumValues
  <2> USE DEF k
  <2> DEFINE u == [n \in 0 .. m |-> IF n = m THEN s[m - 1] + counter[Providers[m]] ELSE s[n]]
  <2>4. \A n \in 0 .. m - 1 : u[n] = s[n]
    BY <2>1
  <2>5. u[m] = u[m - 1] + counter[Providers[m]]
    BY <2>1, <2>4
  <2>6. ASSUME NEW n \in 1 .. m PROVE u[n] = u[n - 1] + counter[Providers[n]]
    <3>1. CASE n = m
      BY <2>5, <3>1
    <3>2. CASE n # m
      <4>1. n \in 1 .. m - 1 /\ n - 1 \in 0 .. m - 1 /\ n \in 0 .. m - 1
        BY <3>2
      <4> QED
        BY <2>3, <2>4, <4>1
    <3> QED
      BY <3>1, <3>2
  <2>7. u[0] = 0
    <3>1. 0 \in 0 .. m - 1
      BY <2>1
    <3> QED
      BY <2>3, <2>4, <3>1
  <2>8. u = [n \in 0 .. m |-> u[n]]
    OBVIOUS
  <2> HIDE DEF u
  <2>9. IsSum(u, counter, m)
    BY <2>6, <2>7, <2>8, IsSumByValues
  <2> QED
    BY <1>1, <2>9
<1> QED
  BY <1>2, <1>3

LEMMA SumsUnfold ==
  ASSUME NEW counter
  PROVE  /\ Sums(counter)[0] = 0
         /\ \A n \in DOMAIN Providers :
              Sums(counter)[n] = Sums(counter)[n - 1] + counter[Providers[n]]
<1>1. Len(Providers) \in Nat /\ DOMAIN Providers = 1 .. Len(Providers)
  BY MetricsAssumption
<1>2. Sums(counter) = CHOOSE s : IsSum(s, counter, Len(Providers))
  BY DEF Sums, IsSum
<1>3. IsSum(Sums(counter), counter, Len(Providers))
  BY <1>1, <1>2, SumExists
<1>4. PICK m \in Nat : m = Len(Providers)
  BY <1>1
<1>5. PICK s : s = Sums(counter)
  OBVIOUS
<1>6. IsSum(s, counter, m)
  BY <1>3, <1>4, <1>5
<1>7. s[0] = 0 /\ \A n \in 1 .. m : s[n] = s[n - 1] + counter[Providers[n]]
  BY <1>6, SumValues
<1> QED
  BY <1>1, <1>4, <1>5, <1>7

LEMMA SumsType ==
  ASSUME NEW counter \in [Server -> Nat]
  PROVE  \A n \in 0 .. Len(Providers) : Sums(counter)[n] \in Nat
<1> DEFINE T == {n \in 0 .. Len(Providers) : Sums(counter)[n] \notin Nat}
<1> SUFFICES ASSUME T # {} PROVE FALSE
  OBVIOUS
<1>1. Len(Providers) \in Nat /\ DOMAIN Providers = 1 .. Len(Providers)
  BY MetricsAssumption
<1>2. PICK n \in T : \A y \in T : n <= y
  <2>1. T \in SUBSET Nat
    BY <1>1
  <2> HIDE DEF T
  <2> QED
    BY <2>1, LeastNumber
<1>3. n # 0
  BY <1>2, SumsUnfold
<1>4. n - 1 \in 0 .. Len(Providers) /\ n - 1 \notin T /\ n \in DOMAIN Providers
  BY <1>1, <1>2, <1>3
<1>5. counter[Providers[n]] \in Nat
  BY <1>4 DEF Server
<1> QED
  BY <1>2, <1>4, <1>5, SumsUnfold

\* When no counter falls, what the first n add to the sum does not fall, and
\* neither does what the others add.
LEMMA SumsGrow ==
  ASSUME NEW was \in [Server -> Nat], NEW is \in [Server -> Nat],
         \A v \in Server : was[v] <= is[v],
         NEW m \in 0 .. Len(Providers)
  PROVE  \A n \in m .. Len(Providers) :
           Sums(was)[n] - Sums(was)[m] <= Sums(is)[n] - Sums(is)[m]
<1> DEFINE Grown(n) == Sums(was)[n] - Sums(was)[m] <= Sums(is)[n] - Sums(is)[m]
           T == {n \in m .. Len(Providers) : ~Grown(n)}
<1> SUFFICES ASSUME T # {} PROVE FALSE
  OBVIOUS
<1>1. Len(Providers) \in Nat /\ DOMAIN Providers = 1 .. Len(Providers)
  BY MetricsAssumption
<1>2. \A n \in 0 .. Len(Providers) : Sums(was)[n] \in Int /\ Sums(is)[n] \in Int
  BY SumsType
<1>3. PICK n \in T : \A y \in T : n <= y
  <2>1. T \in SUBSET Nat
    BY <1>1
  <2> HIDE DEF T
  <2> QED
    BY <2>1, LeastNumber
<1>4. n # m
  BY <1>2, <1>3
<1>5. n - 1 \in m .. Len(Providers) /\ n - 1 \notin T /\ n \in DOMAIN Providers
  BY <1>1, <1>3, <1>4
<1>6. /\ Sums(was)[n] = Sums(was)[n - 1] + was[Providers[n]]
      /\ Sums(is)[n] = Sums(is)[n - 1] + is[Providers[n]]
  BY <1>5, SumsUnfold
<1>7. Providers[n] \in Server
  BY <1>5 DEF Server
<1>8. was[Providers[n]] \in Int /\ is[Providers[n]] \in Int /\ was[Providers[n]] <= is[Providers[n]]
  BY <1>7
<1>9. /\ Sums(was)[n - 1] - Sums(was)[m] <= Sums(is)[n - 1] - Sums(is)[m]
      /\ ~(Sums(was)[n] - Sums(was)[m] <= Sums(is)[n] - Sums(is)[m])
  BY <1>3, <1>5
<1>10. n \in 0 .. Len(Providers) /\ n - 1 \in 0 .. Len(Providers)
  BY <1>1, <1>5
<1>11. /\ Sums(was)[n - 1] \in Int /\ Sums(is)[n - 1] \in Int
       /\ Sums(was)[m] \in Int /\ Sums(is)[m] \in Int
  BY <1>2, <1>10
<1>12. \A a, b, c, d, e, f \in Int :
         a - c <= b - d /\ e <= f => (a + e) - c <= (b + f) - d
  OBVIOUS
<1> HIDE DEF T
<1> QED
  BY <1>6, <1>8, <1>9, <1>11, <1>12

-----------------------------------------------------------------------------
(* Who is counted after a move.                                            *)
LEMMA InIsFinite ==
  ASSUME NEW v, NEW states
  PROVE  IsFiniteSet(In(v, states)) /\ Cardinality(In(v, states)) \in Nat
<1>1. In(v, states) \subseteq Client
  BY DEF In
<1>2. IsFiniteSet(In(v, states))
  BY <1>1, MetricsAssumption, FS_Subset
<1> QED
  BY <1>2, FS_CardinalityType

\* One that comes adds itself, in its own server's set.
LEMMA Joins ==
  ASSUME ConnectionsOK, NEW v \in Server, NEW c \in Client, NEW to, NEW states,
         client' = [client EXCEPT ![v][c] = to],
         to \in states, client[v][c] \notin states
  PROVE  /\ Cardinality(In(v, states)') = Cardinality(In(v, states)) + 1
         /\ \A w \in Server \ {v} : In(w, states)' = In(w, states)
<1>1. In(v, states)' = In(v, states) \union {c}
  BY DEF ConnectionsOK, In
<1>2. c \notin In(v, states)
  BY DEF In
<1>3. IsFiniteSet(In(v, states))
  BY InIsFinite
<1>4. Cardinality(In(v, states) \union {c}) = Cardinality(In(v, states)) + 1
  BY <1>2, <1>3, FS_AddElement
<1>5. \A w \in Server \ {v} : In(w, states)' = In(w, states)
  BY DEF ConnectionsOK, In
<1> QED
  BY <1>1, <1>4, <1>5

\* One that goes takes itself out.
LEMMA Leaves ==
  ASSUME ConnectionsOK, NEW v \in Server, NEW c \in Client, NEW to, NEW states,
         client' = [client EXCEPT ![v][c] = to],
         to \notin states, client[v][c] \in states
  PROVE  /\ Cardinality(In(v, states)') = Cardinality(In(v, states)) - 1
         /\ \A w \in Server \ {v} : In(w, states)' = In(w, states)
<1>1. In(v, states)' = In(v, states) \ {c}
  BY DEF ConnectionsOK, In
<1>2. c \in In(v, states)
  BY DEF In
<1>3. IsFiniteSet(In(v, states))
  BY InIsFinite
<1>4. Cardinality(In(v, states) \ {c}) = Cardinality(In(v, states)) - 1
  BY <1>2, <1>3, FS_RemoveElement
<1>5. \A w \in Server \ {v} : In(w, states)' = In(w, states)
  BY DEF ConnectionsOK, In
<1> QED
  BY <1>1, <1>4, <1>5

\* A move between states that are both in a set, or both not, changes nothing.
LEMMA Stays ==
  ASSUME ConnectionsOK, NEW v \in Server, NEW c \in Client, NEW to, NEW states,
         client' = [client EXCEPT ![v][c] = to],
         to \in states <=> client[v][c] \in states
  PROVE  \A w \in Server : In(w, states)' = In(w, states)
BY DEF ConnectionsOK, In

\* Who is past the limit check is counted.
LEMMA AdmittedAreCounted ==
  ASSUME NEW v
  PROVE  Cardinality(In(v, AdmittedStates)) <= Cardinality(In(v, CountedStates))
<1>1. In(v, AdmittedStates) \subseteq In(v, CountedStates)
  BY DEF In, AdmittedStates, CountedStates
<1> QED
  BY <1>1, InIsFinite, FS_Subset

-----------------------------------------------------------------------------
(* The invariant.                                                          *)

LEMMA InitialCounters == Init => IInv
<1> SUFFICES ASSUME Init PROVE IInv
  OBVIOUS
<1>1. ConnectionsOK
  BY DEF Init, ConnectionsOK
<1>2. \A v \in Server : In(v, CountedStates) = {} /\ In(v, AdmittedStates) = {}
  BY DEF Init, In, CountedStates, AdmittedStates
<1>3. CountersBalance
  BY <1>2, FS_EmptySet DEF Init, CountersBalance
<1>4. \A v \in Server : Cardinality(In(v, AdmittedStates)) = 0
  <2>1. Cardinality({}) = 0
    BY FS_EmptySet
  <2> QED
    BY <1>2, <2>1
<1>5. ConnectionLimit
  BY <1>4, MetricsAssumption DEF ConnectionLimit
<1> QED
  BY <1>1, <1>3, <1>5 DEF IInv

\* A connection is admitted only if, with all that are counted, it is within
\* the limit: so are those past the check, which are counted.
LEMMA ConnectKeeps ==
  ASSUME IInv, NEW v \in Server, NEW c \in Client, Connect(v, c)
  PROVE  IInv'
<1> USE DEF IInv
<1> DEFINE to == IF WithinLimit(v) THEN "admitted" ELSE "refused"
<1>1. /\ client' = [client EXCEPT ![v][c] = to]
      /\ active' = [active EXCEPT ![v] = @ + 1]
      /\ client[v][c] = "away"
  BY DEF Connect, Moves
<1>2. ConnectionsOK'
  BY <1>1 DEF ConnectionsOK, CountedStates
<1>3. /\ Cardinality(In(v, CountedStates)') = Cardinality(In(v, CountedStates)) + 1
      /\ \A w \in Server \ {v} : In(w, CountedStates)' = In(w, CountedStates)
  <2>1. to \in CountedStates /\ client[v][c] \notin CountedStates
    BY <1>1 DEF CountedStates
  <2> QED
    BY <1>1, <2>1, Joins
<1>4. CountersBalance'
  BY <1>1, <1>3 DEF CountersBalance, ConnectionsOK
<1>5. ConnectionLimit'
  <2>1. CASE WithinLimit(v)
    <3>1. to \in AdmittedStates /\ client[v][c] \notin AdmittedStates
      BY <1>1, <2>1 DEF AdmittedStates
    <3>2. \A w \in Server \ {v} : In(w, AdmittedStates)' = In(w, AdmittedStates)
      BY <1>1, <3>1, Joins
    <3>3. MaxConnections > 0 => active'[v] <= MaxConnections
      BY <1>1, <2>1 DEF WithinLimit, ConnectionsOK
    <3>4. Cardinality(In(v, AdmittedStates)') = Cardinality(In(v, AdmittedStates)) + 1
      BY <1>1, <3>1, Joins
    <3>5. active'[v] = Cardinality(In(v, CountedStates)) + 1
      BY <1>3, <1>4 DEF CountersBalance
    <3>6. Cardinality(In(v, AdmittedStates)') <= active'[v]
      BY <3>4, <3>5, AdmittedAreCounted, InIsFinite
    <3> QED
      BY <3>2, <3>3, <3>4, <3>5, <3>6, InIsFinite, MetricsAssumption DEF ConnectionLimit
  <2>2. CASE ~WithinLimit(v)
    <3>1. to \notin AdmittedStates /\ client[v][c] \notin AdmittedStates
      BY <1>1, <2>2 DEF AdmittedStates
    <3>2. \A w \in Server : In(w, AdmittedStates)' = In(w, AdmittedStates)
      BY <1>1, <3>1, Stays
    <3> QED
      BY <3>2 DEF ConnectionLimit
  <2> QED
    BY <2>1, <2>2
<1> QED
  BY <1>2, <1>4, <1>5

LEMMA IncTotalKeeps ==
  ASSUME IInv, NEW v \in Server, NEW c \in Client, IncTotal(v, c)
  PROVE  IInv'
<1> USE DEF IInv
<1>1. /\ client' = [client EXCEPT ![v][c] = "served"]
      /\ active' = active
      /\ client[v][c] = "admitted"
  BY DEF IncTotal, Moves
<1>2. ConnectionsOK'
  BY <1>1 DEF ConnectionsOK, CountedStates
<1>3. \A w \in Server : /\ In(w, CountedStates)' = In(w, CountedStates)
                        /\ In(w, AdmittedStates)' = In(w, AdmittedStates)
  BY <1>1, Stays DEF CountedStates, AdmittedStates
<1> QED
  BY <1>1, <1>2, <1>3 DEF CountersBalance, ConnectionLimit

LEMMA DisconnectKeeps ==
  ASSUME IInv, NEW v \in Server, NEW c \in Client, Disconnect(v, c)
  PROVE  IInv'
<1> USE DEF IInv
<1>1. /\ client' = [client EXCEPT ![v][c] = "away"]
      /\ active' = [active EXCEPT ![v] = @ - 1]
      /\ client[v][c] \in {"refused", "served"}
  BY DEF Disconnect, Moves
<1>2. ConnectionsOK'
  BY <1>1 DEF ConnectionsOK
<1>3. /\ Cardinality(In(v, CountedStates)') = Cardinality(In(v, CountedStates)) - 1
      /\ \A w \in Server \ {v} : In(w, CountedStates)' = In(w, CountedStates)
  <2>1. "away" \notin CountedStates /\ client[v][c] \in CountedStates
    BY <1>1 DEF CountedStates
  <2> QED
    BY <1>1, <2>1, Leaves
<1>4. CountersBalance'
  BY <1>1, <1>3 DEF CountersBalance, ConnectionsOK
<1>5. ConnectionLimit'
  <2>1. "away" \notin AdmittedStates
    BY DEF AdmittedStates
  <2>2. CASE client[v][c] \in AdmittedStates
    <3>1. /\ Cardinality(In(v, AdmittedStates)') = Cardinality(In(v, AdmittedStates)) - 1
          /\ \A w \in Server \ {v} : In(w, AdmittedStates)' = In(w, AdmittedStates)
      BY <1>1, <2>1, <2>2, Leaves
    <3> QED
      BY <3>1, InIsFinite, MetricsAssumption DEF ConnectionLimit
  <2>3. CASE client[v][c] \notin AdmittedStates
    <3>1. \A w \in Server : In(w, AdmittedStates)' = In(w, AdmittedStates)
      BY <1>1, <2>1, <2>3, Stays
    <3> QED
      BY <3>1 DEF ConnectionLimit
  <2> QED
    BY <2>2, <2>3
<1> QED
  BY <1>2, <1>4, <1>5

\* The heartbeat only reads.
LEMMA ReadingKeeps ==
  ASSUME IInv, UNCHANGED connections
  PROVE  IInv'
BY DEF IInv, connections, ConnectionsOK, CountersBalance, ConnectionLimit, In

LEMMA CountersStep == IInv /\ [Next]_vars => IInv'
<1> SUFFICES ASSUME IInv, [Next]_vars PROVE IInv'
  OBVIOUS
<1>1. ASSUME NEW v \in Server, NEW c \in Client, Connect(v, c) PROVE IInv'
  BY <1>1, ConnectKeeps
<1>2. ASSUME NEW v \in Server, NEW c \in Client, IncTotal(v, c) PROVE IInv'
  BY <1>2, IncTotalKeeps
<1>3. ASSUME NEW v \in Server, NEW c \in Client, Disconnect(v, c) PROVE IInv'
  BY <1>3, DisconnectKeeps
<1>4. CASE BeginSample
  BY <1>4, ReadingKeeps DEF BeginSample
<1>5. CASE LoadActive
  BY <1>5, ReadingKeeps DEF LoadActive
<1>6. CASE LoadTotal
  BY <1>6, ReadingKeeps DEF LoadTotal
<1>7. CASE WriteRunning
  BY <1>7, ReadingKeeps DEF WriteRunning
<1>8. CASE UNCHANGED vars
  BY <1>8, ReadingKeeps DEF vars
<1> QED
  BY <1>1, <1>2, <1>3, <1>4, <1>5, <1>6, <1>7, <1>8 DEF Next

\* conn_metrics.go: every connection gives back what it took, and a refused
\* one does so too.
THEOREM CountersNeverDrift == Spec => []CountersBalance
<1>1. IInv => CountersBalance
  BY DEF IInv
<1> QED
  BY <1>1, InitialCounters, CountersStep, PTL DEF Spec

\* ftpserver/server.go:136, sftpserver/server.go:246: the check is made on the
\* result of IncActive, so that no burst passes the limit.
THEOREM LimitHolds == Spec => []ConnectionLimit
<1>1. IInv => ConnectionLimit
  BY DEF IInv
<1> QED
  BY <1>1, InitialCounters, CountersStep, PTL DEF Spec
-----------------------------------------------------------------------------
(* What the heartbeat reads.                                               *)

\* A served connection is in its server's total; one that left stays in it.
TotalsOK ==
  /\ total \in [Server -> Nat]
  /\ \A v \in Server : Cardinality(In(v, {"served"})) <= total[v]

HeartbeatOK ==
  /\ sampling \in {"none", "active", "total", "write"}
  /\ next \in DOMAIN Providers
  /\ sample \in [active : Int, total : Int]
  /\ reported \in [active : Int, total : Int]
  /\ floor \in Int
  /\ unadmitted \in Int

\* What the totals of the providers already passed, and of the others, are now.
Passed == Sums(total)[next - 1]
Ahead == TrueTotal - Passed

\* While the active connections are read, those read so far are covered by the
\* totals of their own servers.
ReadingActive ==
  /\ sample.total = 0
  /\ floor <= TrueTotal
  /\ sample.active <= unadmitted + Passed

\* While the totals are read, what is still ahead covers what is missing.
ReadingTotal ==
  /\ sample.total <= Passed
  /\ floor <= sample.total + Ahead
  /\ sample.active <= unadmitted + sample.total + Ahead

\* The report that is out is no larger than what this reading began with.
ReportOK ==
  /\ reported.total <= TrueTotal
  /\ sampling # "none" => reported.total <= floor

SampleInv ==
  /\ TotalsOK
  /\ HeartbeatOK
  /\ sampling = "active" => ReadingActive
  /\ sampling = "total" => ReadingTotal
  /\ TotalWasTrue
  /\ ActiveIsInTotal
  /\ ReportOK


LEMMA ProvidersFacts ==
  /\ Len(Providers) \in Nat /\ Len(Providers) > 0
  /\ DOMAIN Providers = 1 .. Len(Providers)
  /\ \A n \in DOMAIN Providers : Providers[n] \in Server
<1>1. Len(Providers) \in Nat /\ DOMAIN Providers = 1 .. Len(Providers)
  BY MetricsAssumption
<1>2. Len(Providers) > 0
  BY <1>1, MetricsAssumption
<1>3. \A n \in DOMAIN Providers : Providers[n] \in Server
  BY DEF Server
<1> QED
  BY <1>1, <1>2, <1>3

LEMMA PassedType ==
  ASSUME total \in [Server -> Nat], next \in DOMAIN Providers
  PROVE  Passed \in Nat /\ TrueTotal \in Nat
<1>1. next - 1 \in 0 .. Len(Providers) /\ Len(Providers) \in 0 .. Len(Providers)
  BY ProvidersFacts
<1>2. \A n \in 0 .. Len(Providers) : Sums(total)[n] \in Nat
  BY SumsType
<1> QED
  BY <1>1, <1>2 DEF Passed, TrueTotal

\* The passed ones are none at first, one more after a load, and all after the
\* last.
LEMMA PassedIsSum ==
  ASSUME next \in DOMAIN Providers
  PROVE  /\ next = 1 => Passed = 0
         /\ Sums(total)[next] = Passed + total[Providers[next]]
         /\ next = Len(Providers) => Sums(total)[next] = TrueTotal
<1>1. Sums(total)[0] = 0
  BY SumsUnfold
<1>2. Sums(total)[next] = Sums(total)[next - 1] + total[Providers[next]]
  BY SumsUnfold
<1> QED
  BY <1>1, <1>2 DEF Passed, TrueTotal

LEMMA PrimedSums ==
  /\ TrueTotal' = Sums(total')[Len(Providers)]
  /\ Passed' = Sums(total')[next' - 1]
<1>1. TrueTotal' = Sums(total')[Len(Providers)]
  BY DEF TrueTotal, Sums
<1>2. Passed' = Sums(total')[next' - 1]
  BY DEF Passed, Sums
<1> QED
  BY <1>1, <1>2

LEMMA InitialSample == Init => SampleInv
<1> SUFFICES ASSUME Init PROVE SampleInv
  OBVIOUS
<1>1. TotalsOK
  <2>1. \A v \in Server : In(v, {"served"}) = {}
    BY DEF Init, In
  <2>2. Cardinality({}) = 0
    BY FS_EmptySet
  <2>3. total \in [Server -> Nat] /\ \A v \in Server : total[v] = 0
    BY DEF Init
  <2> QED
    BY <2>1, <2>2, <2>3 DEF TotalsOK
<1>2. HeartbeatOK
  BY ProvidersFacts DEF Init, HeartbeatOK
<1>3. TrueTotal \in Nat
  BY <1>1, <1>2, PassedType DEF TotalsOK, HeartbeatOK
<1> QED
  BY <1>1, <1>2, <1>3 DEF Init, SampleInv, TotalWasTrue, ActiveIsInTotal, ReportOK

-----------------------------------------------------------------------------
(* The servers, under the heartbeat: the totals only grow.                 *)

\* What holds of a reading goes on to hold when no total falls.
LEMMA GrowthKeeps ==
  ASSUME SampleInv, UNCHANGED heartbeat, TotalsOK',
         \A v \in Server : total[v] <= total'[v]
  PROVE  SampleInv'
<1>1. /\ sampling' = sampling /\ next' = next /\ sample' = sample
      /\ reported' = reported /\ floor' = floor /\ unadmitted' = unadmitted
  BY DEF heartbeat
<1>2. TotalsOK /\ HeartbeatOK
  BY DEF SampleInv
<1>3. HeartbeatOK'
  BY <1>1, <1>2 DEF HeartbeatOK
<1>4. total \in [Server -> Nat] /\ total' \in [Server -> Nat]
  BY <1>2 DEF TotalsOK
<1>5. Passed \in Nat /\ TrueTotal \in Nat
  BY <1>2, PassedType DEF TotalsOK, HeartbeatOK
<1>6. Passed' \in Nat /\ TrueTotal' \in Nat
  <2>1. next' - 1 \in 0 .. Len(Providers) /\ Len(Providers) \in 0 .. Len(Providers)
    BY <1>3, ProvidersFacts DEF HeartbeatOK
  <2>2. \A n \in 0 .. Len(Providers) : Sums(total')[n] \in Nat
    BY <1>4, SumsType
  <2> QED
    BY <2>1, <2>2, PrimedSums
<1>7. Passed <= Passed' /\ TrueTotal <= TrueTotal'
  <2>1. \A n \in 0 .. Len(Providers) :
          Sums(total)[n] - Sums(total)[0] <= Sums(total')[n] - Sums(total')[0]
    <3>1. 0 \in 0 .. Len(Providers)
      BY ProvidersFacts
    <3> QED
      BY <1>4, <3>1, SumsGrow
  <2>2. Sums(total)[0] = 0 /\ Sums(total')[0] = 0
    BY SumsUnfold
  <2>3. next - 1 \in 0 .. Len(Providers) /\ Len(Providers) \in 0 .. Len(Providers)
    BY <1>2, ProvidersFacts DEF HeartbeatOK
  <2>4. /\ Passed = Sums(total)[next - 1] /\ Passed' = Sums(total')[next - 1]
        /\ TrueTotal = Sums(total)[Len(Providers)]
        /\ TrueTotal' = Sums(total')[Len(Providers)]
    BY <1>1, PrimedSums DEF Passed, TrueTotal
  <2>5. /\ Passed - 0 <= Passed' - 0
        /\ TrueTotal - 0 <= TrueTotal' - 0
    BY <2>1, <2>2, <2>3, <2>4
  <2>6. \A a, b \in Nat : a - 0 <= b - 0 => a <= b
    OBVIOUS
  <2> QED
    BY <1>5, <1>6, <2>5, <2>6
<1>8. Ahead <= Ahead'
  <2> DEFINE m == next - 1
             N == Len(Providers)
  <2>1. m \in 0 .. N /\ N \in m .. N
    BY <1>2, ProvidersFacts DEF HeartbeatOK
  <2>2. Sums(total)[N] - Sums(total)[m] <= Sums(total')[N] - Sums(total')[m]
    <3> HIDE DEF m
    <3>1. \A n \in m .. Len(Providers) :
            Sums(total)[n] - Sums(total)[m] <= Sums(total')[n] - Sums(total')[m]
      BY <1>4, <2>1, SumsGrow
    <3> QED
      BY <2>1, <3>1
  <2>3. /\ Ahead = Sums(total)[N] - Sums(total)[m]
        /\ Ahead' = Sums(total')[N] - Sums(total')[m]
    BY <1>1, PrimedSums DEF Ahead, Passed, TrueTotal
  <2> QED
    BY <2>2, <2>3
<1>9. Ahead = TrueTotal - Passed /\ Ahead' = TrueTotal' - Passed'
  BY DEF Ahead
<1>10. /\ sample.active \in Int /\ sample.total \in Int /\ reported.total \in Int
       /\ floor \in Int /\ unadmitted \in Int
  BY <1>2 DEF HeartbeatOK
<1>11. sampling = "active" => ReadingActive'
  BY <1>1, <1>5, <1>6, <1>7, <1>10 DEF SampleInv, ReadingActive
<1>12. ASSUME sampling = "total" PROVE ReadingTotal'
  <2>1. /\ sample.total <= Passed
        /\ floor <= sample.total + Ahead
        /\ sample.active <= unadmitted + sample.total + Ahead
    BY <1>12 DEF SampleInv, ReadingTotal
  <2>2. Ahead \in Int /\ Ahead' \in Int
    BY <1>5, <1>6, <1>9
  <2>3. \A a, p, q \in Int : a <= p /\ p <= q => a <= q
    OBVIOUS
  <2>4. \A f, s, a, b \in Int : f <= s + a /\ a <= b => f <= s + b
    OBVIOUS
  <2>5. sample.total <= Passed'
    BY <1>5, <1>6, <1>7, <1>10, <2>1, <2>3
  <2>6. floor <= sample.total + Ahead'
    BY <1>8, <1>10, <2>1, <2>2, <2>4
  <2>7. sample.active <= unadmitted + sample.total + Ahead'
    <3>1. unadmitted + sample.total \in Int
      BY <1>10
    <3> QED
      BY <1>8, <1>10, <2>1, <2>2, <2>4, <3>1
  <2> QED
    BY <1>1, <2>5, <2>6, <2>7 DEF ReadingTotal
<1>13. TotalWasTrue' /\ ActiveIsInTotal' /\ ReportOK'
  BY <1>1, <1>5, <1>6, <1>7, <1>10 DEF SampleInv, TotalWasTrue, ActiveIsInTotal, ReportOK
<1> QED
  BY <1>1, <1>3, <1>11, <1>12, <1>13 DEF SampleInv

LEMMA ConnectKeepsSample ==
  ASSUME IInv, SampleInv, NEW v \in Server, NEW c \in Client, Connect(v, c)
  PROVE  SampleInv'
<1> DEFINE to == IF WithinLimit(v) THEN "admitted" ELSE "refused"
<1>1. /\ client' = [client EXCEPT ![v][c] = to] /\ client[v][c] = "away"
      /\ total' = total /\ UNCHANGED heartbeat
  BY DEF Connect, Moves
<1>2. to \in {"served"} <=> client[v][c] \in {"served"}
  BY <1>1
<1>3. \A w \in Server : In(w, {"served"})' = In(w, {"served"})
  BY <1>1, <1>2, Stays DEF IInv
<1>4. TotalsOK'
  BY <1>1, <1>3 DEF SampleInv, TotalsOK
<1> QED
  BY <1>1, <1>4, GrowthKeeps DEF SampleInv, TotalsOK

LEMMA IncTotalKeepsSample ==
  ASSUME IInv, SampleInv, NEW v \in Server, NEW c \in Client, IncTotal(v, c)
  PROVE  SampleInv'
<1>1. /\ client' = [client EXCEPT ![v][c] = "served"] /\ client[v][c] = "admitted"
      /\ total' = [total EXCEPT ![v] = @ + 1] /\ UNCHANGED heartbeat
  BY DEF IncTotal, Moves
<1>2. "served" \in {"served"} /\ client[v][c] \notin {"served"}
  BY <1>1
<1>3. Cardinality(In(v, {"served"})') = Cardinality(In(v, {"served"})) + 1
  BY <1>1, <1>2, Joins DEF IInv
<1>4. \A w \in Server \ {v} : In(w, {"served"})' = In(w, {"served"})
  BY <1>1, <1>2, Joins DEF IInv
<1>5. total \in [Server -> Nat] /\ total' \in [Server -> Nat]
  BY <1>1 DEF SampleInv, TotalsOK
<1>6. \A w \in Server : total[w] <= total'[w]
  BY <1>1, <1>5
<1>7. TotalsOK'
  <2> SUFFICES ASSUME NEW w \in Server
               PROVE  Cardinality(In(w, {"served"})') <= total'[w]
    BY <1>5 DEF TotalsOK
  <2>1. CASE w = v
    BY <1>1, <1>3, <1>5, <2>1, InIsFinite DEF SampleInv, TotalsOK
  <2>2. CASE w # v
    BY <1>1, <1>4, <1>5, <2>2 DEF SampleInv, TotalsOK
  <2> QED
    BY <2>1, <2>2
<1> QED
  BY <1>1, <1>6, <1>7, GrowthKeeps

LEMMA DisconnectKeepsSample ==
  ASSUME IInv, SampleInv, NEW v \in Server, NEW c \in Client, Disconnect(v, c)
  PROVE  SampleInv'
<1>1. /\ client' = [client EXCEPT ![v][c] = "away"]
      /\ client[v][c] \in {"refused", "served"}
      /\ total' = total /\ UNCHANGED heartbeat
  BY DEF Disconnect, Moves
<1>2. total \in [Server -> Nat]
  BY DEF SampleInv, TotalsOK
<1>3. TotalsOK'
  <2>1. CASE client[v][c] = "served"
    <3>1. "away" \notin {"served"} /\ client[v][c] \in {"served"}
      BY <2>1
    <3>2. Cardinality(In(v, {"served"})') = Cardinality(In(v, {"served"})) - 1
      BY <1>1, <3>1, Leaves DEF IInv
    <3>3. \A w \in Server \ {v} : In(w, {"served"})' = In(w, {"served"})
      BY <1>1, <3>1, Leaves DEF IInv
    <3> QED
      BY <1>1, <1>2, <3>2, <3>3, InIsFinite DEF SampleInv, TotalsOK
  <2>2. CASE client[v][c] # "served"
    <3>1. "away" \in {"served"} <=> client[v][c] \in {"served"}
      BY <2>2
    <3>2. \A w \in Server : In(w, {"served"})' = In(w, {"served"})
      BY <1>1, <3>1, Stays DEF IInv
    <3> QED
      BY <1>1, <3>2 DEF SampleInv, TotalsOK
  <2> QED
    BY <2>1, <2>2
<1> QED
  BY <1>1, <1>2, <1>3, GrowthKeeps

-----------------------------------------------------------------------------
(* The heartbeat.                                                          *)

\* It changes no counter, and whatever it passed stays passed.
LEMMA ReadingTotals ==
  ASSUME SampleInv, UNCHANGED connections
  PROVE  /\ TotalsOK'
         /\ TrueTotal' = TrueTotal
         /\ Passed' = Sums(total)[next' - 1]
         /\ Passed \in Nat /\ TrueTotal \in Nat
<1>1. client' = client /\ total' = total
  BY DEF connections
<1>2. TotalsOK'
  BY <1>1 DEF SampleInv, TotalsOK, In
<1>3. TrueTotal' = TrueTotal
  BY <1>1, PrimedSums DEF TrueTotal
<1>4. Passed' = Sums(total)[next' - 1]
  BY <1>1, PrimedSums
<1>5. Passed \in Nat /\ TrueTotal \in Nat
  BY PassedType DEF SampleInv, TotalsOK, HeartbeatOK
<1> QED
  BY <1>2, <1>3, <1>4, <1>5

LEMMA BeginSampleKeeps ==
  ASSUME SampleInv, BeginSample
  PROVE  SampleInv'
<1>1. /\ sampling' = "active" /\ next' = 1 /\ sample' = [active |-> 0, total |-> 0]
      /\ floor' = TrueTotal /\ unadmitted' = 0 /\ reported' = reported
      /\ UNCHANGED connections
  BY DEF BeginSample, Fields
<1>2. /\ TotalsOK' /\ TrueTotal' = TrueTotal /\ Passed' = Sums(total)[1 - 1]
      /\ TrueTotal \in Nat
  BY <1>1, ReadingTotals
<1>3. Passed' = 0
  BY <1>2, SumsUnfold
<1>4. HeartbeatOK'
  BY <1>1, <1>2, ProvidersFacts DEF SampleInv, HeartbeatOK
<1>5. ReadingActive'
  BY <1>1, <1>2, <1>3 DEF ReadingActive
<1>6. ReportOK'
  BY <1>1, <1>2 DEF SampleInv, ReportOK
<1> QED
  BY <1>1, <1>2, <1>4, <1>5, <1>6 DEF SampleInv, TotalWasTrue, ActiveIsInTotal

\* A server has no more connections than it has served, refused or is admitting.
LEMMA ActiveIsCovered ==
  ASSUME IInv, SampleInv, NEW v \in Server
  PROVE  /\ active[v] \in Nat
         /\ Cardinality(In(v, CountedStates \ {"served"})) \in Nat
         /\ active[v] <= Cardinality(In(v, CountedStates \ {"served"})) + total[v]
<1> DEFINE served == In(v, {"served"})
           rest == In(v, CountedStates \ {"served"})
<1>1. In(v, CountedStates) = served \union rest /\ served \intersect rest = {}
  BY DEF In, CountedStates
<1>2. /\ IsFiniteSet(served) /\ Cardinality(served) \in Nat
      /\ IsFiniteSet(rest) /\ Cardinality(rest) \in Nat
  BY InIsFinite
<1> HIDE DEF served, rest
<1>3. Cardinality(served \union rest)
        = Cardinality(served) + Cardinality(rest) - Cardinality(served \intersect rest)
  BY <1>2, FS_Union
<1>4. Cardinality(served \intersect rest) = 0
  BY <1>1, FS_EmptySet
<1>5. active[v] = Cardinality(served) + Cardinality(rest)
  <2>1. active[v] = Cardinality(In(v, CountedStates))
    BY DEF IInv, CountersBalance
  <2> QED
    BY <1>1, <1>2, <1>3, <1>4, <2>1
<1>6. Cardinality(served) <= total[v] /\ total[v] \in Nat
  BY DEF SampleInv, TotalsOK, served
<1>7. active[v] <= Cardinality(rest) + total[v]
  BY <1>2, <1>5, <1>6
<1> QED
  BY <1>2, <1>5, <1>7 DEF rest

\* Past the provider that was read, or past the last one and back to the first.
LEMMA NextProvider ==
  ASSUME SampleInv, UNCHANGED connections, LoadNext
  PROVE  LET v == Providers[next] IN
         /\ v \in Server /\ total[v] \in Nat
         /\ next' \in DOMAIN Providers
         /\ \/ sampling' = sampling /\ Passed' = Passed + total[v]
            \/ /\ sampling' = IF sampling = "active" THEN "total" ELSE "write"
               /\ Passed' = 0
               /\ TrueTotal = Passed + total[v]
<1> DEFINE v == Providers[next]
<1>1. /\ next \in DOMAIN Providers
      /\ v \in Server /\ total[v] \in Nat
  BY ProvidersFacts DEF SampleInv, HeartbeatOK, TotalsOK
<1>2. Passed' = Sums(total)[next' - 1]
  BY ReadingTotals
<1>3. /\ Sums(total)[next] = Passed + total[v]
      /\ next = Len(Providers) => Sums(total)[next] = TrueTotal
  BY <1>1, PassedIsSum
<1>4. CASE next < Len(Providers)
  <2>1. next' = next + 1 /\ sampling' = sampling
    BY <1>4 DEF LoadNext
  <2>2. next' \in DOMAIN Providers /\ next' - 1 = next
    BY <1>1, <1>4, <2>1, ProvidersFacts
  <2> QED
    BY <1>1, <1>2, <1>3, <2>1, <2>2
<1>5. CASE ~(next < Len(Providers))
  <2>1. next' = 1 /\ sampling' = IF sampling = "active" THEN "total" ELSE "write"
    BY <1>5 DEF LoadNext, Fields
  <2>2. next = Len(Providers) /\ next' \in DOMAIN Providers /\ next' - 1 = 0
    BY <1>1, <1>5, <2>1, ProvidersFacts
  <2>3. Passed' = 0
    BY <1>2, <2>2, SumsUnfold
  <2> QED
    BY <1>1, <1>3, <2>1, <2>2, <2>3
<1> QED
  BY <1>4, <1>5

LEMMA LoadActiveKeeps ==
  ASSUME IInv, SampleInv, LoadActive
  PROVE  SampleInv'
<1> DEFINE v == Providers[next]
           late == Cardinality(In(v, CountedStates \ {"served"}))
<1>1. /\ sampling = "active" /\ LoadNext /\ UNCHANGED connections
      /\ sample' = [sample EXCEPT !.active = @ + active[v]]
      /\ unadmitted' = unadmitted + late
      /\ reported' = reported /\ floor' = floor
  BY DEF LoadActive
<1>2. /\ v \in Server /\ total[v] \in Nat
      /\ next' \in DOMAIN Providers
      /\ \/ sampling' = "active" /\ Passed' = Passed + total[v]
         \/ sampling' = "total" /\ Passed' = 0 /\ TrueTotal = Passed + total[v]
  BY <1>1, NextProvider
<1>3. active[v] \in Nat /\ late \in Nat /\ active[v] <= late + total[v]
  BY <1>2, ActiveIsCovered
<1> HIDE DEF v, late
<1>4. TotalsOK' /\ TrueTotal' = TrueTotal /\ Passed \in Nat /\ TrueTotal \in Nat
  BY <1>1, ReadingTotals
<1>5. /\ sample \in [active : Int, total : Int] /\ floor \in Int /\ unadmitted \in Int
      /\ reported \in [active : Int, total : Int]
  BY DEF SampleInv, HeartbeatOK
<1>6. /\ sample'.active = sample.active + active[v] /\ sample'.total = sample.total
      /\ sample' \in [active : Int, total : Int]
  BY <1>1, <1>3, <1>5
<1>7. HeartbeatOK'
  BY <1>1, <1>2, <1>3, <1>5, <1>6 DEF HeartbeatOK
<1>8. /\ sample.total = 0 /\ floor <= TrueTotal
      /\ sample.active <= unadmitted + Passed
  BY <1>1 DEF SampleInv, ReadingActive
<1>9. sample'.active <= unadmitted' + (Passed + total[v])
  <2>1. \A a, u, p, b, l, t \in Int : a <= u + p /\ b <= l + t => a + b <= (u + l) + (p + t)
    OBVIOUS
  <2>2. /\ sample.active \in Int /\ unadmitted \in Int /\ Passed \in Int
        /\ active[v] \in Int /\ late \in Int /\ total[v] \in Int
    BY <1>2, <1>3, <1>4, <1>5
  <2>3. sample.active + active[v] <= (unadmitted + late) + (Passed + total[v])
    BY <1>3, <1>8, <2>1, <2>2
  <2> QED
    BY <1>1, <1>6, <2>3
<1>10. CASE sampling' = "active" /\ Passed' = Passed + total[v]
  <2>1. ReadingActive'
    BY <1>1, <1>4, <1>6, <1>8, <1>9, <1>10 DEF ReadingActive
  <2>2. ReportOK'
    BY <1>1, <1>4, <1>10 DEF SampleInv, ReportOK
  <2> QED
    BY <1>4, <1>7, <1>10, <2>1, <2>2 DEF SampleInv, TotalWasTrue, ActiveIsInTotal
<1>11. CASE sampling' = "total" /\ Passed' = 0 /\ TrueTotal = Passed + total[v]
  <2>1. Ahead' = TrueTotal
    BY <1>4, <1>11 DEF Ahead
  <2>2. sample'.total = 0 /\ floor' <= TrueTotal /\ sample'.active <= unadmitted' + TrueTotal
    BY <1>1, <1>6, <1>8, <1>9, <1>11
  <2>3. unadmitted' \in Int
    BY <1>7 DEF HeartbeatOK
  <2>4. ReadingTotal'
    BY <1>4, <1>11, <2>1, <2>2, <2>3 DEF ReadingTotal
  <2>5. ReportOK'
    BY <1>1, <1>4, <1>11 DEF SampleInv, ReportOK
  <2> QED
    BY <1>4, <1>7, <1>11, <2>4, <2>5 DEF SampleInv, TotalWasTrue, ActiveIsInTotal
<1> QED
  BY <1>2, <1>10, <1>11

LEMMA LoadTotalKeeps ==
  ASSUME SampleInv, LoadTotal
  PROVE  SampleInv'
<1> DEFINE v == Providers[next]
<1>1. /\ sampling = "total" /\ LoadNext /\ UNCHANGED connections
      /\ sample' = [sample EXCEPT !.total = @ + total[v]]
      /\ reported' = reported /\ floor' = floor /\ unadmitted' = unadmitted
  BY DEF LoadTotal
<1>2. /\ total[v] \in Nat
      /\ next' \in DOMAIN Providers
      /\ \/ sampling' = "total" /\ Passed' = Passed + total[v]
         \/ sampling' = "write" /\ TrueTotal = Passed + total[v]
  BY <1>1, NextProvider
<1> HIDE DEF v
<1>3. TotalsOK' /\ TrueTotal' = TrueTotal /\ Passed \in Nat /\ TrueTotal \in Nat
  BY <1>1, ReadingTotals
<1>4. /\ sample \in [active : Int, total : Int] /\ floor \in Int /\ unadmitted \in Int
      /\ reported \in [active : Int, total : Int]
  BY DEF SampleInv, HeartbeatOK
<1>5. /\ sample'.active = sample.active /\ sample'.total = sample.total + total[v]
      /\ sample' \in [active : Int, total : Int]
  BY <1>1, <1>2, <1>4
<1>6. HeartbeatOK'
  BY <1>1, <1>2, <1>4, <1>5 DEF HeartbeatOK
<1>7. /\ sample.total <= Passed
      /\ floor <= sample.total + (TrueTotal - Passed)
      /\ sample.active <= unadmitted + sample.total + (TrueTotal - Passed)
  BY <1>1 DEF SampleInv, ReadingTotal, Ahead
<1>8. /\ sample'.total <= Passed + total[v]
      /\ floor' <= sample'.total + (TrueTotal - (Passed + total[v]))
      /\ sample'.active <= unadmitted' + sample'.total + (TrueTotal - (Passed + total[v]))
  <2>1. /\ sample.active \in Int /\ sample.total \in Int
    BY <1>4
  <2>2. \A s, p, t \in Int : s <= p => s + t <= p + t
    OBVIOUS
  <2>3. \A f, s, T, p, t \in Int : f <= s + (T - p) => f <= (s + t) + (T - (p + t))
    OBVIOUS
  <2>4. \A a, u, s, T, p, t \in Int :
          a <= u + s + (T - p) => a <= u + (s + t) + (T - (p + t))
    OBVIOUS
  <2>5. sample'.total <= Passed + total[v]
    BY <1>2, <1>3, <1>5, <1>7, <2>1, <2>2
  <2>6. floor' <= sample'.total + (TrueTotal - (Passed + total[v]))
    BY <1>1, <1>2, <1>3, <1>4, <1>5, <1>7, <2>1, <2>3
  <2>7. sample'.active <= unadmitted' + sample'.total + (TrueTotal - (Passed + total[v]))
    <3>1. /\ unadmitted \in Int /\ TrueTotal \in Int /\ Passed \in Int /\ total[v] \in Int
      BY <1>2, <1>3, <1>4
    <3>2. sample.active
            <= unadmitted + (sample.total + total[v]) + (TrueTotal - (Passed + total[v]))
      BY <1>7, <2>1, <2>4, <3>1
    <3> QED
      BY <1>1, <1>5, <3>2
  <2> QED
    BY <2>5, <2>6, <2>7
<1>9. CASE sampling' = "total" /\ Passed' = Passed + total[v]
  <2>1. Ahead' = TrueTotal - (Passed + total[v])
    BY <1>3, <1>9 DEF Ahead
  <2>2. ReadingTotal'
    BY <1>8, <1>9, <2>1 DEF ReadingTotal
  <2>3. ReportOK'
    BY <1>1, <1>3, <1>9 DEF SampleInv, ReportOK
  <2> QED
    BY <1>3, <1>6, <1>9, <2>2, <2>3 DEF SampleInv, TotalWasTrue, ActiveIsInTotal
<1>10. CASE sampling' = "write" /\ TrueTotal = Passed + total[v]
  <2>1. TrueTotal - (Passed + total[v]) = 0
    BY <1>3, <1>10
  <2>2. /\ floor' \in Int /\ unadmitted' \in Int
        /\ sample'.total \in Int /\ sample'.active \in Int
    BY <1>6 DEF HeartbeatOK
  <2>3. TotalWasTrue' /\ ActiveIsInTotal'
    <3>1. \A f, s \in Int : f <= s + 0 => f <= s
      OBVIOUS
    <3>2. floor' <= sample'.total
      BY <1>8, <2>1, <2>2, <3>1
    <3>3. unadmitted' + sample'.total \in Int
      BY <2>2
    <3>4. sample'.active <= unadmitted' + sample'.total
      BY <1>8, <2>1, <2>2, <3>1, <3>3
    <3>5. sample'.active <= sample'.total + unadmitted'
      BY <2>2, <3>4
    <3>6. sample'.total <= TrueTotal'
      BY <1>3, <1>8, <1>10
    <3> QED
      BY <3>2, <3>5, <3>6 DEF TotalWasTrue, ActiveIsInTotal
  <2>4. ReportOK'
    BY <1>1, <1>3, <1>10 DEF SampleInv, ReportOK
  <2> QED
    BY <1>3, <1>6, <1>10, <2>3, <2>4 DEF SampleInv
<1> QED
  BY <1>2, <1>9, <1>10

\* What is written lies where the reading says.
LEMMA WriteRunningKeeps ==
  ASSUME SampleInv, WriteRunning
  PROVE  SampleInv'
<1>1. /\ sampling = "write" /\ sampling' = "none" /\ reported' \in {reported, sample}
      /\ next' = next /\ sample' = sample /\ floor' = floor
      /\ unadmitted' = unadmitted /\ UNCHANGED connections
  BY DEF WriteRunning
<1>2. TotalsOK' /\ TrueTotal' = TrueTotal
  BY <1>1, ReadingTotals
<1>3. HeartbeatOK'
  BY <1>1 DEF SampleInv, HeartbeatOK
<1>4. ReportOK'
  BY <1>1, <1>2 DEF SampleInv, ReportOK, TotalWasTrue
<1> QED
  BY <1>1, <1>2, <1>3, <1>4 DEF SampleInv, TotalWasTrue, ActiveIsInTotal

LEMMA SampleStep == IInv /\ SampleInv /\ [Next]_vars => SampleInv'
<1> SUFFICES ASSUME IInv, SampleInv, [Next]_vars PROVE SampleInv'
  OBVIOUS
<1>1. ASSUME NEW v \in Server, NEW c \in Client, Connect(v, c) PROVE SampleInv'
  BY <1>1, ConnectKeepsSample
<1>2. ASSUME NEW v \in Server, NEW c \in Client, IncTotal(v, c) PROVE SampleInv'
  BY <1>2, IncTotalKeepsSample
<1>3. ASSUME NEW v \in Server, NEW c \in Client, Disconnect(v, c) PROVE SampleInv'
  BY <1>3, DisconnectKeepsSample
<1>4. CASE UNCHANGED vars
  <2>1. UNCHANGED heartbeat /\ client' = client /\ total' = total
    BY <1>4 DEF vars, connections
  <2>2. TotalsOK'
    BY <2>1 DEF SampleInv, TotalsOK, In
  <2>3. \A v \in Server : total[v] <= total'[v]
    BY <2>1 DEF SampleInv, TotalsOK
  <2> QED
    BY <2>1, <2>2, <2>3, GrowthKeeps
<1> QED
  BY <1>1, <1>2, <1>3, <1>4, BeginSampleKeeps, LoadActiveKeeps, LoadTotalKeeps,
     WriteRunningKeeps DEF Next

LEMMA SampleInvariant == Spec => [](IInv /\ SampleInv)
<1>1. IInv /\ SampleInv /\ [Next]_vars => (IInv /\ SampleInv)'
  BY CountersStep, SampleStep
<1>2. Init => IInv /\ SampleInv
  BY InitialCounters, InitialSample
<1> QED
  BY <1>1, <1>2, PTL DEF Spec

\* multi_provider.go: the total is added up one load after another while
\* connections come, and still lies between the true totals at the two ends of
\* the reading, for any number of servers and clients.
THEOREM TotalWasTrueAlways == Spec => []TotalWasTrue
<1>1. SampleInv => TotalWasTrue
  BY DEF SampleInv
<1> QED
  BY <1>1, SampleInvariant, PTL

\* writer.go: the active connections are read first, so that the total covers
\* them but for those that were refused or not yet admitted when counted.
THEOREM ActiveIsInTotalAlways == Spec => []ActiveIsInTotal
<1>1. SampleInv => ActiveIsInTotal
  BY DEF SampleInv
<1> QED
  BY <1>1, SampleInvariant, PTL

\* The total in "running" never falls from one report to the next, though no
\* two counters are ever read at once and a report may fail to be written.
ReportsGrow == [][reported.total <= reported'.total]_reported

THEOREM ReportsNeverFall == Spec => ReportsGrow
<1>1. SampleInv /\ [Next]_vars => [reported.total <= reported'.total]_reported
  <2> SUFFICES ASSUME SampleInv, [Next]_vars, reported' # reported
               PROVE  reported.total <= reported'.total
    OBVIOUS
  <2>1. WriteRunning
    BY DEF Next, vars, heartbeat, Connect, IncTotal, Disconnect, BeginSample, LoadActive,
           LoadTotal
  <2>2. reported' = sample /\ sampling = "write"
    BY <2>1 DEF WriteRunning
  <2>3. reported.total <= floor /\ floor <= sample.total
    BY <2>2 DEF SampleInv, ReportOK, TotalWasTrue
  <2>4. reported.total \in Int /\ floor \in Int /\ sample.total \in Int
    BY DEF SampleInv, HeartbeatOK
  <2> QED
    BY <2>2, <2>3, <2>4
<1>2. Spec => [][reported.total <= reported'.total]_reported
  BY <1>1, SampleInvariant, PTL DEF Spec
<1> QED
  BY <1>2 DEF ReportsGrow
=============================================================================
