------------------------------- MODULE Metrics -------------------------------
(***************************************************************************)
(* The connection counters of pkg/status/conn_metrics.go, of which each     *)
(* server has a pair: how the callbacks of pkg/ftpserver/server.go and      *)
(* handleConn of pkg/sftpserver/server.go keep them while clients come and  *)
(* go, and how the heartbeat adds them up through MultiProvider, one atomic *)
(* load after another, while they change.                                  *)
(***************************************************************************)
EXTENDS Integers, Sequences, FiniteSets

CONSTANTS
  Providers,       \* the servers, in the order main gives them to MultiProvider
  Client,          \* a server's clients; one that has left may come again
  MaxConnections,  \* config.MaxConnections of each server; 0 is unlimited
  MaxTotal         \* bound of the model: connections ever admitted by a server

Server == {Providers[n] : n \in DOMAIN Providers}

ASSUME MetricsAssumption ==
  /\ Providers \in Seq(STRING) /\ Providers # <<>>
  /\ \A m, n \in DOMAIN Providers : Providers[m] = Providers[n] => m = n
  /\ IsFiniteSet(Client)
  /\ MaxConnections \in Nat
  /\ MaxTotal \in Nat

VARIABLES
  client,    \* client[v][c]: where the connection of c to server v is
  active,    \* active[v]: ConnMetrics.active
  total,     \* total[v]: ConnMetrics.total
  sampling,  \* what the heartbeat is reading: "active" or "total", or its step
  next,      \* the provider whose counter it loads next
  sample,    \* the sums so far
  reported,  \* the numbers in the file "running"
  floor,     \* history: the true total when this sample was begun
  unadmitted \* history: connections in the sample's active without an IncTotal

connections == <<client, active, total>>
heartbeat == <<sampling, next, sample, reported, floor, unadmitted>>
vars == <<connections, heartbeat>>

\* Where a connection is that IncActive has counted, and which of these are
\* past the limit check.
CountedStates == {"refused", "admitted", "served"}
AdmittedStates == {"admitted", "served"}

In(v, states) == {c \in Client : client[v][c] \in states}

\* The sums of counter over the first n providers.
Sums(counter) ==
  LET sum[n \in 0 .. Len(Providers)] ==
        IF n = 0 THEN 0 ELSE sum[n - 1] + counter[Providers[n]]
  IN sum

TrueTotal == Sums(total)[Len(Providers)]

Init ==
  /\ client = [v \in Server |-> [c \in Client |-> "away"]]
  /\ active = [v \in Server |-> 0]
  /\ total = [v \in Server |-> 0]
  /\ sampling = "none"
  /\ next = 1
  /\ sample = [active |-> 0, total |-> 0]
  /\ reported = [active |-> 0, total |-> 0]
  /\ floor = 0
  /\ unadmitted = 0

-----------------------------------------------------------------------------
(* The servers.                                                            *)

Moves(v, c, to) == client' = [client EXCEPT ![v][c] = to]

\* Mutant: the number is the one from before IncActive.
WithinLimitBefore(v) == MaxConnections > 0 => active[v] <= MaxConnections

WithinLimit(v) == MaxConnections > 0 => active[v] + 1 <= MaxConnections

\* ClientConnected, handleConn: IncActive, and the limit check on its result.
Connect(v, c) ==
  /\ client[v][c] = "away"
  /\ total[v] + Cardinality(In(v, {"admitted"})) < MaxTotal
  /\ active' = [active EXCEPT ![v] = @ + 1]
  /\ Moves(v, c, IF WithinLimit(v) THEN "admitted" ELSE "refused")
  /\ UNCHANGED <<total, heartbeat>>

\* Only an admitted connection counts toward the total.
IncTotal(v, c) ==
  /\ client[v][c] = "admitted"
  /\ total' = [total EXCEPT ![v] = @ + 1]
  /\ Moves(v, c, "served")
  /\ UNCHANGED <<active, heartbeat>>

\* Mutant: a refused connection has given its count back already.
DisconnectAdmitted(v, c) ==
  /\ client[v][c] \in {"refused", "served"}
  /\ active' = [active EXCEPT ![v] = IF client[v][c] = "refused" THEN @ ELSE @ - 1]
  /\ Moves(v, c, "away")
  /\ UNCHANGED <<total, heartbeat>>

\* ClientDisconnected, which ftpserverlib calls also for a connection that
\* ClientConnected refused; the deferred DecActive of handleConn.
Disconnect(v, c) ==
  /\ client[v][c] \in {"refused", "served"}
  /\ active' = [active EXCEPT ![v] = @ - 1]
  /\ Moves(v, c, "away")
  /\ UNCHANGED <<total, heartbeat>>

-----------------------------------------------------------------------------
(* The heartbeat: writeRunningFile.                                        *)

\* Mutant: the totals are read before the active connections.
FieldsTotalFirst == <<"total", "active">>

\* GetActiveConnections, then GetTotalConnections.
Fields == <<"active", "total">>

BeginSample ==
  /\ sampling = "none"
  /\ sampling' = Fields[1]
  /\ next' = 1
  /\ sample' = [active |-> 0, total |-> 0]
  /\ floor' = TrueTotal
  /\ unadmitted' = 0
  /\ UNCHANGED <<connections, reported>>

\* On to the next provider, or to what comes after the last one.
LoadNext ==
  IF next < Len(Providers)
    THEN next' = next + 1 /\ UNCHANGED sampling
    ELSE next' = 1 /\ sampling' = IF sampling = Fields[1] THEN Fields[2] ELSE "write"

LoadActive ==
  /\ sampling = "active"
  /\ LET v == Providers[next]
     IN /\ sample' = [sample EXCEPT !.active = @ + active[v]]
        /\ unadmitted' = unadmitted + Cardinality(In(v, CountedStates \ {"served"}))
  /\ LoadNext
  /\ UNCHANGED <<connections, reported, floor>>

\* Mutant: the sum begins again with each provider.
LoadTotalOfLast ==
  /\ sampling = "total"
  /\ sample' = [sample EXCEPT !.total = total[Providers[next]]]
  /\ LoadNext
  /\ UNCHANGED <<connections, reported, floor, unadmitted>>

LoadTotal ==
  /\ sampling = "total"
  /\ sample' = [sample EXCEPT !.total = @ + total[Providers[next]]]
  /\ LoadNext
  /\ UNCHANGED <<connections, reported, floor, unadmitted>>

\* The file is replaced, unless that fails.
WriteRunning ==
  /\ sampling = "write"
  /\ sampling' = "none"
  /\ reported' \in {reported, sample}
  /\ UNCHANGED <<connections, next, sample, floor, unadmitted>>

Next ==
  \/ \E v \in Server, c \in Client :
       Connect(v, c) \/ IncTotal(v, c) \/ Disconnect(v, c)
  \/ BeginSample
  \/ LoadActive
  \/ LoadTotal
  \/ WriteRunning

Spec == Init /\ [][Next]_vars

-----------------------------------------------------------------------------
(* Properties.                                                             *)

TypeOK ==
  /\ client \in [Server -> [Client -> {"away"} \union CountedStates]]
  /\ active \in [Server -> Nat]
  /\ total \in [Server -> Nat]
  /\ sampling \in {"none", "active", "total", "write"}
  /\ next \in DOMAIN Providers
  /\ {sample, reported} \subseteq [active : Nat, total : Nat]
  /\ floor \in Nat
  /\ unadmitted \in Nat

\* However many clients connect at once, and while refused ones are still
\* counted, a server never has more than MaxConnections past its limit check.
ConnectionLimit ==
  MaxConnections > 0 =>
    \A v \in Server : Cardinality(In(v, AdmittedStates)) <= MaxConnections

\* ftpserver/server.go:133-135: every connection, also a refused one, gives
\* back what it took; a counter never drifts from the connections it counts.
CountersBalance ==
  \A v \in Server : active[v] = Cardinality(In(v, CountedStates))

\* The total in "running", though added up while connections come, lies
\* between the true totals at the two ends of the reading, so that it never
\* falls from one report to the next.
TotalWasTrue ==
  sampling = "write" => floor <= sample.total /\ sample.total <= TrueTotal

\* No report has more connections active than in all, but for those that were
\* refused or not yet admitted when they were counted: the active ones are
\* read first.
ActiveIsInTotal ==
  sampling = "write" => sample.active <= sample.total + unadmitted
=============================================================================
