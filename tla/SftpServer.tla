----------------------------- MODULE SftpServer -----------------------------
(***************************************************************************)
(* The life of the connections of pkg/sftpserver/server.go: the accept loop *)
(* (ListenAndServe), one goroutine per connection (handleConn), one per     *)
(* session channel (handleSession), and Stop, which the daemon calls from   *)
(* yet another goroutine.  They share conns, stopping and listener under    *)
(* mu, the WaitGroup wg, and the atomic counters of status.ConnMetrics.     *)
(* A step is what happens between two points where another goroutine can    *)
(* be seen: a critical section, an atomic operation, or a blocking call.    *)
(***************************************************************************)
EXTENDS Integers, FiniteSets

CONSTANTS
  Conn,            \* the connections clients may open; each is used once
  Chan,            \* the session channels a client may open on a connection
  MaxConnections   \* config.MaxConnections; 0 is unlimited

\* What Stop has to close besides connections.
Listener == "listener"

ASSUME SftpServerAssumption ==
  /\ IsFiniteSet(Conn) /\ Listener \notin Conn
  /\ IsFiniteSet(Chan)
  /\ MaxConnections \in Nat

VARIABLES
  serve,      \* where ListenAndServe is
  held,       \* its local conn: {c} after Accept returned c, else {}
  listener,   \* "none", "bound" (not yet in s.listener), "open" or "closed"
  sock,       \* sock[c]: c's socket, as the server sees it
  handler,    \* handler[c]: where handleConn(c) is
  sessions,   \* the running handleSession goroutines, as <<conn, channel>>
  conns,      \* s.conns, the tracked connections
  stopping,   \* s.stopping
  wg,         \* the counter of s.wg
  active,     \* ConnMetrics.activeConnections
  total,      \* ConnMetrics.totalConnections
  stop,       \* where Stop is
  toClose     \* what Stop's copies of listener and conns leave it to close

loop == <<serve, held, listener>>
shared == <<conns, stopping, wg>>
counters == <<active, total>>
stopper == <<stop, toClose>>
vars == <<loop, sock, handler, sessions, shared, counters, stopper>>

\* A connection whose reads fail: the peer is gone, or the server closed it.
Dead(c) == sock[c] \in {"gone", "closed"}

\* Where handleConn may be before it has ended.
UnfinishedStates == {"spawned", "refused", "handshake", "serving", "leaving",
                     "untrack", "close", "finish"}

Unfinished == {c \in Conn : handler[c] \in UnfinishedStates}

Init ==
  /\ serve = "listen"
  /\ held = {}
  /\ listener = "none"
  /\ sock = [c \in Conn |-> "none"]
  /\ handler = [c \in Conn |-> "none"]
  /\ sessions = {}
  /\ conns = {}
  /\ stopping = FALSE
  /\ wg = 0
  /\ active = 0
  /\ total = 0
  /\ stop = "idle"
  /\ toClose = {}

CloseSock(c) == sock' = [sock EXCEPT ![c] = IF @ = "none" THEN @ ELSE "closed"]

\* Closing the listener resets the connections that nobody accepted.
CloseListener ==
  /\ listener' = "closed"
  /\ sock' = [c \in Conn |-> IF sock[c] = "pending" THEN "gone" ELSE sock[c]]

-----------------------------------------------------------------------------
(* ListenAndServe.                                                         *)

\* net.Listen, which may fail.
Listen ==
  /\ serve = "listen"
  /\ \/ serve' = "register" /\ listener' = "bound"
     \/ serve' = "failed" /\ UNCHANGED listener
  /\ UNCHANGED <<held, sock, handler, sessions, shared, counters, stopper>>

\* The listener becomes visible to Stop, unless Stop came first.
RegisterListener ==
  /\ serve = "register"
  /\ \/ /\ stopping
        /\ serve' = "returned"
        /\ CloseListener
     \/ /\ ~stopping
        /\ serve' = "accept"
        /\ listener' = "open"
        /\ UNCHANGED sock
  /\ UNCHANGED <<held, handler, sessions, shared, counters, stopper>>

AcceptConn(c) ==
  /\ serve = "accept"
  /\ listener = "open"
  /\ sock[c] = "pending"
  /\ sock' = [sock EXCEPT ![c] = "open"]
  /\ held' = {c}
  /\ serve' = "accepted"
  /\ UNCHANGED <<listener, handler, sessions, shared, counters, stopper>>

\* Accept fails because the listener was closed.
AcceptClosed ==
  /\ serve = "accept"
  /\ listener = "closed"
  /\ serve' = "fatalError"
  /\ UNCHANGED <<held, listener, sock, handler, sessions, shared, counters, stopper>>

\* Accept fails for a reason of the system's: temporary, such as running out
\* of descriptors, or not.
AcceptError ==
  /\ serve = "accept"
  /\ serve' \in {"temporaryError", "fatalError"}
  /\ UNCHANGED <<held, listener, sock, handler, sessions, shared, counters, stopper>>

\* An error is the end of the loop when stopping or when it is not temporary.
HandleAcceptError ==
  /\ serve \in {"temporaryError", "fatalError"}
  /\ serve' = IF stopping THEN "returned"
              ELSE IF serve = "temporaryError" THEN "backoff"
              ELSE "failed"
  /\ UNCHANGED <<held, listener, sock, handler, sessions, shared, counters, stopper>>

\* time.Sleep(tempDelay) is over.
BackoffEnds ==
  /\ serve = "backoff"
  /\ serve' = "accept"
  /\ UNCHANGED <<held, listener, sock, handler, sessions, shared, counters, stopper>>

\* Mutant: tracks the connection though Stop has copied conns.
RegisterUnchecked(c) ==
  /\ serve = "accepted"
  /\ c \in held
  /\ held' = {}
  /\ conns' = conns \union {c}
  /\ wg' = wg + 1
  /\ handler' = [handler EXCEPT ![c] = "spawned"]
  /\ serve' = "accept"
  /\ UNCHANGED <<listener, sock, sessions, stopping, counters, stopper>>

\* The accepted connection is tracked and its goroutine spawned, or refused.
Register(c) ==
  /\ serve = "accepted"
  /\ c \in held
  /\ held' = {}
  /\ \/ /\ stopping
        /\ serve' = "returned"
        /\ CloseSock(c)
        /\ UNCHANGED <<handler, conns, wg>>
     \/ /\ ~stopping
        /\ conns' = conns \union {c}
        /\ wg' = wg + 1
        /\ handler' = [handler EXCEPT ![c] = "spawned"]
        /\ serve' = "accept"
        /\ UNCHANGED sock
  /\ UNCHANGED <<listener, sessions, stopping, counters, stopper>>

-----------------------------------------------------------------------------
(* handleConn, with its deferred calls in the order they run.               *)

OverLimit(n) == MaxConnections > 0 /\ n > MaxConnections

\* IncActive returns the number it made; the check uses that number.
CountConn(c) ==
  /\ handler[c] = "spawned"
  /\ active' = active + 1
  /\ IF OverLimit(active + 1)
       THEN handler' = [handler EXCEPT ![c] = "refused"] /\ UNCHANGED total
       ELSE handler' = [handler EXCEPT ![c] = "handshake"] /\ total' = total + 1
  /\ UNCHANGED <<loop, sock, sessions, shared, stopper>>

\* ssh.NewServerConn: the client authenticates, or it fails to, or the socket
\* dies, or the handshake deadline passes.
Handshake(c) ==
  /\ handler[c] = "handshake"
  /\ \/ sock[c] = "open" /\ handler' = [handler EXCEPT ![c] = "serving"]
     \/ handler' = [handler EXCEPT ![c] = "leaving"]
  /\ UNCHANGED <<loop, sock, sessions, shared, counters, stopper>>

\* Mutant: the session's goroutine is not added to wg.
OpenSessionUntracked(c, ch) ==
  /\ handler[c] = "serving"
  /\ <<c, ch>> \notin sessions
  /\ sessions' = sessions \union {<<c, ch>>}
  /\ UNCHANGED <<loop, sock, handler, shared, counters, stopper>>

\* handleChannels accepts a session channel: wg.Add, then the goroutine.  A
\* channel the mux had queued may be accepted when the socket is dead.
OpenSession(c, ch) ==
  /\ handler[c] = "serving"
  /\ <<c, ch>> \notin sessions
  /\ wg' = wg + 1
  /\ sessions' = sessions \union {<<c, ch>>}
  /\ UNCHANGED <<loop, sock, handler, conns, stopping, counters, stopper>>

\* The mux of a dead connection closes chans, and handleChannels returns;
\* sconn.Close closes the socket.
ChannelsEnd(c) ==
  /\ handler[c] = "serving"
  /\ Dead(c)
  /\ handler' = [handler EXCEPT ![c] = "leaving"]
  /\ CloseSock(c)
  /\ UNCHANGED <<loop, sessions, shared, counters, stopper>>

\* handleSession returns: its requests are over, or sftp's Serve is.
EndSession(c, ch) ==
  /\ <<c, ch>> \in sessions
  /\ sessions' = sessions \ {<<c, ch>>}
  /\ wg' = wg - 1
  /\ UNCHANGED <<loop, sock, handler, conns, stopping, counters, stopper>>

\* Mutant: the deferred DecActive comes after the limit check's return.
DecActiveAdmitted(c) ==
  /\ handler[c] \in {"refused", "leaving"}
  /\ active' = IF handler[c] = "refused" THEN active ELSE active - 1
  /\ handler' = [handler EXCEPT ![c] = "untrack"]
  /\ UNCHANGED <<loop, sock, sessions, shared, total, stopper>>

DecActive(c) ==
  /\ handler[c] \in {"refused", "leaving"}
  /\ active' = active - 1
  /\ handler' = [handler EXCEPT ![c] = "untrack"]
  /\ UNCHANGED <<loop, sock, sessions, shared, total, stopper>>

\* untrackConn: the connection leaves conns under mu, then it is closed.
Untrack(c) ==
  /\ handler[c] = "untrack"
  /\ conns' = conns \ {c}
  /\ handler' = [handler EXCEPT ![c] = "close"]
  /\ UNCHANGED <<loop, sock, sessions, stopping, wg, counters, stopper>>

CloseConn(c) ==
  /\ handler[c] = "close"
  /\ CloseSock(c)
  /\ handler' = [handler EXCEPT ![c] = "finish"]
  /\ UNCHANGED <<loop, sessions, shared, counters, stopper>>

Finish(c) ==
  /\ handler[c] = "finish"
  /\ wg' = wg - 1
  /\ handler' = [handler EXCEPT ![c] = "done"]
  /\ UNCHANGED <<loop, sock, sessions, conns, stopping, counters, stopper>>

-----------------------------------------------------------------------------
(* Stop.                                                                   *)

\* Mutant: only the listener is closed.
StopBeginsListenerOnly ==
  /\ stop = "idle"
  /\ stopping' = TRUE
  /\ toClose' = IF listener = "open" THEN {Listener} ELSE {}
  /\ stop' = "closing"
  /\ UNCHANGED <<loop, sock, handler, sessions, conns, wg, counters>>

\* Under mu: stopping is set, listener and conns are copied.
StopBegins ==
  /\ stop = "idle"
  /\ stopping' = TRUE
  /\ toClose' = conns \union (IF listener = "open" THEN {Listener} ELSE {})
  /\ stop' = "closing"
  /\ UNCHANGED <<loop, sock, handler, sessions, conns, wg, counters>>

StopClosesListener ==
  /\ stop = "closing"
  /\ Listener \in toClose
  /\ CloseListener
  /\ toClose' = toClose \ {Listener}
  /\ UNCHANGED <<serve, held, handler, sessions, shared, counters, stop>>

StopClosesConn(c) ==
  /\ stop = "closing"
  /\ Listener \notin toClose
  /\ c \in toClose
  /\ CloseSock(c)
  /\ toClose' = toClose \ {c}
  /\ UNCHANGED <<loop, handler, sessions, shared, counters, stop>>

StopWaits ==
  /\ stop = "closing"
  /\ toClose = {}
  /\ stop' = "wait"
  /\ UNCHANGED <<loop, sock, handler, sessions, shared, counters, toClose>>

\* wg.Wait returns.
StopReturns ==
  /\ stop = "wait"
  /\ wg = 0
  /\ stop' = "returned"
  /\ UNCHANGED <<loop, sock, handler, sessions, shared, counters, toClose>>

-----------------------------------------------------------------------------
(* The clients.                                                            *)

Dial(c) ==
  /\ listener \in {"bound", "open"}
  /\ sock[c] = "none"
  /\ sock' = [sock EXCEPT ![c] = "pending"]
  /\ UNCHANGED <<loop, handler, sessions, shared, counters, stopper>>

\* The peer goes away, or stays silent for config.IdleTimeout.
HangUp(c) ==
  /\ sock[c] = "open"
  /\ sock' = [sock EXCEPT ![c] = "gone"]
  /\ UNCHANGED <<loop, handler, sessions, shared, counters, stopper>>

ServeStep ==
  \/ Listen
  \/ RegisterListener
  \/ \E c \in Conn : AcceptConn(c) \/ Register(c)
  \/ AcceptClosed
  \/ HandleAcceptError
  \/ BackoffEnds

HandlerStep(c) ==
  \/ CountConn(c)
  \/ Handshake(c)
  \/ ChannelsEnd(c)
  \/ DecActive(c)
  \/ Untrack(c)
  \/ CloseConn(c)
  \/ Finish(c)

StopStep ==
  \/ StopClosesListener
  \/ \E c \in Conn : StopClosesConn(c)
  \/ StopWaits
  \/ StopReturns

Next ==
  \/ ServeStep
  \/ AcceptError
  \/ \E c \in Conn :
       \/ HandlerStep(c)
       \/ \E ch \in Chan : OpenSession(c, ch) \/ EndSession(c, ch)
       \/ Dial(c)
       \/ HangUp(c)
  \/ StopBegins
  \/ StopStep

Spec == Init /\ [][Next]_vars

\* Every goroutine that can run does; a session runs to its end once its
\* connection is dead.  Clients, errors and the call of Stop owe nothing.
Fairness ==
  /\ WF_vars(ServeStep)
  /\ WF_vars(StopStep)
  /\ \A c \in Conn :
       /\ WF_vars(HandlerStep(c))
       /\ \A ch \in Chan : WF_vars(Dead(c) /\ EndSession(c, ch))

FairSpec == Spec /\ Fairness

-----------------------------------------------------------------------------
(* Properties.                                                             *)

TypeOK ==
  /\ serve \in {"listen", "register", "accept", "accepted", "temporaryError",
                "fatalError", "backoff", "failed", "returned"}
  /\ held \in SUBSET Conn
  /\ listener \in {"none", "bound", "open", "closed"}
  /\ sock \in [Conn -> {"none", "pending", "open", "gone", "closed"}]
  /\ handler \in [Conn -> UnfinishedStates \union {"none", "done"}]
  /\ sessions \in SUBSET (Conn \X Chan)
  /\ conns \in SUBSET Conn
  /\ stopping \in BOOLEAN
  /\ wg \in Nat
  /\ active \in Nat
  /\ total \in Nat
  /\ stop \in {"idle", "closing", "wait", "returned"}
  /\ toClose \in SUBSET (Conn \union {Listener})

\* server.go:175-177: a connection accepted concurrently with Stop is tracked
\* and closed by Stop, or refused; when Stop waits, no goroutine of the server
\* is left reading from a socket that nobody is going to close.
NeverOrphaned ==
  stop \in {"wait", "returned"} =>
    \A c \in Unfinished : Dead(c) \/ handler[c] = "close"

\* When Stop returns, every goroutine it waits for has ended, every tracked
\* connection is forgotten and none is counted as active any more.
StoppedIsQuiet ==
  stop = "returned" =>
    Unfinished = {} /\ sessions = {} /\ conns = {} /\ active = 0

\* sync.WaitGroup's rule: no Add starts from zero once Wait has been called.
NoAddFromZeroAfterWait ==
  [][wg = 0 /\ stop \in {"wait", "returned"} => wg' = 0]_vars

\* Once Stop has been called it returns, and so does ListenAndServe, from an
\* Accept, a temporary error or a backoff, even when Stop came before the
\* listener; no connection stays open, accepted or not, whatever clients do.
StopEndsEverything ==
  stopping ~> /\ stop = "returned"
              /\ serve \in {"returned", "failed"}
              /\ \A c \in Conn : sock[c] # "open"
=============================================================================
