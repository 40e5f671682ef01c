-------------------------- MODULE SftpServerProofs --------------------------
(***************************************************************************)
(* Stop and the connections, for any finite sets of connections and         *)
(* channels and any limit: what Stop leaves to nobody, what wg counts, and  *)
(* that all is quiet when Stop returns.  At the end, the deadlines of one   *)
(* connection: who is at work is not cut off.                              *)
(***************************************************************************)
EXTENDS SftpServer, FiniteSetTheorems, TLAPS

-----------------------------------------------------------------------------
(* The inductive invariant.                                                *)

\* The connections whose handler is in one of states.
In(states) == {c \in Conn : handler[c] \in states}

\* From the registration to untrackConn, and from IncActive to DecActive.
TrackedStates == {"spawned", "refused", "handshake", "serving", "leaving", "untrack"}
CountedStates == {"refused", "handshake", "serving", "leaving"}

\* TypeOK, but for the two counters that are decremented.
Shape ==
  /\ serve \in {"listen", "register", "accept", "accepted", "temporaryError",
                "fatalError", "backoff", "failed", "returned"}
  /\ held \in SUBSET Conn
  /\ listener \in {"none", "bound", "open", "closed"}
  /\ sock \in [Conn -> {"none", "pending", "open", "gone", "closed"}]
  /\ handler \in [Conn -> UnfinishedStates \union {"none", "done"}]
  /\ sessions \in SUBSET (Conn \X Chan)
  /\ conns \in SUBSET Conn
  /\ stopping \in BOOLEAN
  /\ total \in Nat
  /\ stop \in {"idle", "closing", "wait", "returned"}
  /\ toClose \in SUBSET (Conn \union {Listener})

\* What the counters count: wg the goroutines, active the connections between
\* their IncActive and their DecActive, and conns is who is tracked.
WgInv == wg = Cardinality(In(UnfinishedStates)) + Cardinality(sessions)
ActiveInv == active = Cardinality(In(CountedStates))
TrackedInv == conns = In(TrackedStates)

\* A connection that was accepted has a socket, which is dead before its
\* handler finishes; what the loop holds has no handler yet.
SockInv ==
  /\ \A c \in Conn :
       handler[c] # "none" \/ c \in held => sock[c] \in {"open", "gone", "closed"}
  /\ \A c \in held : handler[c] = "none"
  /\ \A c \in Conn : handler[c] = "finish" => Dead(c)

\* While Stop closes, whoever it has not closed yet is on its list, has a dead
\* socket, or is about to close it.
StopInv ==
  /\ stop # "idle" => stopping
  /\ stop = "closing" =>
       \A c \in Unfinished : Dead(c) \/ handler[c] = "close" \/ c \in toClose
  /\ NeverOrphaned

IInv ==
  /\ Shape
  /\ WgInv
  /\ ActiveInv
  /\ TrackedInv
  /\ SockInv
  /\ StopInv
  /\ StoppedIsQuiet

-----------------------------------------------------------------------------
(* Counting the goroutines.                                                *)

LEMMA InIsFinite ==
  ASSUME NEW states
  PROVE  IsFiniteSet(In(states)) /\ Cardinality(In(states)) \in Nat
<1>1. In(states) \subseteq Conn
  BY DEF In
<1>2. IsFiniteSet(In(states))
  BY <1>1, SftpServerAssumption, FS_Subset
<1> QED
  BY <1>2, FS_CardinalityType

LEMMA SessionsAreFinite ==
  ASSUME Shape
  PROVE  IsFiniteSet(sessions) /\ Cardinality(sessions) \in Nat
<1>1. IsFiniteSet(Conn \X Chan)
  BY SftpServerAssumption, FS_Product
<1>2. IsFiniteSet(sessions)
  BY <1>1, FS_Subset DEF Shape
<1> QED
  BY <1>2, FS_CardinalityType

\* A handler that moves into a set of states adds its connection.
LEMMA Joins ==
  ASSUME Shape, NEW c \in Conn, NEW to, NEW states,
         handler' = [handler EXCEPT ![c] = to],
         to \in states, handler[c] \notin states
  PROVE  Cardinality(In(states)') = Cardinality(In(states)) + 1
<1>1. In(states)' = In(states) \union {c}
  BY DEF Shape, In
<1>2. c \notin In(states)
  BY DEF In
<1> QED
  BY <1>1, <1>2, InIsFinite, FS_AddElement

\* One that moves out of it takes its connection out.
LEMMA Leaves ==
  ASSUME Shape, NEW c \in Conn, NEW to, NEW states,
         handler' = [handler EXCEPT ![c] = to],
         to \notin states, handler[c] \in states
  PROVE  Cardinality(In(states)') = Cardinality(In(states)) - 1
<1>1. In(states)' = In(states) \ {c}
  BY DEF Shape, In
<1>2. c \in In(states)
  BY DEF In
<1> QED
  BY <1>1, <1>2, InIsFinite, FS_RemoveElement

LEMMA Stays ==
  ASSUME Shape, NEW c \in Conn, NEW to, NEW states,
         handler' = [handler EXCEPT ![c] = to],
         to \in states <=> handler[c] \in states
  PROVE  In(states)' = In(states)
BY DEF Shape, In

\* wg at zero leaves no goroutine, and with them goes what they hold.
LEMMA ZeroIsEmpty ==
  ASSUME Shape, WgInv, wg = 0
  PROVE  Unfinished = {} /\ sessions = {}
<1>1. Cardinality(In(UnfinishedStates)) = 0 /\ Cardinality(sessions) = 0
  BY InIsFinite, SessionsAreFinite DEF WgInv
<1>2. In(UnfinishedStates) = {} /\ sessions = {}
  BY <1>1, InIsFinite, SessionsAreFinite, FS_EmptySet
<1> QED
  BY <1>2 DEF In, Unfinished

-----------------------------------------------------------------------------
(* The invariant holds at first, and every step keeps each part of it.      *)

LEMMA InitialServer == Init => IInv
<1> SUFFICES ASSUME Init PROVE IInv
  OBVIOUS
<1>1. Shape
  BY DEF Init, Shape
<1>2. /\ In(UnfinishedStates) = {} /\ In(CountedStates) = {} /\ In(TrackedStates) = {}
      /\ sessions = {}
  BY DEF Init, In, UnfinishedStates, CountedStates, TrackedStates
<1>3. Cardinality({}) = 0
  BY FS_EmptySet
<1>4. WgInv /\ ActiveInv /\ TrackedInv
  BY <1>2, <1>3 DEF Init, WgInv, ActiveInv, TrackedInv
<1>5. SockInv /\ StopInv /\ StoppedIsQuiet
  BY DEF Init, SockInv, StopInv, NeverOrphaned, StoppedIsQuiet, Dead
<1> QED
  BY <1>1, <1>4, <1>5 DEF IInv

LEMMA ShapeStep == Shape /\ [Next]_vars => Shape'
<1> SUFFICES ASSUME Shape, [Next]_vars PROVE Shape'
  OBVIOUS
<1> USE DEF Shape, loop, shared, counters, stopper
<1>1. CASE Listen \/ RegisterListener
  BY <1>1 DEF Listen, RegisterListener, CloseListener
<1>2. ASSUME NEW c \in Conn, AcceptConn(c) PROVE Shape'
  BY <1>2 DEF AcceptConn
<1>3. ASSUME NEW c \in Conn, Register(c) PROVE Shape'
  BY <1>3 DEF Register, CloseSock, UnfinishedStates
<1>4. CASE AcceptClosed \/ AcceptError \/ HandleAcceptError \/ BackoffEnds
  BY <1>4 DEF AcceptClosed, AcceptError, HandleAcceptError, BackoffEnds
<1>5. ASSUME NEW c \in Conn, CountConn(c) \/ Handshake(c) PROVE Shape'
  BY <1>5 DEF CountConn, Handshake, UnfinishedStates
<1>6. ASSUME NEW c \in Conn, ChannelsEnd(c) \/ CloseConn(c) PROVE Shape'
  BY <1>6 DEF ChannelsEnd, CloseConn, CloseSock, UnfinishedStates
<1>7. ASSUME NEW c \in Conn, DecActive(c) \/ Untrack(c) \/ Finish(c) PROVE Shape'
  BY <1>7 DEF DecActive, Untrack, Finish, UnfinishedStates
<1>8. ASSUME NEW c \in Conn, NEW ch \in Chan, OpenSession(c, ch) \/ EndSession(c, ch)
      PROVE  Shape'
  BY <1>8 DEF OpenSession, EndSession
<1>9. ASSUME NEW c \in Conn, Dial(c) \/ HangUp(c) PROVE Shape'
  BY <1>9 DEF Dial, HangUp
<1>10. CASE StopBegins \/ StopWaits \/ StopReturns
  BY <1>10 DEF StopBegins, StopWaits, StopReturns
<1>11. CASE StopClosesListener
  BY <1>11 DEF StopClosesListener, CloseListener
<1>12. ASSUME NEW c \in Conn, StopClosesConn(c) PROVE Shape'
  BY <1>12 DEF StopClosesConn, CloseSock
<1>13. CASE UNCHANGED vars
  BY <1>13 DEF vars
<1> QED
  BY <1>1, <1>2, <1>3, <1>4, <1>5, <1>6, <1>7, <1>8, <1>9, <1>10, <1>11, <1>12, <1>13
  DEF Next, ServeStep, HandlerStep, StopStep

\* Every Add has its Done.
LEMMA WgStep == Shape /\ WgInv /\ SockInv /\ [Next]_vars => WgInv'
<1> SUFFICES ASSUME Shape, WgInv, SockInv, [Next]_vars PROVE WgInv'
  OBVIOUS
<1> USE DEF loop, shared, counters, stopper
<1>1. ASSUME UNCHANGED <<handler, sessions, wg>> PROVE WgInv'
  BY <1>1 DEF WgInv, In
<1>2. ASSUME NEW c \in Conn, NEW to \in UnfinishedStates,
             handler[c] \in UnfinishedStates,
             handler' = [handler EXCEPT ![c] = to], UNCHANGED <<sessions, wg>>
      PROVE  WgInv'
  BY <1>2, Stays DEF WgInv
<1>3. ASSUME NEW c \in Conn, Register(c) PROVE WgInv'
  <2>1. CASE stopping
    BY <1>1, <1>3, <2>1 DEF Register
  <2>2. CASE ~stopping
    <3>1. handler[c] \notin UnfinishedStates /\ "spawned" \in UnfinishedStates
      BY <1>3 DEF Register, SockInv, UnfinishedStates
    <3>2. Cardinality(In(UnfinishedStates)') = Cardinality(In(UnfinishedStates)) + 1
      BY <1>3, <2>2, <3>1, Joins DEF Register
    <3> QED
      BY <1>3, <2>2, <3>2, InIsFinite, SessionsAreFinite DEF Register, WgInv
  <2> QED
    BY <2>1, <2>2
<1>4. ASSUME NEW c \in Conn, CountConn(c) \/ Handshake(c) PROVE WgInv'
  BY <1>2, <1>4 DEF CountConn, Handshake, UnfinishedStates
<1>5. ASSUME NEW c \in Conn, ChannelsEnd(c) \/ DecActive(c) \/ Untrack(c) \/ CloseConn(c)
      PROVE  WgInv'
  BY <1>2, <1>5 DEF ChannelsEnd, DecActive, Untrack, CloseConn, UnfinishedStates
<1>6. ASSUME NEW c \in Conn, Finish(c) PROVE WgInv'
  <2>1. handler[c] \in UnfinishedStates /\ "done" \notin UnfinishedStates
    BY <1>6 DEF Finish, UnfinishedStates
  <2>2. Cardinality(In(UnfinishedStates)') = Cardinality(In(UnfinishedStates)) - 1
    BY <1>6, <2>1, Leaves DEF Finish
  <2> QED
    BY <1>6, <2>2, InIsFinite, SessionsAreFinite DEF Finish, WgInv
<1>7. ASSUME NEW c \in Conn, NEW ch \in Chan, OpenSession(c, ch) PROVE WgInv'
  <2>1. Cardinality(sessions \union {<<c, ch>>}) = Cardinality(sessions) + 1
    BY <1>7, SessionsAreFinite, FS_AddElement DEF OpenSession
  <2>2. In(UnfinishedStates)' = In(UnfinishedStates)
    BY <1>7 DEF OpenSession, In
  <2> QED
    BY <1>7, <2>1, <2>2, InIsFinite, SessionsAreFinite DEF OpenSession, WgInv
<1>8. ASSUME NEW c \in Conn, NEW ch \in Chan, EndSession(c, ch) PROVE WgInv'
  <2>1. Cardinality(sessions \ {<<c, ch>>}) = Cardinality(sessions) - 1
    BY <1>8, SessionsAreFinite, FS_RemoveElement DEF EndSession
  <2>2. In(UnfinishedStates)' = In(UnfinishedStates)
    BY <1>8 DEF EndSession, In
  <2> QED
    BY <1>8, <2>1, <2>2, InIsFinite, SessionsAreFinite DEF EndSession, WgInv
<1>9. CASE Listen \/ RegisterListener \/ AcceptClosed \/ AcceptError
           \/ HandleAcceptError \/ BackoffEnds
  BY <1>1, <1>9 DEF Listen, RegisterListener, AcceptClosed, AcceptError,
                    HandleAcceptError, BackoffEnds
<1>10. ASSUME NEW c \in Conn,
              AcceptConn(c) \/ Dial(c) \/ HangUp(c) \/ StopClosesConn(c)
       PROVE  WgInv'
  BY <1>1, <1>10 DEF AcceptConn, Dial, HangUp, StopClosesConn
<1>11. CASE StopBegins \/ StopClosesListener \/ StopWaits \/ StopReturns
  BY <1>1, <1>11 DEF StopBegins, StopClosesListener, StopWaits, StopReturns
<1>12. CASE UNCHANGED vars
  BY <1>1, <1>12 DEF vars
<1> QED
  BY <1>3, <1>4, <1>5, <1>6, <1>7, <1>8, <1>9, <1>10, <1>11, <1>12
  DEF Next, ServeStep, HandlerStep, StopStep

\* Every IncActive has its DecActive, a refused connection's too.
LEMMA ActiveStep == Shape /\ ActiveInv /\ SockInv /\ [Next]_vars => ActiveInv'
<1> SUFFICES ASSUME Shape, ActiveInv, SockInv, [Next]_vars PROVE ActiveInv'
  OBVIOUS
<1> USE DEF loop, shared, counters, stopper
<1>1. ASSUME UNCHANGED <<handler, active>> PROVE ActiveInv'
  BY <1>1 DEF ActiveInv, In
<1>2. ASSUME NEW c \in Conn, NEW to, to \in CountedStates <=> handler[c] \in CountedStates,
             handler' = [handler EXCEPT ![c] = to], UNCHANGED active
      PROVE  ActiveInv'
  BY <1>2, Stays DEF ActiveInv
<1>3. ASSUME NEW c \in Conn, Register(c) PROVE ActiveInv'
  <2>1. handler[c] \notin CountedStates /\ "spawned" \notin CountedStates
    BY <1>3 DEF Register, SockInv, CountedStates
  <2> QED
    BY <1>1, <1>2, <1>3, <2>1 DEF Register
<1>4. ASSUME NEW c \in Conn, CountConn(c) PROVE ActiveInv'
  <2>1. PICK to \in CountedStates : handler' = [handler EXCEPT ![c] = to]
    BY <1>4 DEF CountConn, CountedStates
  <2>2. handler[c] \notin CountedStates
    BY <1>4 DEF CountConn, CountedStates
  <2>3. Cardinality(In(CountedStates)') = Cardinality(In(CountedStates)) + 1
    BY <2>1, <2>2, Joins
  <2> QED
    BY <1>4, <2>3 DEF CountConn, ActiveInv
<1>5. ASSUME NEW c \in Conn, Handshake(c) \/ ChannelsEnd(c) PROVE ActiveInv'
  BY <1>2, <1>5 DEF Handshake, ChannelsEnd, CountedStates
<1>6. ASSUME NEW c \in Conn, DecActive(c) PROVE ActiveInv'
  <2>1. handler[c] \in CountedStates /\ "untrack" \notin CountedStates
    BY <1>6 DEF DecActive, CountedStates
  <2>2. Cardinality(In(CountedStates)') = Cardinality(In(CountedStates)) - 1
    BY <1>6, <2>1, Leaves DEF DecActive
  <2> QED
    BY <1>6, <2>2 DEF DecActive, ActiveInv
<1>7. ASSUME NEW c \in Conn, Untrack(c) \/ CloseConn(c) \/ Finish(c) PROVE ActiveInv'
  BY <1>2, <1>7 DEF Untrack, CloseConn, Finish, CountedStates
<1>8. ASSUME NEW c \in Conn, NEW ch \in Chan, OpenSession(c, ch) \/ EndSession(c, ch)
      PROVE  ActiveInv'
  BY <1>1, <1>8 DEF OpenSession, EndSession
<1>9. CASE Listen \/ RegisterListener \/ AcceptClosed \/ AcceptError
           \/ HandleAcceptError \/ BackoffEnds
  BY <1>1, <1>9 DEF Listen, RegisterListener, AcceptClosed, AcceptError,
                    HandleAcceptError, BackoffEnds
<1>10. ASSUME NEW c \in Conn,
              AcceptConn(c) \/ Dial(c) \/ HangUp(c) \/ StopClosesConn(c)
       PROVE  ActiveInv'
  BY <1>1, <1>10 DEF AcceptConn, Dial, HangUp, StopClosesConn
<1>11. CASE StopBegins \/ StopClosesListener \/ StopWaits \/ StopReturns
  BY <1>1, <1>11 DEF StopBegins, StopClosesListener, StopWaits, StopReturns
<1>12. CASE UNCHANGED vars
  BY <1>1, <1>12 DEF vars
<1> QED
  BY <1>3, <1>4, <1>5, <1>6, <1>7, <1>8, <1>9, <1>10, <1>11, <1>12
  DEF Next, ServeStep, HandlerStep, StopStep

\* conns is changed with the handlers that it tracks, and with no others.
LEMMA TrackedStep == Shape /\ TrackedInv /\ SockInv /\ [Next]_vars => TrackedInv'
<1> SUFFICES ASSUME Shape, TrackedInv, SockInv, [Next]_vars PROVE TrackedInv'
  OBVIOUS
<1> USE DEF loop, shared, counters, stopper
<1>1. ASSUME UNCHANGED <<handler, conns>> PROVE TrackedInv'
  BY <1>1 DEF TrackedInv, In
<1>2. ASSUME NEW c \in Conn, NEW to, to \in TrackedStates <=> handler[c] \in TrackedStates,
             handler' = [handler EXCEPT ![c] = to], UNCHANGED conns
      PROVE  TrackedInv'
  BY <1>2, Stays DEF TrackedInv
<1>3. ASSUME NEW c \in Conn, Register(c) PROVE TrackedInv'
  BY <1>3 DEF Register, TrackedInv, TrackedStates, In, Shape
<1>4. ASSUME NEW c \in Conn, Untrack(c) PROVE TrackedInv'
  BY <1>4 DEF Untrack, TrackedInv, TrackedStates, In, Shape
<1>5. ASSUME NEW c \in Conn, CountConn(c) \/ Handshake(c) PROVE TrackedInv'
  BY <1>2, <1>5 DEF CountConn, Handshake, TrackedStates
<1>6. ASSUME NEW c \in Conn, ChannelsEnd(c) \/ DecActive(c) PROVE TrackedInv'
  BY <1>2, <1>6 DEF ChannelsEnd, DecActive, TrackedStates
<1>7. ASSUME NEW c \in Conn, CloseConn(c) \/ Finish(c) PROVE TrackedInv'
  BY <1>2, <1>7 DEF CloseConn, Finish, TrackedStates
<1>8. ASSUME NEW c \in Conn, NEW ch \in Chan, OpenSession(c, ch) \/ EndSession(c, ch)
      PROVE  TrackedInv'
  BY <1>1, <1>8 DEF OpenSession, EndSession
<1>9. CASE Listen \/ RegisterListener \/ AcceptClosed \/ AcceptError
           \/ HandleAcceptError \/ BackoffEnds
  BY <1>1, <1>9 DEF Listen, RegisterListener, AcceptClosed, AcceptError,
                    HandleAcceptError, BackoffEnds
<1>10. ASSUME NEW c \in Conn,
              AcceptConn(c) \/ Dial(c) \/ HangUp(c) \/ StopClosesConn(c)
       PROVE  TrackedInv'
  BY <1>1, <1>10 DEF AcceptConn, Dial, HangUp, StopClosesConn
<1>11. CASE StopBegins \/ StopClosesListener \/ StopWaits \/ StopReturns
  BY <1>1, <1>11 DEF StopBegins, StopClosesListener, StopWaits, StopReturns
<1>12. CASE UNCHANGED vars
  BY <1>1, <1>12 DEF vars
<1> QED
  BY <1>3, <1>4, <1>5, <1>6, <1>7, <1>8, <1>9, <1>10, <1>11, <1>12
  DEF Next, ServeStep, HandlerStep, StopStep

\* A socket that a handler has is open until it dies, and then stays dead.
LEMMA SockStep == Shape /\ SockInv /\ [Next]_vars => SockInv'
<1> SUFFICES ASSUME Shape, SockInv, [Next]_vars PROVE SockInv'
  OBVIOUS
<1> USE DEF Shape, SockInv, Dead, loop, shared, counters, stopper
<1>1. CASE Listen \/ RegisterListener
  BY <1>1 DEF Listen, RegisterListener, CloseListener
<1>2. ASSUME NEW c \in Conn, AcceptConn(c) PROVE SockInv'
  BY <1>2 DEF AcceptConn
<1>3. ASSUME NEW c \in Conn, Register(c) PROVE SockInv'
  BY <1>3 DEF Register, CloseSock
<1>4. CASE AcceptClosed \/ AcceptError \/ HandleAcceptError \/ BackoffEnds
  BY <1>4 DEF AcceptClosed, AcceptError, HandleAcceptError, BackoffEnds
<1>5. ASSUME NEW c \in Conn, CountConn(c) \/ Handshake(c) PROVE SockInv'
  BY <1>5 DEF CountConn, Handshake
<1>6. ASSUME NEW c \in Conn, ChannelsEnd(c) \/ CloseConn(c) PROVE SockInv'
  BY <1>6 DEF ChannelsEnd, CloseConn, CloseSock
<1>7. ASSUME NEW c \in Conn, DecActive(c) \/ Untrack(c) \/ Finish(c) PROVE SockInv'
  BY <1>7 DEF DecActive, Untrack, Finish
<1>8. ASSUME NEW c \in Conn, NEW ch \in Chan, OpenSession(c, ch) \/ EndSession(c, ch)
      PROVE  SockInv'
  BY <1>8 DEF OpenSession, EndSession
<1>9. ASSUME NEW c \in Conn, Dial(c) \/ HangUp(c) PROVE SockInv'
  BY <1>9 DEF Dial, HangUp
<1>10. CASE StopBegins \/ StopWaits \/ StopReturns
  BY <1>10 DEF StopBegins, StopWaits, StopReturns
<1>11. CASE StopClosesListener
  BY <1>11 DEF StopClosesListener, CloseListener
<1>12. ASSUME NEW c \in Conn, StopClosesConn(c) PROVE SockInv'
  BY <1>12 DEF StopClosesConn, CloseSock
<1>13. CASE UNCHANGED vars
  BY <1>13 DEF vars
<1> QED
  BY <1>1, <1>2, <1>3, <1>4, <1>5, <1>6, <1>7, <1>8, <1>9, <1>10, <1>11, <1>12, <1>13
  DEF Next, ServeStep, HandlerStep, StopStep

\* Stop copies all that is tracked, and what comes later is refused; whoever
\* has left conns before is past needing its socket closed by Stop.
LEMMA StopInvStep ==
  Shape /\ TrackedInv /\ SockInv /\ StopInv /\ [Next]_vars => StopInv'
<1> SUFFICES ASSUME Shape, TrackedInv, SockInv, StopInv, [Next]_vars PROVE StopInv'
  OBVIOUS
<1> USE DEF Shape, SockInv, StopInv, NeverOrphaned, Unfinished, UnfinishedStates,
            Dead, loop, shared, counters, stopper
<1>1. CASE Listen \/ RegisterListener
  BY <1>1 DEF Listen, RegisterListener, CloseListener
<1>2. ASSUME NEW c \in Conn, AcceptConn(c) PROVE StopInv'
  BY <1>2 DEF AcceptConn
<1>3. ASSUME NEW c \in Conn, Register(c) PROVE StopInv'
  BY <1>3 DEF Register, CloseSock
<1>4. CASE AcceptClosed \/ AcceptError \/ HandleAcceptError \/ BackoffEnds
  BY <1>4 DEF AcceptClosed, AcceptError, HandleAcceptError, BackoffEnds
<1>5. ASSUME NEW c \in Conn, CountConn(c) \/ Handshake(c) PROVE StopInv'
  BY <1>5 DEF CountConn, Handshake
<1>6. ASSUME NEW c \in Conn, ChannelsEnd(c) \/ CloseConn(c) PROVE StopInv'
  BY <1>6 DEF ChannelsEnd, CloseConn, CloseSock
<1>7. ASSUME NEW c \in Conn, DecActive(c) \/ Untrack(c) \/ Finish(c) PROVE StopInv'
  BY <1>7 DEF DecActive, Untrack, Finish
<1>8. ASSUME NEW c \in Conn, NEW ch \in Chan, OpenSession(c, ch) \/ EndSession(c, ch)
      PROVE  StopInv'
  BY <1>8 DEF OpenSession, EndSession
<1>9. ASSUME NEW c \in Conn, Dial(c) \/ HangUp(c) PROVE StopInv'
  BY <1>9 DEF Dial, HangUp
<1>10. CASE StopBegins
  BY <1>10 DEF StopBegins, TrackedInv, TrackedStates, In
<1>11. CASE StopWaits \/ StopReturns
  BY <1>11 DEF StopWaits, StopReturns
<1>12. CASE StopClosesListener
  BY <1>12, SftpServerAssumption DEF StopClosesListener, CloseListener
<1>13. ASSUME NEW c \in Conn, StopClosesConn(c) PROVE StopInv'
  BY <1>13 DEF StopClosesConn, CloseSock
<1>14. CASE UNCHANGED vars
  BY <1>14 DEF vars
<1> QED
  BY <1>1, <1>2, <1>3, <1>4, <1>5, <1>6, <1>7, <1>8, <1>9, <1>10, <1>11, <1>12,
     <1>13, <1>14
  DEF Next, ServeStep, HandlerStep, StopStep

\* A server whose Stop has returned does nothing any more but refuse.
LEMMA QuietStep == IInv /\ [Next]_vars => StoppedIsQuiet'
<1> SUFFICES ASSUME IInv, [Next]_vars PROVE StoppedIsQuiet'
  OBVIOUS
<1> USE DEF loop, shared, counters, stopper
<1>1. CASE stop = "returned"
  <2>1. Unfinished = {} /\ sessions = {} /\ conns = {} /\ active = 0 /\ stopping
    BY <1>1 DEF IInv, StoppedIsQuiet, StopInv
  <2>2. \A c \in Conn : handler[c] \notin UnfinishedStates
    BY <2>1 DEF Unfinished
  <2>3. ~StopBegins /\ ~StopStep /\ \A c \in Conn : ~HandlerStep(c)
    BY <1>1, <2>2 DEF StopBegins, StopStep, StopClosesListener, StopClosesConn, StopWaits,
       StopReturns, HandlerStep, CountConn, Handshake, ChannelsEnd, DecActive, Untrack,
       CloseConn, Finish, UnfinishedStates
  <2>4. \A c \in Conn, ch \in Chan : ~OpenSession(c, ch) /\ ~EndSession(c, ch)
    BY <2>1, <2>2 DEF OpenSession, EndSession, UnfinishedStates
  <2>5. UNCHANGED <<handler, sessions, conns, active>>
    BY <2>1, <2>3, <2>4 DEF Next, ServeStep, Listen, RegisterListener, AcceptConn, AcceptClosed,
       AcceptError, HandleAcceptError, BackoffEnds, Register, Dial, HangUp, vars
  <2> QED
    BY <2>1, <2>5 DEF StoppedIsQuiet, Unfinished
<1>2. CASE StopReturns
  <2>1. Unfinished = {} /\ sessions = {}
    BY <1>2, ZeroIsEmpty DEF StopReturns, IInv
  <2>2. In(TrackedStates) = {} /\ In(CountedStates) = {}
    BY <2>1 DEF In, Unfinished, TrackedStates, CountedStates, UnfinishedStates
  <2>3. conns = {} /\ active = 0
    BY <2>2, FS_EmptySet DEF IInv, TrackedInv, ActiveInv
  <2> QED
    BY <1>2, <2>1, <2>3 DEF StopReturns, StoppedIsQuiet, Unfinished
<1>3. stop' = "returned" => stop = "returned" \/ StopReturns
  BY DEF Next, ServeStep, HandlerStep, StopStep, Listen, RegisterListener, AcceptConn,
     AcceptClosed, AcceptError, HandleAcceptError, BackoffEnds, Register, CountConn,
     Handshake, ChannelsEnd, DecActive, Untrack, CloseConn, Finish, OpenSession,
     EndSession, Dial, HangUp, StopBegins, StopClosesListener, StopClosesConn,
     StopWaits, vars
<1> QED
  BY <1>1, <1>2, <1>3 DEF StoppedIsQuiet

LEMMA ServerStep == IInv /\ [Next]_vars => IInv'
BY ShapeStep, WgStep, ActiveStep, TrackedStep, SockStep, StopInvStep, QuietStep DEF IInv

LEMMA ServerInvariant == Spec => []IInv
BY InitialServer, ServerStep, PTL DEF Spec

-----------------------------------------------------------------------------
(* What follows.                                                           *)

\* wg and active, which code decrements, are never driven below zero:
\* sync.WaitGroup would panic, and the status would show a negative count.
THEOREM TypesHold == Spec => []TypeOK
<1>1. IInv => TypeOK
  BY InIsFinite, SessionsAreFinite DEF IInv, Shape, WgInv, ActiveInv, TypeOK
<1> QED
  BY <1>1, ServerInvariant, PTL

\* server.go:175-190, 196-211: the connections that Stop copied it closes, and
\* the loop refuses the others, however Accept and Stop interleave.
THEOREM NoConnectionOrphaned == Spec => []NeverOrphaned
<1>1. IInv => NeverOrphaned
  BY DEF IInv, StopInv
<1> QED
  BY <1>1, ServerInvariant, PTL

\* server.go:212: wg.Wait returns only when every goroutine has ended, with
\* conns empty and all that was counted given back.
THEOREM QuietAfterStop == Spec => []StoppedIsQuiet
<1>1. IInv => StoppedIsQuiet
  BY DEF IInv
<1> QED
  BY <1>1, ServerInvariant, PTL

\* server.go:185, 212, 294: the counter that Wait saw at zero is never
\* raised, because a connection's Add is made under mu with stopping unset,
\* and a session's while its connection still counts.
THEOREM WaitGroupRuleKept == Spec => NoAddFromZeroAfterWait
<1> DEFINE Rule == wg = 0 /\ stop \in {"wait", "returned"} => wg' = 0
<1>1. IInv /\ [Next]_vars => [Rule]_vars
  <2> SUFFICES ASSUME IInv, [Next]_vars, wg = 0, stop \in {"wait", "returned"}
               PROVE  wg' = 0
    OBVIOUS
  <2>1. Unfinished = {} /\ sessions = {} /\ stopping
    BY ZeroIsEmpty DEF IInv, StopInv
  <2>2. \A c \in Conn : handler[c] \notin UnfinishedStates
    BY <2>1 DEF Unfinished
  <2>3. \A c \in Conn : ~Finish(c) /\ \A ch \in Chan : ~OpenSession(c, ch) /\ ~EndSession(c, ch)
    BY <2>1, <2>2 DEF Finish, OpenSession, EndSession, UnfinishedStates
  <2>4. wg' = wg
    BY <2>1, <2>3 DEF Next, ServeStep, HandlerStep, StopStep, Listen, RegisterListener,
       AcceptConn, AcceptClosed, AcceptError, HandleAcceptError, BackoffEnds, Register,
       CountConn, Handshake, ChannelsEnd, DecActive, Untrack, CloseConn, Dial, HangUp,
       StopBegins, StopClosesListener, StopClosesConn, StopWaits, StopReturns, vars, shared
  <2> QED
    BY <2>4
<1> QED
  BY <1>1, ServerInvariant, PTL DEF Spec, NoAddFromZeroAfterWait
-----------------------------------------------------------------------------
(* The deadlines of one connection (TimeoutConn), for any handshake time, any *)
(* idle timeouts and any Delay that is less.  The counter of connections has *)
(* the name active here; timeoutConn.active is activated.                   *)

CONSTANTS HandshakeTime, IdleTimes, Delay, Buffer

VARIABLES idle, activated, stage, io, left, due, room, silent, quiet

Timeouts == INSTANCE TimeoutConn WITH active <- activated

DeadlineTypes ==
  /\ idle \in IdleTimes
  /\ io \in [Timeouts!IO -> {"run", "set", "blocked", "over"}]
  /\ due \in [Timeouts!Goroutine -> Nat]
  /\ left \in Nat \union {Timeouts!Never}
  /\ quiet \in Nat

\* activate's store is the first step after the handshake, and no Read or
\* Write sets a deadline unless it saw that store, and there is an idle timeout.
ActivatedInv ==
  /\ activated <=> stage \in {"stored", "computed", "serving"}
  /\ \A g \in Timeouts!IO : io[g] = "set" => idle > 0 /\ activated

\* A deadline that was computed and not yet set is at most Delay old.
PendingInv ==
  \A g \in Timeouts!Pending : /\ due[g] <= idle
                              /\ idle > 0 => idle - due[g] <= Delay

\* Once activate is over, the socket's deadline is the handshake's no more: it
\* is of the last Read or Write, or of one at most Delay before that.
ServingInv ==
  stage = "serving" =>
    /\ idle = 0 => left = Timeouts!Never
    /\ idle > 0 => left \in Nat /\ quiet >= idle - left - Delay

DeadlineInv == DeadlineTypes /\ ActivatedInv /\ PendingInv /\ ServingInv

LEMMA InitialDeadlines ==
  ASSUME Timeouts!TimeoutConnAssumption, Timeouts!Init
  PROVE  DeadlineInv
BY DEF Timeouts!TimeoutConnAssumption, Timeouts!Init, DeadlineInv, DeadlineTypes,
   ActivatedInv, PendingInv, ServingInv, Timeouts!Pending, Timeouts!IO,
   Timeouts!Goroutine, Timeouts!Never

\* The least of two numbers that Sooner returns.
LEMMA SoonerIsLeast ==
  ASSUME NEW t \in Nat, NEW u \in Nat
  PROVE  Timeouts!Sooner(t, u) \in Nat /\ Timeouts!Sooner(t, u) \in {t, u}
BY DEF Timeouts!Sooner

\* Touch: the deadline is computed now, and is the whole of idle away.
LEMMA TouchKeepsDeadlines ==
  ASSUME Timeouts!TimeoutConnAssumption, DeadlineInv,
         NEW g \in Timeouts!IO, Timeouts!Touch(g)
  PROVE  DeadlineInv'
<1> USE DEF DeadlineInv, Timeouts!Touch, Timeouts!IO, Timeouts!Goroutine
<1>0. idle \in Nat /\ Delay \in Nat
  BY DEF DeadlineTypes, Timeouts!TimeoutConnAssumption
<1>1. DeadlineTypes'
  BY <1>0 DEF DeadlineTypes
<1>2. ActivatedInv'
  BY <1>0 DEF ActivatedInv, DeadlineTypes
<1>3. PendingInv'
  BY <1>0 DEF PendingInv, DeadlineTypes, Timeouts!Pending
<1>4. ServingInv'
  BY <1>0 DEF ServingInv, ActivatedInv, DeadlineTypes
<1> QED
  BY <1>1, <1>2, <1>3, <1>4

\* SetDeadline: what is set is at most Delay old, also if it overtakes a newer one.
LEMMA SetDeadlineKeepsDeadlines ==
  ASSUME Timeouts!TimeoutConnAssumption, DeadlineInv,
         NEW g \in Timeouts!IO, Timeouts!SetDeadline(g)
  PROVE  DeadlineInv'
<1> USE DEF DeadlineInv, Timeouts!SetDeadline, Timeouts!IO, Timeouts!Goroutine
<1>0. idle \in Nat /\ Delay \in Nat /\ idle > 0 /\ due[g] \in Nat /\ quiet \in Nat
  BY DEF DeadlineTypes, ActivatedInv, Timeouts!TimeoutConnAssumption
<1>1. due[g] <= idle /\ idle - due[g] <= Delay
  BY <1>0 DEF PendingInv, Timeouts!Pending
<1>2. quiet' \in Nat
  BY <1>0, <1>1, SoonerIsLeast
<1>3. DeadlineTypes'
  BY <1>0, <1>2 DEF DeadlineTypes
<1>4. ActivatedInv'
  BY DEF ActivatedInv, DeadlineTypes
<1>5. PendingInv'
  BY DEF PendingInv, DeadlineTypes, Timeouts!Pending
<1>6. ServingInv'
  BY <1>0, <1>1, <1>2 DEF ServingInv
<1> QED
  BY <1>3, <1>4, <1>5, <1>6

\* ResetDeadline: activate replaces the handshake's deadline.
LEMMA ResetKeepsDeadlines ==
  ASSUME Timeouts!TimeoutConnAssumption, DeadlineInv, Timeouts!ResetDeadline
  PROVE  DeadlineInv'
<1> USE DEF DeadlineInv, Timeouts!ResetDeadline, Timeouts!IO, Timeouts!Goroutine
<1>0. idle \in Nat /\ Delay \in Nat /\ due["handler"] \in Nat /\ quiet \in Nat
  BY DEF DeadlineTypes, Timeouts!TimeoutConnAssumption
<1>1. due["handler"] <= idle /\ (idle > 0 => idle - due["handler"] <= Delay)
  BY <1>0 DEF PendingInv, Timeouts!Pending
<1>2. quiet' \in Nat
  BY <1>0, <1>1, SoonerIsLeast
<1>3. DeadlineTypes'
  BY <1>0, <1>2 DEF DeadlineTypes, Timeouts!Never
<1>4. ActivatedInv'
  BY DEF ActivatedInv, DeadlineTypes
<1>5. PendingInv'
  BY DEF PendingInv, DeadlineTypes, Timeouts!Pending
<1>6. ServingInv'
  BY <1>0, <1>1, <1>2 DEF ServingInv, Timeouts!Never
<1> QED
  BY <1>3, <1>4, <1>5, <1>6

\* ComputeDeadline: activate's own deadline starts at the whole of idle.
LEMMA ComputeKeepsDeadlines ==
  ASSUME Timeouts!TimeoutConnAssumption, DeadlineInv, Timeouts!ComputeDeadline
  PROVE  DeadlineInv'
<1> USE DEF DeadlineInv, Timeouts!ComputeDeadline, Timeouts!IO, Timeouts!Goroutine
<1>0. idle \in Nat /\ Delay \in Nat
  BY DEF DeadlineTypes, Timeouts!TimeoutConnAssumption
<1>1. DeadlineTypes'
  BY <1>0 DEF DeadlineTypes
<1>2. ActivatedInv'
  BY DEF ActivatedInv, DeadlineTypes
<1>3. PendingInv'
  BY <1>0 DEF PendingInv, DeadlineTypes, Timeouts!Pending
<1>4. ServingInv'
  BY DEF ServingInv
<1> QED
  BY <1>1, <1>2, <1>3, <1>4

\* Tick: a deadline comes a tick nearer while quiet grows by no less.
LEMMA TickKeepsDeadlines ==
  ASSUME Timeouts!TimeoutConnAssumption, DeadlineInv, Timeouts!Tick
  PROVE  DeadlineInv'
<1> USE DEF DeadlineInv, Timeouts!Tick, Timeouts!IO, Timeouts!Goroutine
<1>0. idle \in Nat /\ Delay \in Nat /\ quiet \in Nat
  BY DEF DeadlineTypes, Timeouts!TimeoutConnAssumption
<1>1. DeadlineTypes'
  BY <1>0 DEF DeadlineTypes, Timeouts!Never
<1>2. ActivatedInv'
  BY DEF ActivatedInv
<1>3. PendingInv'
  <2> SUFFICES ASSUME NEW g \in Timeouts!Pending
               PROVE  due'[g] <= idle /\ (idle > 0 => idle - due'[g] <= Delay)
    BY DEF PendingInv, Timeouts!Pending
  <2>1. g \in Timeouts!Goroutine /\ due[g] \in Nat
    BY DEF DeadlineTypes, Timeouts!Pending
  <2>2. due'[g] = IF due[g] > 0 THEN due[g] - 1 ELSE due[g]
    BY <2>1
  <2>3. /\ due[g] <= idle
        /\ idle > 0 => idle - due[g] < Delay
    BY DEF PendingInv
  <2> QED
    BY <1>0, <2>1, <2>2, <2>3
<1>4. ServingInv'
  BY <1>0 DEF ServingInv, DeadlineTypes, Timeouts!Never
<1> QED
  BY <1>1, <1>2, <1>3, <1>4

\* Every other step leaves the deadlines alone.
LEMMA OthersKeepDeadlines ==
  ASSUME DeadlineInv,
         \/ \E g \in Timeouts!IO : Timeouts!TimesOut(g)
         \/ Timeouts!ReadReturns
         \/ Timeouts!WriteReturns
         \/ Timeouts!Authenticated
         \/ Timeouts!Rejected
         \/ Timeouts!Activate
         \/ Timeouts!PeerTakes
         \/ Timeouts!FallsSilent
         \/ UNCHANGED Timeouts!vars
  PROVE  DeadlineInv'
<1> USE DEF Timeouts!TimesOut, Timeouts!ReadReturns, Timeouts!WriteReturns,
       Timeouts!Authenticated, Timeouts!Rejected, Timeouts!Activate,
       Timeouts!PeerTakes, Timeouts!FallsSilent, Timeouts!vars, Timeouts!IO
<1>1. UNCHANGED <<idle, left, due, quiet>>
  OBVIOUS
<1>2. DeadlineTypes'
  BY <1>1 DEF DeadlineInv, DeadlineTypes, Timeouts!Goroutine
<1>3. ActivatedInv'
  BY <1>1 DEF DeadlineInv, DeadlineTypes, ActivatedInv
<1>4. /\ \A g \in Timeouts!IO : io'[g] = "set" => io[g] = "set"
      /\ stage' \in {"computed", "serving"} => stage' = stage
  BY DEF DeadlineInv, DeadlineTypes
<1>5. PendingInv'
  BY <1>1, <1>4 DEF DeadlineInv, PendingInv, Timeouts!Pending
<1>6. ServingInv'
  BY <1>1, <1>4 DEF DeadlineInv, ServingInv
<1> QED
  BY <1>2, <1>3, <1>5, <1>6 DEF DeadlineInv

LEMMA DeadlineStep ==
  ASSUME Timeouts!TimeoutConnAssumption, DeadlineInv, [Timeouts!Next]_(Timeouts!vars)
  PROVE  DeadlineInv'
BY TouchKeepsDeadlines, SetDeadlineKeepsDeadlines, ResetKeepsDeadlines,
   ComputeKeepsDeadlines, TickKeepsDeadlines, OthersKeepDeadlines
   DEF Timeouts!Next, Timeouts!HandlerStep

\* server.go:351-383: whoever is past the handshake is cut only for being silent for
\* the idle timeout, less the Delay of a goroutine that computed a deadline
\* and set it late: neither the handshake's deadline nor a race of touches does it.
THEOREM WorkingClientsStay ==
  ASSUME Timeouts!TimeoutConnAssumption
  PROVE  Timeouts!Spec => Timeouts!NotCutEarly
<1> DEFINE Rule == stage = "serving" /\ ~Timeouts!Over /\ Timeouts!Over'
                     => idle > 0 /\ quiet >= idle - Delay
<1>1. Timeouts!Init => DeadlineInv
  BY InitialDeadlines
<1>2. DeadlineInv /\ [Timeouts!Next]_(Timeouts!vars) => DeadlineInv'
  BY DeadlineStep
<1>3. DeadlineInv /\ [Timeouts!Next]_(Timeouts!vars) => [Rule]_(Timeouts!vars)
  <2> SUFFICES ASSUME DeadlineInv, [Timeouts!Next]_(Timeouts!vars), stage = "serving",
                      ~Timeouts!Over, Timeouts!Over'
               PROVE  idle > 0 /\ quiet >= idle - Delay
    OBVIOUS
  <2>1. PICK g \in Timeouts!IO : io[g] # "over" /\ io'[g] = "over"
    BY DEF Timeouts!Over
  <2>2. left = 0
    BY <2>1 DEF DeadlineInv, DeadlineTypes, Timeouts!Next, Timeouts!HandlerStep,
       Timeouts!Touch, Timeouts!SetDeadline, Timeouts!TimesOut, Timeouts!ReadReturns,
       Timeouts!WriteReturns, Timeouts!Authenticated, Timeouts!Rejected,
       Timeouts!Activate, Timeouts!ComputeDeadline, Timeouts!ResetDeadline,
       Timeouts!PeerTakes, Timeouts!FallsSilent, Timeouts!Tick, Timeouts!vars,
       Timeouts!IO
  <2> QED
    BY <2>2 DEF DeadlineInv, DeadlineTypes, ServingInv, Timeouts!Never,
       Timeouts!TimeoutConnAssumption
<1> QED
  BY <1>1, <1>2, <1>3, PTL DEF Timeouts!Spec, Timeouts!NotCutEarly
=============================================================================
