---------------------------- MODULE TimeoutConn ----------------------------
(***************************************************************************)
(* The two deadlines of an SFTP connection (timeoutConn and handleConn of   *)
(* pkg/sftpserver/server.go).  handleConn gives the client HandshakeTime to *)
(* authenticate; after that every Read and Write moves an idle deadline.    *)
(* Three goroutines set the one deadline of the socket: the SSH library's   *)
(* reader, whoever writes (the library lets one write at a time), and       *)
(* handleConn in activate.  Each computes time.Now().Add(idle) first and    *)
(* calls SetDeadline later.  A deadline is kept as the time left to it.     *)
(***************************************************************************)
EXTENDS Integers

CONSTANTS
  HandshakeTime,  \* handshakeTimeout, in ticks
  IdleTimes,      \* the values of config.IdleTimeout tried; 0 is none
  Delay,          \* the most ticks between time.Now() and its SetDeadline
  Buffer          \* writes the kernel takes that the peer has not taken

ASSUME TimeoutConnAssumption ==
  /\ HandshakeTime \in Nat \ {0}
  /\ IdleTimes \subseteq Nat
  /\ Delay \in Nat
  /\ \A t \in IdleTimes : t = 0 \/ t > Delay
  /\ Buffer \in Nat \ {0}

VARIABLES
  idle,    \* timeoutConn.idle
  active,  \* timeoutConn.active
  stage,   \* where handleConn is
  io,      \* io[g]: where g is in its Read or Write
  left,    \* the time left to the socket's deadline, Never if it has none
  due,     \* due[g]: the time left to the deadline g is about to set
  room,    \* writes the kernel still takes
  silent,  \* has the peer gone silent for good?
  quiet    \* since the last Read or Write began, or since activate; it stops
           \* counting at idle

vars == <<idle, active, stage, io, left, due, room, silent, quiet>>

Never == -1
IO == {"reader", "writer"}
Goroutine == IO \union {"handler"}

\* Has a goroutine of the SSH library met the deadline?
Over == \E g \in IO : io[g] = "over"

Sooner(t, u) == IF t < u THEN t ELSE u

Init ==
  /\ idle \in IdleTimes
  /\ active = FALSE
  /\ stage = "handshake"
  /\ io = [g \in IO |-> "run"]
  /\ left = HandshakeTime
  /\ due = [g \in Goroutine |-> 0]
  /\ room = Buffer
  /\ silent = FALSE
  /\ quiet = 0

-----------------------------------------------------------------------------
(* Read and Write.                                                         *)

\* Mutant: the idle deadline replaces the handshake's from the first read on.
TouchAlways(g) ==
  /\ io[g] = "run"
  /\ IF idle > 0
       THEN /\ io' = [io EXCEPT ![g] = "set"]
            /\ due' = [due EXCEPT ![g] = idle]
            /\ UNCHANGED quiet
       ELSE /\ io' = [io EXCEPT ![g] = "blocked"]
            /\ quiet' = IF active THEN 0 ELSE quiet
            /\ UNCHANGED due
  /\ UNCHANGED <<idle, active, stage, left, room, silent>>

\* Mutant: a Write does not touch.
TouchRead(g) ==
  /\ io[g] = "run"
  /\ IF active /\ idle > 0 /\ g = "reader"
       THEN /\ io' = [io EXCEPT ![g] = "set"]
            /\ due' = [due EXCEPT ![g] = idle]
            /\ UNCHANGED quiet
       ELSE /\ io' = [io EXCEPT ![g] = "blocked"]
            /\ quiet' = IF active THEN 0 ELSE quiet
            /\ UNCHANGED due
  /\ UNCHANGED <<idle, active, stage, left, room, silent>>

\* The call begins.  touch looks at active, and computes the deadline.
Touch(g) ==
  /\ io[g] = "run"
  /\ IF active /\ idle > 0
       THEN /\ io' = [io EXCEPT ![g] = "set"]
            /\ due' = [due EXCEPT ![g] = idle]
            /\ UNCHANGED quiet
       ELSE /\ io' = [io EXCEPT ![g] = "blocked"]
            /\ quiet' = IF active THEN 0 ELSE quiet
            /\ UNCHANGED due
  /\ UNCHANGED <<idle, active, stage, left, room, silent>>

\* touch calls SetDeadline, for both directions; then the call may block.
SetDeadline(g) ==
  /\ io[g] = "set"
  /\ left' = due[g]
  /\ io' = [io EXCEPT ![g] = "blocked"]
  /\ quiet' = Sooner(quiet, idle - due[g])
  /\ UNCHANGED <<idle, active, stage, due, room, silent>>

\* The call succeeds: the peer sent something, or the kernel took the data.
ReadReturns ==
  /\ io["reader"] = "blocked"
  /\ left # 0
  /\ ~silent
  /\ io' = [io EXCEPT !["reader"] = "run"]
  /\ UNCHANGED <<idle, active, stage, left, due, room, silent, quiet>>

WriteReturns ==
  /\ io["writer"] = "blocked"
  /\ left # 0
  /\ room > 0
  /\ room' = room - 1
  /\ io' = [io EXCEPT !["writer"] = "run"]
  /\ UNCHANGED <<idle, active, stage, left, due, silent, quiet>>

\* A call finds the deadline passed, or the library has closed the socket
\* because another did.
TimesOut(g) ==
  /\ io[g] = "blocked"
  /\ left = 0 \/ Over
  /\ io' = [io EXCEPT ![g] = "over"]
  /\ UNCHANGED <<idle, active, stage, left, due, room, silent, quiet>>

-----------------------------------------------------------------------------
(* handleConn.                                                             *)

\* ssh.NewServerConn returns: the client is authenticated, or it is not, or
\* the socket met its deadline.
Authenticated ==
  /\ stage = "handshake"
  /\ ~Over /\ ~silent
  /\ stage' = "authenticated"
  /\ UNCHANGED <<idle, active, io, left, due, room, silent, quiet>>

Rejected ==
  /\ stage = "handshake"
  /\ stage' = "rejected"
  /\ UNCHANGED <<idle, active, io, left, due, room, silent, quiet>>

\* activate: active.Store.
Activate ==
  /\ stage = "authenticated"
  /\ active' = TRUE
  /\ stage' = "stored"
  /\ UNCHANGED <<idle, io, left, due, room, silent, quiet>>

ComputeDeadline ==
  /\ stage = "stored"
  /\ due' = [due EXCEPT !["handler"] = idle]
  /\ stage' = "computed"
  /\ UNCHANGED <<idle, active, io, left, room, silent, quiet>>

\* Mutant: the handshake deadline is lifted, and the next Read or Write is
\* left to set the idle one.
ResetDeadlineNever ==
  /\ stage = "computed"
  /\ left' = Never
  /\ quiet' = Sooner(quiet, idle - due["handler"])
  /\ stage' = "serving"
  /\ UNCHANGED <<idle, active, io, due, room, silent>>

\* activate: SetDeadline, which a read that is blocked since the handshake
\* obeys too.
ResetDeadline ==
  /\ stage = "computed"
  /\ left' = IF idle > 0 THEN due["handler"] ELSE Never
  /\ quiet' = Sooner(quiet, idle - due["handler"])
  /\ stage' = "serving"
  /\ UNCHANGED <<idle, active, io, due, room, silent>>

-----------------------------------------------------------------------------
(* The peer and time.                                                      *)

PeerTakes ==
  /\ ~silent
  /\ room < Buffer
  /\ room' = room + 1
  /\ UNCHANGED <<idle, active, stage, io, left, due, silent, quiet>>

FallsSilent ==
  /\ ~silent
  /\ silent' = TRUE
  /\ UNCHANGED <<idle, active, stage, io, left, due, room, quiet>>

Pending ==
  {g \in IO : io[g] = "set"} \union {g \in {"handler"} : stage = "computed"}

Tick ==
  /\ \A g \in Pending : idle > 0 => idle - due[g] < Delay
  /\ left' = IF left > 0 THEN left - 1 ELSE left
  /\ due' = [g \in Goroutine |->
              IF g \in Pending /\ due[g] > 0 THEN due[g] - 1 ELSE due[g]]
  /\ quiet' = IF quiet < idle THEN quiet + 1 ELSE quiet
  /\ UNCHANGED <<idle, active, stage, io, room, silent>>

HandlerStep ==
  \/ Over /\ Rejected
  \/ Activate
  \/ ComputeDeadline
  \/ ResetDeadline

Next ==
  \/ \E g \in IO : Touch(g) \/ SetDeadline(g) \/ TimesOut(g)
  \/ ReadReturns
  \/ WriteReturns
  \/ Authenticated
  \/ Rejected
  \/ HandlerStep
  \/ PeerTakes
  \/ FallsSilent
  \/ Tick

Spec == Init /\ [][Next]_vars

\* Goroutines run, and no number of their steps stops the clock.  The reader
\* always comes back to Read; nobody has to write.
Fairness ==
  /\ SF_vars(Tick)
  /\ WF_vars(HandlerStep)
  /\ WF_vars(Touch("reader"))
  /\ \A g \in IO : WF_vars(SetDeadline(g)) /\ WF_vars(TimesOut(g))

FairSpec == Spec /\ Fairness

-----------------------------------------------------------------------------
(* Properties.                                                             *)

\* An authenticated connection is cut only if it has an idle timeout and no
\* Read or Write was begun for that long: neither the handshake's deadline nor
\* a touch that was overtaken by another costs it more than Delay.
NotCutEarly ==
  [][stage = "serving" /\ ~Over /\ Over' => idle > 0 /\ quiet >= idle - Delay]_vars

\* A peer that goes silent is cut off, before the handshake is over in any
\* case, and after it if there is an idle timeout: also when the reader has been
\* blocked since the handshake, and when there is still something to write.
SilentIsCut ==
  silent /\ (idle > 0 \/ stage = "handshake") ~> Over \/ stage = "rejected"

\* No client stays in the handshake for ever, not even one that keeps sending.
HandshakeEnds == stage = "handshake" ~> stage # "handshake"
=============================================================================
