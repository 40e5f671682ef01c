------------------------------- MODULE Daemon -------------------------------
(***************************************************************************)
(* The life of the daemon: main's start, select and shutdown in             *)
(* cmd/vkftpd/main.go, the status files of pkg/status/writer.go with their  *)
(* heartbeat goroutine, and the two ListenAndServe goroutines, over several *)
(* runs of the process.  The status files outlive a run; the MUD reads them *)
(* to tell a crash from a stop.  What the servers do inside is SftpServer's *)
(* subject: here one serves, fails, or returns after Stop.                  *)
(***************************************************************************)
EXTENDS Integers, Sequences

CONSTANTS
  Interval,   \* the ticks between two heartbeats (10s)
  Stale,      \* the age at which the MUD calls "running" stale (60s)
  WriteFails, \* may writing a status file fail?
  MaxRuns,    \* bound of the model: how often the daemon is started
  MaxTime     \* bound of the model: the clock stops here

ASSUME DaemonAssumption ==
  /\ {Interval, Stale, MaxRuns, MaxTime} \subseteq Nat
  /\ 0 < Interval /\ Interval < Stale
  /\ WriteFails \in BOOLEAN

Server == {"ftp", "sftp"}

VARIABLES
  now,        \* the clock
  run,        \* how often the daemon has been started
  pc,         \* where main is; "down" when there is no process
  heart,      \* where the heartbeat goroutine is
  beatAt,     \* when it started, or sampled what it writes
  nextTick,   \* when its ticker fires, or has fired and waits to be received
  stopCh,     \* Writer.stopCh has been closed
  serving,    \* serving[s]: "off", "serving", "stopping" or "returned"
  serverErr,  \* the results of ListenAndServe waiting in the channel
  signalled,  \* a signal waits in sigChan
  reason,     \* the reason main gives to Shutdown, "none" before it has one
  running,    \* the file "running": when and in which run it was written
  lastStop,   \* the file "last_stop": when, in which run and why
  ended       \* how the last run ended: "none", "orderly" or "crashed"

process == <<heart, beatAt, nextTick, stopCh, serving, serverErr, signalled, reason>>
files == <<running, lastStop>>
vars == <<now, run, pc, process, files, ended>>

NoFile == [at |-> -1, run |-> 0, why |-> "none"]

Init ==
  /\ now = 0
  /\ run = 0
  /\ pc = "down"
  /\ heart = "off"
  /\ beatAt = 0
  /\ nextTick = 0
  /\ stopCh = FALSE
  /\ serving = [s \in Server |-> "off"]
  /\ serverErr = <<>>
  /\ signalled = FALSE
  /\ reason = "none"
  /\ running = NoFile
  /\ lastStop = NoFile
  /\ ended = "none"

\* The process is gone, and with it its goroutines and all but the files.
Gone ==
  /\ pc' = "down"
  /\ heart' = "off"
  /\ beatAt' = 0
  /\ nextTick' = 0
  /\ stopCh' = FALSE
  /\ serving' = [s \in Server |-> "off"]
  /\ serverErr' = <<>>
  /\ signalled' = FALSE
  /\ reason' = "none"
  /\ UNCHANGED <<now, run>>

-----------------------------------------------------------------------------
(* main.                                                                   *)

\* Everything up to and including WriteStartFile.
Start ==
  /\ pc = "down"
  /\ run < MaxRuns
  /\ run' = run + 1
  /\ pc' = "started"
  /\ ended' = "none"
  /\ UNCHANGED <<now, process, files>>

\* StartHeartbeat, then the two server goroutines.
Serve ==
  /\ pc = "started"
  /\ pc' = "select"
  /\ heart' = "beat"
  /\ beatAt' = now
  /\ nextTick' = now + Interval
  /\ serving' = [s \in Server |-> "serving"]
  /\ UNCHANGED <<now, run, stopCh, serverErr, signalled, reason, files, ended>>

\* The select: a server's result or a signal, whichever it takes.
TakeServerErr ==
  /\ pc = "select"
  /\ serverErr # <<>>
  /\ reason' = Head(serverErr)
  /\ serverErr' = Tail(serverErr)
  /\ pc' = "stopHeart"
  /\ UNCHANGED <<now, run, heart, beatAt, nextTick, stopCh, serving, signalled, files, ended>>

TakeSignal ==
  /\ pc = "select"
  /\ signalled
  /\ signalled' = FALSE
  /\ reason' = "signal"
  /\ pc' = "stopHeart"
  /\ UNCHANGED <<now, run, heart, beatAt, nextTick, stopCh, serving, serverErr, files, ended>>

\* main panics while it waits: the deferred Shutdown runs before the end.
PanicInMain ==
  /\ pc = "select"
  /\ reason' = "unexpected_exit"
  /\ pc' = "stopHeart"
  /\ UNCHANGED <<now, run, heart, beatAt, nextTick, stopCh, serving, serverErr, signalled, files, ended>>

\* Mutant: nobody closes stopCh.
CloseStopChNot ==
  /\ pc = "stopHeart"
  /\ pc' = "waitHeart"
  /\ UNCHANGED <<now, run, heart, beatAt, nextTick, stopCh, serving, serverErr, signalled, reason, files, ended>>

\* Writer.Shutdown: close(stopCh), then wg.Wait ...
CloseStopCh ==
  /\ pc = "stopHeart"
  /\ stopCh' = TRUE
  /\ pc' = "waitHeart"
  /\ UNCHANGED <<now, run, heart, beatAt, nextTick, serving, serverErr, signalled, reason, files, ended>>

\* Mutant: last_stop does not wait for the heartbeat.
HeartStoppedOrNot == TRUE

HeartStopped == heart = "off"

\* ... then WriteStopFile, which may fail; a panic leaves no servers to stop.
WriteStopFile ==
  /\ pc = "waitHeart"
  /\ HeartStopped
  /\ \/ lastStop' = [at |-> now, run |-> run, why |-> reason]
     \/ WriteFails /\ UNCHANGED lastStop
  /\ pc' = IF reason = "unexpected_exit" THEN "exit" ELSE "stopFtp"
  /\ UNCHANGED <<now, run, process, running, ended>>

StopServer(s) == serving' = [serving EXCEPT ![s] = IF @ = "serving" THEN "stopping" ELSE @]

\* stopServers: server.Stop, then sftpServer.Stop.
StopFtp ==
  /\ pc = "stopFtp"
  /\ StopServer("ftp")
  /\ pc' = "stopSftp"
  /\ UNCHANGED <<now, run, heart, beatAt, nextTick, stopCh, serverErr, signalled, reason, files, ended>>

StopSftp ==
  /\ pc = "stopSftp"
  /\ StopServer("sftp")
  /\ pc' = "exit"
  /\ UNCHANGED <<now, run, heart, beatAt, nextTick, stopCh, serverErr, signalled, reason, files, ended>>

\* Mutant: the deferred Shutdown writes last_stop once more.
ExitWithFallback ==
  /\ pc = "exit"
  /\ Gone
  /\ ended' = "orderly"
  /\ lastStop' = [at |-> now, run |-> run, why |-> "unexpected_exit"]
  /\ UNCHANGED running

\* RunE returns; the deferred Shutdown finds its Once done.
Exit ==
  /\ pc = "exit"
  /\ Gone
  /\ ended' = "orderly"
  /\ UNCHANGED files

-----------------------------------------------------------------------------
(* The heartbeat goroutine.                                                *)

\* writeRunningFile samples the time and the metrics ...
Sample ==
  /\ heart = "beat"
  /\ heart' = "write"
  /\ beatAt' = now
  /\ UNCHANGED <<now, run, pc, nextTick, stopCh, serving, serverErr, signalled, reason, files, ended>>

\* Mutant: the time is the one at which the run began to beat.
WriteRunningOnce ==
  /\ heart = "write"
  /\ heart' = "wait"
  /\ running' = [at |-> IF running.run = run THEN running.at ELSE beatAt,
                  run |-> run, why |-> "none"]
  /\ UNCHANGED <<now, run, pc, beatAt, nextTick, stopCh, serving, serverErr, signalled, reason, lastStop, ended>>

\* ... and renames the temporary file into place, unless that fails.
WriteRunning ==
  /\ heart = "write"
  /\ heart' = "wait"
  /\ \/ running' = [at |-> beatAt, run |-> run, why |-> "none"]
     \/ WriteFails /\ UNCHANGED running
  /\ UNCHANGED <<now, run, pc, beatAt, nextTick, stopCh, serving, serverErr, signalled, reason, lastStop, ended>>

\* The select of the heartbeat: when the ticker and stopCh are both ready it
\* may take either.  The ticker's channel keeps one tick, and the ticks that
\* come while it is full are dropped.
TickerFires ==
  /\ heart = "wait"
  /\ now >= nextTick
  /\ heart' = "beat"
  /\ nextTick' = nextTick + Interval * (1 + (now - nextTick) \div Interval)
  /\ UNCHANGED <<now, run, pc, beatAt, stopCh, serving, serverErr, signalled, reason, files, ended>>

HeartStops ==
  /\ heart = "wait"
  /\ stopCh
  /\ heart' = "off"
  /\ UNCHANGED <<now, run, pc, beatAt, nextTick, stopCh, serving, serverErr, signalled, reason, files, ended>>

-----------------------------------------------------------------------------
(* The servers and the world.                                              *)

Returns(s, result) ==
  /\ serving' = [serving EXCEPT ![s] = "returned"]
  /\ serverErr' = Append(serverErr, result)
  /\ UNCHANGED <<now, run, pc, heart, beatAt, nextTick, stopCh, signalled, reason, files, ended>>

\* ListenAndServe fails: the port is taken, or Accept fails for good.
ServerFails(s) == serving[s] = "serving" /\ Returns(s, "server_error")

\* Mutant: the goroutine sends again what it has sent.
ServerStopsAgain(s) == serving[s] \in {"stopping", "returned"} /\ Returns(s, "server_stopped")

\* After Stop it returns nil.
ServerStops(s) == serving[s] = "stopping" /\ Returns(s, "server_stopped")

\* sigChan holds one signal.  Before signal.Notify a signal is a Crash.
Signal ==
  /\ pc \notin {"down", "started"}
  /\ ~signalled
  /\ signalled' = TRUE
  /\ UNCHANGED <<now, run, pc, heart, beatAt, nextTick, stopCh, serving, serverErr, reason, files, ended>>

\* The process dies: killed, or a goroutine other than main panics.
Crash ==
  /\ pc # "down"
  /\ Gone
  /\ ended' = "crashed"
  /\ UNCHANGED files

\* Time passes, but the heartbeat is not late by more than a tick, and
\* Shutdown does not wait between the heartbeat's end and last_stop.
Tick ==
  /\ now < MaxTime
  /\ pc = "waitHeart" => heart # "off"
  /\ heart \in {"beat", "write", "wait"} => now - beatAt <= Interval
  /\ now' = now + 1
  /\ UNCHANGED <<run, pc, process, files, ended>>

MainStep ==
  \/ Serve
  \/ TakeServerErr
  \/ TakeSignal
  \/ CloseStopCh
  \/ WriteStopFile
  \/ StopFtp
  \/ StopSftp
  \/ Exit

HeartStep == Sample \/ WriteRunning \/ TickerFires \/ HeartStops

Next ==
  \/ Start
  \/ MainStep
  \/ PanicInMain
  \/ HeartStep
  \/ \E s \in Server : ServerFails(s) \/ ServerStops(s)
  \/ Signal
  \/ Crash
  \/ Tick

Spec == Init /\ [][Next]_vars

\* main and the heartbeat run; a select that could always take stopCh does in
\* the end.  SftpServer shows that Stop returns.
FairSpec == Spec /\ WF_vars(MainStep) /\ WF_vars(HeartStep) /\ SF_vars(HeartStops)

-----------------------------------------------------------------------------
(* Properties.                                                             *)

File == [at : -1 .. MaxTime, run : 0 .. MaxRuns,
         why : {"none", "signal", "server_error", "server_stopped", "unexpected_exit"}]

TypeOK ==
  /\ now \in 0 .. MaxTime
  /\ run \in 0 .. MaxRuns
  /\ pc \in {"down", "started", "select", "stopHeart", "waitHeart", "stopFtp",
             "stopSftp", "exit"}
  /\ heart \in {"off", "beat", "write", "wait"}
  /\ beatAt \in 0 .. MaxTime
  /\ nextTick \in 0 .. MaxTime + Interval
  /\ stopCh \in BOOLEAN
  /\ serving \in [Server -> {"off", "serving", "stopping", "returned"}]
  /\ Len(serverErr) <= 2
  /\ signalled \in BOOLEAN
  /\ {running, lastStop} \subseteq File

\* README.md:107, how the MUD detects a crash: "running" is stale without a
\* corresponding update of last_stop.
MudSeesCrash ==
  /\ running # NoFile
  /\ now - running.at > Stale
  /\ lastStop.at < running.at

\* A run that ended in order and could write last_stop never looks crashed:
\* no heartbeat of it lands in "running" after last_stop was written.
OrderlyStopIsSeen ==
  pc = "down" /\ ended = "orderly" => ~MudSeesCrash

\* While the daemon serves, and until it is gone after a signal or an error,
\* the MUD does not take it for crashed, however the shutdown interleaves
\* with the heartbeat.
AliveIsSeen ==
  pc # "down" /\ running.run = run /\ run > 0 => ~MudSeesCrash

\* Every crash is seen so, once "running" is old: README.md:107.
CrashIsSeen ==
  pc = "down" /\ ended = "crashed" /\ now - running.at > Stale => MudSeesCrash

\* Once the run's last_stop is written neither file changes again: no heartbeat
\* comes late, and the fallback "unexpected_exit" replaces no better reason.
LastStopIsLast ==
  [][lastStop.run = run /\ run > 0 /\ run' = run => UNCHANGED files]_vars

\* A signal ends the run, also one that comes while a server fails, or while
\* the heartbeat is writing; so does the failure of one server, without the
\* other.
ShutdownCompletes == signalled \/ serverErr # <<>> ~> pc = "down"
=============================================================================
