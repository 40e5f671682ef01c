---------------------------- MODULE DaemonProofs ----------------------------
(***************************************************************************)
(* For any interval, any number of runs and any clock: the daemon's status  *)
(* files, as the MUD reads them.                                            *)
(***************************************************************************)
EXTENDS Daemon, TLAPS

-----------------------------------------------------------------------------
(* The inductive invariant.                                                *)

Place == {"down", "started", "select", "stopHeart", "waitHeart", "stopFtp", "stopSftp", "exit"}
Result == {"server_error", "server_stopped"}
Why == Result \union {"none", "signal", "unexpected_exit"}
Written == [at : -1 .. MaxTime, run : 0 .. MaxRuns, why : Why]

Shape ==
  /\ now \in 0 .. MaxTime
  /\ run \in 0 .. MaxRuns
  /\ pc \in Place
  /\ heart \in {"off", "beat", "write", "wait"}
  /\ beatAt \in 0 .. now
  /\ nextTick \in 0 .. now + Interval
  /\ stopCh \in BOOLEAN
  /\ serving \in [Server -> {"off", "serving", "stopping", "returned"}]
  /\ serverErr \in Seq(Result)
  /\ signalled \in BOOLEAN
  /\ reason \in Why
  /\ running \in Written
  /\ lastStop \in Written

\* Each server returns once, so that the results that wait fit the channel.
Sent(s) == IF serving[s] = "returned" THEN 1 ELSE 0
ResultsInv ==
  /\ Len(serverErr) <= Sent("ftp") + Sent("sftp")
  /\ pc \in {"down", "started"} => \A s \in Server : serving[s] = "off"

\* The heartbeat beats from StartHeartbeat until Shutdown has it stop, and
\* main goes on only when it has.
HeartInv ==
  /\ heart # "off" => pc \in {"select", "stopHeart", "waitHeart"}
  /\ pc \in {"select", "stopHeart"} => heart # "off"
  /\ pc \in {"down", "started", "select", "stopHeart"} => ~stopCh

\* No file is of a later time or run; last_stop is of this run only once
\* Shutdown has come to it.
FilesInv ==
  /\ running.at <= now /\ running.run <= run
  /\ lastStop.at <= now /\ lastStop.run <= run
  /\ pc # "down" => run > 0
  /\ run > 0 /\ lastStop.run = run => pc \in {"stopFtp", "stopSftp", "exit", "down"}
  /\ pc = "started" => running.run < run

\* last_stop is of a run that has shut down, and no older than running.
StoppedInv ==
  pc \in {"stopFtp", "stopSftp", "exit"} \/ (pc = "down" /\ ended = "orderly") =>
    lastStop.at >= running.at

\* While the heartbeat beats, running is at most two beats old.
BeatInv ==
  /\ heart # "off" => now - beatAt <= Interval + 1
  /\ heart = "wait" => running.run = run
  /\ heart \in {"beat", "wait"} /\ running.run = run => running.at = beatAt
  /\ heart = "write" /\ running.run = run => beatAt - running.at <= Interval + 1
  /\ pc = "waitHeart" /\ heart = "off" => running.run = run /\ now - running.at <= Interval + 1

IInv ==
  /\ Shape
  /\ ResultsInv
  /\ HeartInv
  /\ FilesInv
  /\ ~WriteFails => StoppedInv /\ BeatInv

-----------------------------------------------------------------------------
(* Every step keeps it.                                                    *)

\* The ticker's next tick is at most an interval away.
LEMMA NextTick ==
  ASSUME NEW t \in Nat, NEW n \in Nat, n >= t, NEW d \in Nat \ {0}
  PROVE  t + d * (1 + (n - t) \div d) \in 0 .. n + d
<1> DEFINE q == (n - t) \div d
<1>1. q \in Nat /\ d * q <= n - t
  OBVIOUS
<1> HIDE DEF q
<1>2. d * (1 + q) = d + d * q /\ d * q \in Nat
  BY <1>1
<1> QED
  BY <1>1, <1>2 DEF q

LEMMA NoResults == <<>> \in Seq(Result) /\ Len(<<>>) = 0
OBVIOUS

LEMMA InitialDaemon == Init => IInv
<1> SUFFICES ASSUME Init PROVE IInv
  OBVIOUS
<1>1. NoFile \in Written /\ NoFile.at = -1 /\ NoFile.run = 0
  BY DaemonAssumption DEF NoFile, Written, Why
<1> HIDE DEF NoFile
<1>2. Shape
  <2>1. serverErr \in Seq(Result)
    BY NoResults DEF Init
  <2>2. now \in 0 .. MaxTime /\ run \in 0 .. MaxRuns /\ beatAt \in 0 .. now
    BY DaemonAssumption DEF Init
  <2>3. nextTick \in 0 .. now + Interval
    BY DaemonAssumption DEF Init
  <2>4. pc \in Place /\ heart \in {"off", "beat", "write", "wait"} /\ reason \in Why
    BY DEF Init, Place, Why
  <2>5. stopCh \in BOOLEAN /\ signalled \in BOOLEAN
    BY DEF Init
  <2>6. serving \in [Server -> {"off", "serving", "stopping", "returned"}]
    BY DEF Init
  <2>7. running \in Written /\ lastStop \in Written
    BY <1>1 DEF Init
  <2> QED
    BY <2>1, <2>2, <2>3, <2>4, <2>5, <2>6, <2>7 DEF Shape
<1>3. ResultsInv
  BY NoResults DEF Init, ResultsInv, Sent, Server
<1>4. HeartInv
  BY DEF Init, HeartInv
<1>5. FilesInv
  BY <1>1 DEF Init, FilesInv
<1>6. StoppedInv /\ BeatInv
  BY <1>1, DaemonAssumption DEF Init, StoppedInv, BeatInv
<1> QED
  BY <1>2, <1>3, <1>4, <1>5, <1>6 DEF IInv

LEMMA StartKeeps ==
  ASSUME IInv, Start
  PROVE  IInv'
<1>1. Shape'
  BY DaemonAssumption DEF IInv, Shape, Place, Start, process, files
<1>2. ResultsInv'
  BY DEF IInv, ResultsInv, Sent, Start, process
<1>3. HeartInv'
  BY DEF IInv, HeartInv, Start, process
<1>4. FilesInv'
  BY DaemonAssumption DEF IInv, Shape, Written, HeartInv, FilesInv, Start, process, files
<1>5. ~WriteFails => StoppedInv' /\ BeatInv'
  BY DaemonAssumption
     DEF IInv, Shape, Written, HeartInv, FilesInv, StoppedInv, BeatInv, Start, process, files
<1> QED
  BY <1>1, <1>2, <1>3, <1>4, <1>5 DEF IInv

LEMMA ServeKeeps ==
  ASSUME IInv, Serve
  PROVE  IInv'
<1>1. Shape'
  BY DaemonAssumption DEF IInv, Shape, Place, Serve, files
<1>2. ResultsInv'
  BY DEF IInv, Shape, ResultsInv, Sent, Server, Serve
<1>3. HeartInv'
  BY DEF IInv, HeartInv, Serve
<1>4. FilesInv'
  BY DaemonAssumption DEF IInv, FilesInv, Serve, files
<1>5. ~WriteFails => StoppedInv' /\ BeatInv'
  BY DaemonAssumption
     DEF IInv, Shape, Written, HeartInv, FilesInv, StoppedInv, BeatInv, Serve, files
<1> QED
  BY <1>1, <1>2, <1>3, <1>4, <1>5 DEF IInv

LEMMA TakeServerErrKeeps ==
  ASSUME IInv, TakeServerErr
  PROVE  IInv'
<1>1. Shape'
  BY DaemonAssumption DEF IInv, Shape, Place, Why, Result, TakeServerErr, files
<1>2. ResultsInv'
  BY DEF IInv, Shape, ResultsInv, Sent, Server, TakeServerErr
<1>3. HeartInv'
  BY DEF IInv, HeartInv, TakeServerErr
<1>4. FilesInv'
  BY DaemonAssumption DEF IInv, FilesInv, TakeServerErr, files
<1>5. ~WriteFails => StoppedInv' /\ BeatInv'
  BY DaemonAssumption
     DEF IInv, Shape, Written, HeartInv, FilesInv, StoppedInv, BeatInv, TakeServerErr, files
<1> QED
  BY <1>1, <1>2, <1>3, <1>4, <1>5 DEF IInv

LEMMA TakeSignalKeeps ==
  ASSUME IInv, TakeSignal
  PROVE  IInv'
<1>1. Shape'
  BY DaemonAssumption DEF IInv, Shape, Place, Why, Result, TakeSignal, files
<1>2. ResultsInv'
  BY DEF IInv, ResultsInv, Sent, TakeSignal
<1>3. HeartInv'
  BY DEF IInv, HeartInv, TakeSignal
<1>4. FilesInv'
  BY DaemonAssumption DEF IInv, FilesInv, TakeSignal, files
<1>5. ~WriteFails => StoppedInv' /\ BeatInv'
  BY DaemonAssumption
     DEF IInv, Shape, Written, HeartInv, FilesInv, StoppedInv, BeatInv, TakeSignal, files
<1> QED
  BY <1>1, <1>2, <1>3, <1>4, <1>5 DEF IInv

LEMMA PanicInMainKeeps ==
  ASSUME IInv, PanicInMain
  PROVE  IInv'
<1>1. Shape'
  BY DaemonAssumption DEF IInv, Shape, Place, Why, Result, PanicInMain, files
<1>2. ResultsInv'
  BY DEF IInv, ResultsInv, Sent, PanicInMain
<1>3. HeartInv'
  BY DEF IInv, HeartInv, PanicInMain
<1>4. FilesInv'
  BY DaemonAssumption DEF IInv, FilesInv, PanicInMain, files
<1>5. ~WriteFails => StoppedInv' /\ BeatInv'
  BY DaemonAssumption
     DEF IInv, Shape, Written, HeartInv, FilesInv, StoppedInv, BeatInv, PanicInMain, files
<1> QED
  BY <1>1, <1>2, <1>3, <1>4, <1>5 DEF IInv

LEMMA CloseStopChKeeps ==
  ASSUME IInv, CloseStopCh
  PROVE  IInv'
<1>1. Shape'
  BY DaemonAssumption DEF IInv, Shape, Place, CloseStopCh, files
<1>2. ResultsInv'
  BY DEF IInv, ResultsInv, Sent, CloseStopCh
<1>3. HeartInv'
  BY DEF IInv, HeartInv, CloseStopCh
<1>4. FilesInv'
  BY DaemonAssumption DEF IInv, FilesInv, CloseStopCh, files
<1>5. ~WriteFails => StoppedInv' /\ BeatInv'
  BY DaemonAssumption
     DEF IInv, Shape, Written, HeartInv, FilesInv, StoppedInv, BeatInv, CloseStopCh, files
<1> QED
  BY <1>1, <1>2, <1>3, <1>4, <1>5 DEF IInv

LEMMA WriteStopFileKeeps ==
  ASSUME IInv, WriteStopFile
  PROVE  IInv'
<1>1. Shape'
  BY DaemonAssumption DEF IInv, Shape, Place, Written, Why, WriteStopFile, process, HeartStopped
<1>2. ResultsInv'
  BY DEF IInv, ResultsInv, Sent, WriteStopFile, process, HeartStopped
<1>3. HeartInv'
  BY DEF IInv, HeartInv, WriteStopFile, process, HeartStopped
<1>4. FilesInv'
  BY DaemonAssumption
     DEF IInv, Shape, Written, HeartInv, FilesInv, WriteStopFile, process, HeartStopped
<1>5. ~WriteFails => StoppedInv' /\ BeatInv'
  BY DaemonAssumption
     DEF IInv, Shape, Written, HeartInv, FilesInv, StoppedInv, BeatInv, WriteStopFile, process, HeartStopped
<1> QED
  BY <1>1, <1>2, <1>3, <1>4, <1>5 DEF IInv

LEMMA StopFtpKeeps ==
  ASSUME IInv, StopFtp
  PROVE  IInv'
<1>1. Shape'
  BY DaemonAssumption DEF IInv, Shape, Place, StopFtp, files, StopServer
<1>2. ResultsInv'
  BY DEF IInv, ResultsInv, Sent, StopFtp, StopServer
<1>3. HeartInv'
  BY DEF IInv, HeartInv, StopFtp, StopServer
<1>4. FilesInv'
  BY DaemonAssumption DEF IInv, FilesInv, StopFtp, files, StopServer
<1>5. ~WriteFails => StoppedInv' /\ BeatInv'
  BY DaemonAssumption
     DEF IInv, Shape, Written, HeartInv, FilesInv, StoppedInv, BeatInv, StopFtp, files, StopServer
<1> QED
  BY <1>1, <1>2, <1>3, <1>4, <1>5 DEF IInv

LEMMA StopSftpKeeps ==
  ASSUME IInv, StopSftp
  PROVE  IInv'
<1>1. Shape'
  BY DaemonAssumption DEF IInv, Shape, Place, StopSftp, files, StopServer
<1>2. ResultsInv'
  BY DEF IInv, ResultsInv, Sent, StopSftp, StopServer
<1>3. HeartInv'
  BY DEF IInv, HeartInv, StopSftp, StopServer
<1>4. FilesInv'
  BY DaemonAssumption DEF IInv, FilesInv, StopSftp, files, StopServer
<1>5. ~WriteFails => StoppedInv' /\ BeatInv'
  BY DaemonAssumption
     DEF IInv, Shape, Written, HeartInv, FilesInv, StoppedInv, BeatInv, StopSftp, files, StopServer
<1> QED
  BY <1>1, <1>2, <1>3, <1>4, <1>5 DEF IInv

\* What is left of a process is of the shape it started with.
LEMMA GoneKeepsShape ==
  ASSUME Shape, Gone, UNCHANGED files
  PROVE  Shape'
<1>1. now' \in 0 .. MaxTime /\ run' \in 0 .. MaxRuns
  BY DEF Shape, Gone
<1>2. pc' \in Place /\ heart' \in {"off", "beat", "write", "wait"} /\ reason' \in Why
  BY DEF Place, Why, Gone
<1>3. beatAt' \in 0 .. now' /\ nextTick' \in 0 .. now' + Interval
  BY DaemonAssumption DEF Shape, Gone
<1>4. stopCh' \in BOOLEAN /\ signalled' \in BOOLEAN
  BY DEF Gone
<1>5. serving' \in [Server -> {"off", "serving", "stopping", "returned"}]
  BY DEF Gone
<1>6. serverErr' \in Seq(Result)
  BY NoResults DEF Gone
<1>7. running' \in Written /\ lastStop' \in Written
  BY DEF Shape, files
<1> QED
  BY <1>1, <1>2, <1>3, <1>4, <1>5, <1>6, <1>7 DEF Shape

LEMMA ExitKeeps ==
  ASSUME IInv, Exit
  PROVE  IInv'
<1>1. Shape'
  BY GoneKeepsShape DEF IInv, Exit
<1>2. ResultsInv'
  BY DEF IInv, Shape, ResultsInv, Sent, Server, Exit, Gone
<1>3. HeartInv'
  BY DEF IInv, HeartInv, Exit, Gone
<1>4. FilesInv'
  BY DaemonAssumption DEF IInv, FilesInv, Exit, files, Gone
<1>5. ~WriteFails => StoppedInv' /\ BeatInv'
  BY DaemonAssumption
     DEF IInv, Shape, Written, HeartInv, FilesInv, StoppedInv, BeatInv, Exit, files, Gone
<1> QED
  BY <1>1, <1>2, <1>3, <1>4, <1>5 DEF IInv

LEMMA SampleKeeps ==
  ASSUME IInv, Sample
  PROVE  IInv'
<1>1. Shape'
  BY DaemonAssumption DEF IInv, Shape, Sample, files
<1>2. ResultsInv'
  BY DEF IInv, ResultsInv, Sent, Sample
<1>3. HeartInv'
  BY DEF IInv, HeartInv, Sample
<1>4. FilesInv'
  BY DaemonAssumption DEF IInv, FilesInv, Sample, files
<1>5. ~WriteFails => StoppedInv' /\ BeatInv'
  BY DaemonAssumption
     DEF IInv, Shape, Written, HeartInv, FilesInv, StoppedInv, BeatInv, Sample, files
<1> QED
  BY <1>1, <1>2, <1>3, <1>4, <1>5 DEF IInv

LEMMA WriteRunningKeeps ==
  ASSUME IInv, WriteRunning
  PROVE  IInv'
<1>1. Shape'
  BY DaemonAssumption DEF IInv, Shape, Written, Why, WriteRunning
<1>2. ResultsInv'
  BY DEF IInv, ResultsInv, Sent, WriteRunning
<1>3. HeartInv'
  BY DEF IInv, HeartInv, WriteRunning
<1>4. FilesInv'
  BY DaemonAssumption DEF IInv, Shape, Written, HeartInv, FilesInv, WriteRunning
<1>5. ~WriteFails => StoppedInv' /\ BeatInv'
  BY DaemonAssumption
     DEF IInv, Shape, Written, HeartInv, FilesInv, StoppedInv, BeatInv, WriteRunning
<1> QED
  BY <1>1, <1>2, <1>3, <1>4, <1>5 DEF IInv

LEMMA TickerFiresKeeps ==
  ASSUME IInv, TickerFires
  PROVE  IInv'
<1>1. nextTick' \in 0 .. now + Interval
  <2>1. now \in Nat /\ nextTick \in Nat /\ now >= nextTick /\ Interval \in Nat \ {0}
    BY DaemonAssumption DEF IInv, Shape, TickerFires
  <2>2. nextTick' = nextTick + Interval * (1 + (now - nextTick) \div Interval)
    BY DEF TickerFires
  <2> QED
    BY <2>1, <2>2, NextTick
<1>2. Shape'
  BY <1>1, DaemonAssumption DEF IInv, Shape, TickerFires, files
<1>3. ResultsInv'
  BY DEF IInv, ResultsInv, Sent, TickerFires
<1>4. HeartInv'
  BY DEF IInv, HeartInv, TickerFires
<1>5. FilesInv'
  BY DaemonAssumption DEF IInv, FilesInv, TickerFires, files
<1>6. ~WriteFails => StoppedInv' /\ BeatInv'
  BY DaemonAssumption
     DEF IInv, Shape, Written, HeartInv, FilesInv, StoppedInv, BeatInv, TickerFires, files
<1> QED
  BY <1>2, <1>3, <1>4, <1>5, <1>6 DEF IInv

LEMMA HeartStopsKeeps ==
  ASSUME IInv, HeartStops
  PROVE  IInv'
<1>1. Shape'
  BY DaemonAssumption DEF IInv, Shape, HeartStops, files
<1>2. ResultsInv'
  BY DEF IInv, ResultsInv, Sent, HeartStops
<1>3. HeartInv'
  BY DEF IInv, HeartInv, HeartStops
<1>4. FilesInv'
  BY DaemonAssumption DEF IInv, FilesInv, HeartStops, files
<1>5. ~WriteFails => StoppedInv' /\ BeatInv'
  BY DaemonAssumption
     DEF IInv, Shape, Written, HeartInv, FilesInv, StoppedInv, BeatInv, HeartStops, files
<1> QED
  BY <1>1, <1>2, <1>3, <1>4, <1>5 DEF IInv

LEMMA ReturnsKeeps ==
  ASSUME IInv, NEW s \in Server, ServerFails(s) \/ ServerStops(s)
  PROVE  IInv'
<1>1. PICK result \in Result : Returns(s, result) /\ serving[s] \in {"serving", "stopping"}
  BY DEF ServerFails, ServerStops, Result
<1> USE <1>1
<1>2. Shape'
  BY DaemonAssumption DEF IInv, Shape, Result, Returns, files
<1>3. ResultsInv'
  BY DEF IInv, Shape, ResultsInv, Sent, Server, Returns
<1>4. HeartInv'
  BY DEF IInv, HeartInv, Returns
<1>5. FilesInv'
  BY DaemonAssumption DEF IInv, FilesInv, Returns, files
<1>6. ~WriteFails => StoppedInv' /\ BeatInv'
  BY DaemonAssumption
     DEF IInv, Shape, Written, HeartInv, FilesInv, StoppedInv, BeatInv, Returns, files
<1> QED
  BY <1>2, <1>3, <1>4, <1>5, <1>6 DEF IInv

LEMMA SignalKeeps ==
  ASSUME IInv, Signal
  PROVE  IInv'
<1>1. Shape'
  BY DaemonAssumption DEF IInv, Shape, Signal, files
<1>2. ResultsInv'
  BY DEF IInv, ResultsInv, Sent, Signal
<1>3. HeartInv'
  BY DEF IInv, HeartInv, Signal
<1>4. FilesInv'
  BY DaemonAssumption DEF IInv, FilesInv, Signal, files
<1>5. ~WriteFails => StoppedInv' /\ BeatInv'
  BY DaemonAssumption
     DEF IInv, Shape, Written, HeartInv, FilesInv, StoppedInv, BeatInv, Signal, files
<1> QED
  BY <1>1, <1>2, <1>3, <1>4, <1>5 DEF IInv

LEMMA CrashKeeps ==
  ASSUME IInv, Crash
  PROVE  IInv'
<1>1. Shape'
  BY GoneKeepsShape DEF IInv, Crash
<1>2. ResultsInv'
  BY DEF IInv, Shape, ResultsInv, Sent, Server, Crash, Gone
<1>3. HeartInv'
  BY DEF IInv, HeartInv, Crash, Gone
<1>4. FilesInv'
  BY DaemonAssumption DEF IInv, FilesInv, Crash, files, Gone
<1>5. ~WriteFails => StoppedInv' /\ BeatInv'
  BY DaemonAssumption
     DEF IInv, Shape, Written, HeartInv, FilesInv, StoppedInv, BeatInv, Crash, files, Gone
<1> QED
  BY <1>1, <1>2, <1>3, <1>4, <1>5 DEF IInv

LEMMA TickKeeps ==
  ASSUME IInv, Tick
  PROVE  IInv'
<1>1. Shape'
  BY DaemonAssumption DEF IInv, Shape, Tick, process, files
<1>2. ResultsInv'
  BY DEF IInv, ResultsInv, Sent, Tick, process
<1>3. HeartInv'
  BY DEF IInv, HeartInv, Tick, process
<1>4. FilesInv'
  BY DaemonAssumption DEF IInv, Shape, Written, HeartInv, FilesInv, Tick, process, files
<1>5. ~WriteFails => StoppedInv' /\ BeatInv'
  BY DaemonAssumption
     DEF IInv, Shape, Written, HeartInv, FilesInv, StoppedInv, BeatInv, Tick, process, files
<1> QED
  BY <1>1, <1>2, <1>3, <1>4, <1>5 DEF IInv

LEMMA StutterKeeps ==
  ASSUME IInv, UNCHANGED vars
  PROVE  IInv'
BY DEF vars, process, files, IInv, Shape, ResultsInv, Sent, HeartInv, FilesInv, StoppedInv, BeatInv

LEMMA DaemonStep == IInv /\ [Next]_vars => IInv'
<1>1. ASSUME IInv, MainStep PROVE IInv'
  BY <1>1, ServeKeeps, TakeServerErrKeeps, TakeSignalKeeps, CloseStopChKeeps, WriteStopFileKeeps,
     StopFtpKeeps, StopSftpKeeps, ExitKeeps DEF MainStep
<1>2. ASSUME IInv, HeartStep PROVE IInv'
  BY <1>2, SampleKeeps, WriteRunningKeeps, TickerFiresKeeps, HeartStopsKeeps DEF HeartStep
<1> QED
  BY <1>1, <1>2, StartKeeps, PanicInMainKeeps, ReturnsKeeps, SignalKeeps, CrashKeeps, TickKeeps,
     StutterKeeps DEF Next

LEMMA DaemonInvariant == Spec => []IInv
BY InitialDaemon, DaemonStep, PTL DEF Spec

-----------------------------------------------------------------------------
(* What is shown of it.                                                    *)

\* The state of the daemon and of its files keeps its type; the results of the
\* two ListenAndServe goroutines never exceed what the channel of
\* cmd/vkftpd/main.go holds, so that neither of them waits for ever.
THEOREM TypesHold == Spec => []TypeOK
<1>1. IInv => TypeOK
  <2> SUFFICES ASSUME IInv PROVE TypeOK
    OBVIOUS
  <2>1. Len(serverErr) <= 2
    BY DEF IInv, Shape, ResultsInv, Sent
  <2>2. Written = File
    BY DEF Written, File, Why, Result
  <2> QED
    BY <2>1, <2>2, DaemonAssumption DEF IInv, Shape, TypeOK, Place
<1> QED
  BY <1>1, DaemonInvariant, PTL

\* Once Writer.Shutdown (pkg/status/writer.go) has written last_stop, neither
\* status file changes before the next start: no heartbeat comes late, and the
\* deferred "unexpected_exit" replaces no better reason.
THEOREM NothingAfterLastStop == Spec => LastStopIsLast
<1>1. ASSUME IInv, [Next]_vars, lastStop.run = run, run > 0, run' = run
      PROVE  UNCHANGED files
  <2>1. pc \in {"stopFtp", "stopSftp", "exit", "down"} /\ heart = "off"
    BY <1>1 DEF IInv, FilesInv, HeartInv
  <2> QED
    BY <1>1, <2>1 DEF Next, MainStep, HeartStep, vars, Start, Serve, TakeServerErr, TakeSignal,
       PanicInMain, CloseStopCh, WriteStopFile, StopFtp, StopSftp, Exit, Sample, WriteRunning,
       TickerFires, HeartStops, ServerFails, ServerStops, Returns, Signal, Crash, Tick
<1>2. Spec => [][lastStop.run = run /\ run > 0 /\ run' = run => UNCHANGED files]_vars
  BY <1>1, DaemonInvariant, PTL DEF Spec
<1> QED
  BY <1>2, PTL DEF LastStopIsLast

\* When the files can be written, a daemon that has shut down in order never
\* looks crashed to the MUD (README.md:107): whatever the heartbeat was doing
\* when Shutdown began, running is no younger than last_stop.
THEOREM OrderlyStopSeen ==
  ASSUME ~WriteFails
  PROVE  Spec => []OrderlyStopIsSeen
<1>1. IInv => OrderlyStopIsSeen
  BY DEF IInv, Shape, Written, StoppedInv, OrderlyStopIsSeen, MudSeesCrash
<1> QED
  BY <1>1, DaemonInvariant, PTL

\* When the files can be written and the MUD waits for two late beats or more
\* (60 s against 10 s), a daemon that lives does not look crashed either, from
\* its first heartbeat to its exit, however the shutdown meets the heartbeat.
THEOREM AliveSeen ==
  ASSUME ~WriteFails, Stale >= 2 * (Interval + 1)
  PROVE  Spec => []AliveIsSeen
<1>1. ASSUME IInv PROVE AliveIsSeen
  <2> SUFFICES ASSUME pc # "down", running.run = run, run > 0
               PROVE  ~MudSeesCrash
    BY DEF AliveIsSeen
  <2>1. /\ {now, running.at, lastStop.at, beatAt, Interval, Stale} \subseteq Int
        /\ pc \in Place /\ heart \in {"off", "beat", "write", "wait"}
    BY <1>1, DaemonAssumption DEF IInv, Shape, Written
  <2>2. CASE heart # "off"
    <3>1. now - running.at <= 2 * (Interval + 1)
      <4>1. now - beatAt <= Interval + 1
        BY <1>1, <2>2 DEF IInv, BeatInv
      <4>2. beatAt - running.at <= Interval + 1
        <5>1. CASE heart = "write"
          BY <1>1, <5>1 DEF IInv, BeatInv
        <5>2. CASE heart \in {"beat", "wait"}
          <6>1. running.at = beatAt
            BY <1>1, <5>2 DEF IInv, BeatInv
          <6> QED
            BY <2>1, <6>1, DaemonAssumption
        <5> QED
          BY <2>1, <2>2, <5>1, <5>2
      <4> QED
        BY <2>1, <4>1, <4>2
    <3> QED
      BY <2>1, <3>1 DEF MudSeesCrash
  <2>3. CASE heart = "off" /\ pc = "waitHeart"
    <3>1. now - running.at <= Interval + 1
      BY <1>1, <2>3 DEF IInv, BeatInv
    <3> QED
      BY <2>1, <3>1, DaemonAssumption DEF MudSeesCrash
  <2>4. CASE pc \in {"stopFtp", "stopSftp", "exit"}
    BY <1>1, <2>1, <2>4 DEF IInv, StoppedInv, MudSeesCrash
  <2> QED
    BY <1>1, <2>1, <2>2, <2>3, <2>4 DEF IInv, Shape, Written, HeartInv, FilesInv, Place
<1> QED
  BY <1>1, DaemonInvariant, PTL
=============================================================================
