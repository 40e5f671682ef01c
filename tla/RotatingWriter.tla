--------------------------- MODULE RotatingWriter ---------------------------
(***************************************************************************)
(* The log files of pkg/logging/rotating_writer.go: Write, which rotates by *)
(* size, the verifier, which reopens a file that somebody moved or deleted, *)
(* Close, and a process that may die and start again at any point.  mu      *)
(* makes each of them one step.  Lines are numbers and all as long as one   *)
(* unit of size; the disk says where each file is and which lines it has.   *)
(***************************************************************************)
EXTENDS Integers, FiniteSets, Sequences

CONSTANTS
  MaxSize,     \* maxSize, in lines
  DriftLimit,  \* the drift verifyLocked tolerates (8 KiB), in lines
  Burst,       \* the most lines logged within one second
  Failures,    \* may mkdir, rename and open fail? the answers tried
  MaxSetbacks, \* bound of the model: how often the clock goes back
  MaxLines,    \* bound of the model: lines ever written
  MaxFiles,    \* bound of the model: files ever created
  MaxTime      \* bound of the model: the clock stops here, in seconds

ASSUME RotatingWriterAssumption ==
  /\ MaxSize \in Nat \ {0}
  /\ {DriftLimit, Burst, MaxSetbacks, MaxLines, MaxFiles, MaxTime} \subseteq Nat
  /\ MaxSize <= MaxLines
  /\ Failures \subseteq BOOLEAN

VARIABLES
  failing,   \* mkdir, rename and open may fail
  now,       \* local time, in seconds: what archive names are made of
  setbacks,  \* how often local time has gone back, as at the end of summer time
  logged,    \* lines logged within this second
  up,        \* "up" between NewRotatingWriter and Close, else "down" or "closed"
  f,         \* RotatingWriter.f: {x} for an open file x, {} for nil or closed
  approx,    \* RotatingWriter.approxSize
  offset,    \* where f writes: AtEnd with O_APPEND, else how far it has got
  where,     \* where[x]: what became of file x
  lines,     \* lines[x]: the lines in file x, in order
  last,      \* the number of the last line written by anybody
  accepted   \* the lines whose Write returned no error

disk == <<where, lines>>
open == <<f, approx, offset>>
vars == <<failing, now, setbacks, logged, up, open, disk, last, accepted>>

File == 1 .. MaxFiles
Line == 1 .. MaxLines
AtEnd == -1

\* A file is at the log's path, in old/ under the second in its name, taken
\* (moved or deleted) by somebody else, or overwritten by a rename onto its name.
Archive(s) == <<"old", s>>
Where ==
  {<<w>> : w \in {"none", "path", "taken", "clobbered"}}
    \union {Archive(s) : s \in 0 .. MaxTime}

AtPath == {x \in File : where[x] = <<"path">>}
Unused == {x \in File : where[x] = <<"none">>}
Size(x) == Len(lines[x])
LinesIn(x) == {lines[x][k] : k \in DOMAIN lines[x]}

\* Bound of the model: a file is left for the verifier to create.
FilesLeft == Cardinality(Unused) >= 2

\* A log of an earlier run may be there, longer than MaxSize even.
Init ==
  /\ failing \in Failures
  /\ now = 0
  /\ setbacks = 0
  /\ logged = 0
  /\ up = "down"
  /\ f = {}
  /\ approx = 0
  /\ offset = AtEnd
  /\ last \in 0 .. MaxSize
  /\ where = [x \in File |-> IF x = 1 /\ last > 0 THEN <<"path">> ELSE <<"none">>]
  /\ lines = [x \in File |-> IF x = 1 THEN [k \in 1 .. last |-> k] ELSE <<>>]
  /\ accepted = {}

-----------------------------------------------------------------------------
(* The two ways to open a file, as the sets of what they can result in.     *)

Outcome(ok, g, size, off, w, ls) ==
  [ok |-> ok, f |-> g, approx |-> size, offset |-> off, where |-> w, lines |-> ls]

\* A file created at the path, on a disk where nothing is there.
Created(w) ==
  LET x == CHOOSE y \in Unused : TRUE
  IN [file |-> x, where |-> [w EXCEPT ![x] = <<"path">>]]

\* openForAppendLocked, by callers that have no file open: approxSize changes
\* only when all of it succeeds.
OpenForAppend ==
  (IF failing THEN {Outcome(FALSE, {}, approx, AtEnd, where, lines)} ELSE {})
    \union
  (IF AtPath # {}
     THEN {Outcome(TRUE, {x}, Size(x), AtEnd, where, lines) : x \in AtPath}
     ELSE LET new == Created(where)
          IN {Outcome(TRUE, {new.file}, 0, AtEnd, new.where, lines)})

\* Mutant: the archive's name has the date only.
RenamedByDate ==
  [x \in File |->
     IF AtPath = {} THEN where[x]
     ELSE IF x \in AtPath THEN Archive(0)
     ELSE IF where[x] = Archive(0) THEN <<"clobbered">>
     ELSE where[x]]

\* Mutant: the archive's name has the hour of a twelve-hour clock, at noon
\* after the first second.
RenamedByHalfDay ==
  [x \in File |->
     IF AtPath = {} THEN where[x]
     ELSE IF x \in AtPath THEN Archive((now + 2) % 3)
     ELSE IF where[x] = Archive((now + 2) % 3) THEN <<"clobbered">>
     ELSE where[x]]

\* os.Rename(path, archive), best effort: it replaces an archive of that name,
\* which may be an earlier second's of the same local time.
Renamed ==
  [x \in File |->
     IF AtPath = {} THEN where[x]
     ELSE IF x \in AtPath THEN Archive(now)
     ELSE IF where[x] = Archive(now) THEN <<"clobbered">>
     ELSE where[x]]

\* rotateLocked: f is closed and nil until the new file is open.  A file that
\* is still at the path then is truncated; either is opened without O_APPEND.
Rotate ==
  (IF failing
     THEN {Outcome(FALSE, {}, approx, AtEnd, w, lines) : w \in {where, Renamed}}
            \union {Outcome(TRUE, {x}, 0, 0, where, [lines EXCEPT ![x] = <<>>]) : x \in AtPath}
     ELSE {})
    \union
  (LET new == Created(Renamed) IN {Outcome(TRUE, {new.file}, 0, 0, new.where, lines)})

-----------------------------------------------------------------------------
(* The writer.                                                             *)

Take(o) ==
  /\ f' = o.f
  /\ approx' = o.approx
  /\ offset' = o.offset
  /\ where' = o.where
  /\ lines' = o.lines

\* NewRotatingWriter, which also rotates a log that is too long already.
\* The daemon does not start when it fails.
Start ==
  /\ up = "down"
  /\ FilesLeft
  /\ \E o \in IF AtPath # {} /\ \A x \in AtPath : Size(x) >= MaxSize
              THEN Rotate ELSE OpenForAppend :
       IF o.ok
       THEN Take(o) /\ up' = "up"
       ELSE Take(o) /\ UNCHANGED up
  /\ UNCHANGED <<failing, now, setbacks, logged, last, accepted>>

\* Mutant: rotates once the file has passed the limit.
FullLate == approx + 1 > MaxSize

\* Write rotates before a line that would fill the file.
Full == approx + 1 >= MaxSize

\* What the line l makes of a file's lines: f.Write at the end, or at the
\* offset, over what others have appended there since.
Written(ls, off, l) ==
  IF off = AtEnd \/ off = Len(ls) THEN Append(ls, l) ELSE [ls EXCEPT ![off + 1] = l]

\* Write, by anybody who holds the logger, also after Close.
WriteLine ==
  /\ up # "down"
  /\ last < MaxLines
  /\ logged < Burst
  /\ FilesLeft
  /\ \E o \in IF Full THEN Rotate ELSE {Outcome(TRUE, f, approx, offset, where, lines)} :
       IF o.ok /\ o.f # {}
       THEN /\ Take([o EXCEPT
                       !.approx = @ + 1,
                       !.offset = IF @ = AtEnd THEN @ ELSE @ + 1,
                       !.lines = [x \in File |-> IF x \in o.f
                                                 THEN Written(@[x], o.offset, last + 1)
                                                 ELSE @[x]]])
            /\ accepted' = accepted \union {last + 1}
       ELSE Take(o) /\ UNCHANGED accepted
  /\ last' = last + 1
  /\ logged' = logged + 1
  /\ UNCHANGED <<failing, now, setbacks, up>>

\* sameFileAsPath: the open file is the one at the path.
InSync == f # {} /\ f = AtPath

Drift(x) == IF Size(x) > approx THEN Size(x) - approx ELSE approx - Size(x)

\* Mutant: any file at the path will do.
VerifyExistence ==
  /\ up = "up"
  /\ Unused # {}
  /\ IF f # {} /\ AtPath # {}
       THEN /\ \E x \in f : approx' = IF Drift(x) > DriftLimit THEN Size(x) ELSE approx
            /\ UNCHANGED <<f, offset, disk>>
       ELSE \E o \in OpenForAppend : Take(o)
  /\ UNCHANGED <<failing, now, setbacks, logged, up, last, accepted>>

\* Mutant: the drift is corrected in the wrong direction.
VerifyDriftAway ==
  /\ up = "up"
  /\ Unused # {}
  /\ IF InSync
       THEN /\ \E x \in f : approx' = IF Drift(x) > DriftLimit THEN approx - (Size(x) - approx)
                                                            ELSE approx
            /\ UNCHANGED <<f, offset, disk>>
       ELSE \E o \in OpenForAppend : Take(o)
  /\ UNCHANGED <<failing, now, setbacks, logged, up, last, accepted>>

\* verifyLocked, on the ticker: reopen a file that is closed or no longer at
\* the path, else correct an approxSize that has drifted.
Verify ==
  /\ up = "up"
  /\ Unused # {}
  /\ IF InSync
       THEN /\ \E x \in f : approx' = IF Drift(x) > DriftLimit THEN Size(x) ELSE approx
            /\ UNCHANGED <<f, offset, disk>>
       ELSE \E o \in OpenForAppend : Take(o)
  /\ UNCHANGED <<failing, now, setbacks, logged, up, last, accepted>>

\* Close: the verifier is over before f is closed.
Close ==
  /\ up = "up"
  /\ up' = "closed"
  /\ f' = {}
  /\ offset' = AtEnd
  /\ UNCHANGED <<failing, now, setbacks, logged, approx, disk, last, accepted>>

\* The process ends, after Close or without it.
Exit ==
  /\ up # "down"
  /\ up' = "down"
  /\ f' = {}
  /\ offset' = AtEnd
  /\ UNCHANGED <<failing, now, setbacks, logged, approx, disk, last, accepted>>

-----------------------------------------------------------------------------
(* Everybody else.                                                         *)

\* Somebody moves the log away, or deletes it: the lines in it are theirs.
MoveLog ==
  /\ FilesLeft
  /\ \E x \in AtPath : where' = [where EXCEPT ![x] = <<"taken">>]
  /\ UNCHANGED <<failing, now, setbacks, logged, up, open, lines, last, accepted>>

\* Somebody else makes a log where there is none: one that is moved away may
\* be replaced before the writer notices.
MakeLog ==
  /\ FilesLeft
  /\ AtPath = {}
  /\ where' = Created(where).where
  /\ UNCHANGED <<failing, now, setbacks, logged, up, open, lines, last, accepted>>

\* Somebody else appends to the log.
ForeignLine ==
  /\ last < MaxLines
  /\ logged < Burst
  /\ \E x \in AtPath : lines' = [lines EXCEPT ![x] = Append(@, last + 1)]
  /\ last' = last + 1
  /\ logged' = logged + 1
  /\ UNCHANGED <<failing, now, setbacks, up, open, where, accepted>>

Tick ==
  /\ now < MaxTime
  /\ now' = now + 1
  /\ logged' = 0
  /\ UNCHANGED <<failing, setbacks, up, open, disk, last, accepted>>

\* The end of summer time, or a clock that is set: a second may come again.
SetBack ==
  /\ setbacks < MaxSetbacks
  /\ setbacks' = setbacks + 1
  /\ now' \in 0 .. now - 1
  /\ logged' = 0
  /\ UNCHANGED <<failing, up, open, disk, last, accepted>>

Next ==
  \/ Start
  \/ WriteLine
  \/ Verify
  \/ Close
  \/ Exit
  \/ MoveLog
  \/ MakeLog
  \/ ForeignLine
  \/ Tick
  \/ SetBack

Spec == Init /\ [][Next]_vars

\* The verifier's ticker keeps running, and opening works in the end.
FairSpec == Spec /\ SF_vars(Verify /\ InSync')

-----------------------------------------------------------------------------
(* Properties.                                                             *)

TypeOK ==
  /\ failing \in Failures
  /\ now \in 0 .. MaxTime
  /\ setbacks \in 0 .. MaxSetbacks
  /\ logged \in 0 .. Burst
  /\ up \in {"down", "up", "closed"}
  /\ f \in {{}} \union {{x} : x \in File}
  /\ approx \in 0 .. MaxLines
  /\ offset \in AtEnd .. MaxLines
  /\ f = {} => offset = AtEnd
  /\ where \in [File -> Where]
  /\ \A x \in File : lines[x] \in Seq(Line)
  /\ last \in 0 .. MaxLines
  /\ accepted \subseteq Line
  /\ Cardinality(AtPath) <= 1

\* README.md:104, "automatically rotated to timestamped archives": a line that
\* was written stays in the log, in an archive, or in what others took away;
\* the writer itself never destroys one, across rotations and restarts.
RotationKeepsLines ==
  \A l \in accepted : \E x \in File : l \in LinesIn(x) /\ where[x] # <<"clobbered">>

\* As long as mkdir, rename and open work, no two rotations fall into one
\* second, and local time has not gone back, it is so.  Once it has, a rotation
\* may be given the name of an archive that is there, and replace it.
AcceptedLinesKept == ~failing /\ setbacks = 0 => RotationKeepsLines

\* rotating_writer.go:79-83: no file gets more than MaxSize - 1 lines from the
\* writer, over restarts, reopened files and lines of others in between.
LogsBounded ==
  \A x \in File : Cardinality(LinesIn(x) \intersect accepted) < MaxSize

\* README.md:104, "periodically verifies log files exist and recreates them if
\* externally moved or deleted": a writer whose file is gone, or is no longer
\* the one at the path, gets it back.
Recovers ==
  (up = "up" /\ ~InSync) ~> (up # "up" \/ InSync)

\* rotating_writer.go:142-145: as long as local time has not gone back, archives
\* sort by name in the order their lines were written, over rotations, failed
\* ones too, restarts, logs that others moved, made or wrote to.
ArchivesOrdered ==
  setbacks = 0 =>
    \A x, y \in File : \A s, t \in 0 .. MaxTime :
      where[x] = Archive(s) /\ where[y] = Archive(t) /\ s < t =>
        \A l \in LinesIn(x), m \in LinesIn(y) : l < m
=============================================================================
