-------------------------------- MODULE Vfs --------------------------------
(***************************************************************************)
(* One session's calls on its file system: pkg/vfs/vfs.go, reached by SFTP  *)
(* through pkg/sftpserver/handlers.go and by FTP through the ClientDriver   *)
(* of pkg/ftpserver/server.go.  A call asks the authorizer about the path   *)
(* or paths it is given and then changes the disk, which is a tree: what is *)
(* below a path or above it is not asked about.  Between two steps the      *)
(* MUD's access map, the MUD and the other sessions change too.  An open    *)
(* handle outlives its call and refers to its file wherever that goes.      *)
(***************************************************************************)
EXTENDS Integers, Sequences, FiniteSets

CONSTANTS
  Name,   \* the names of entries in a directory
  Path,   \* the paths in the jail that are used, as sequences of names
  File    \* the files there may be at a time

\* What may be at a path that is no file.
Nothing == "nothing"
Directory == "directory"

\* The jail's root is no path that is asked for; its entries' parents are.
ASSUME VfsAssumption ==
  /\ {Nothing, Directory} \intersect File = {}
  /\ Path \subseteq Seq(Name) \ {<<>>}
  /\ \A p \in Path : \A k \in 1 .. Len(p) : SubSeq(p, 1, k) \in Path

VARIABLES
  disk,     \* disk[p]: the file at p, Nothing or Directory
  data,     \* data[f]: what is in file f, "empty" or "data"
  call,     \* the call being served, or the last one
  checks,   \* how many of the stage's checks have been passed
  result,   \* "running", or how the call ended: "ok", "denied" or "error"
  granted,  \* the rights that this call has been granted, as <<right, path>>
  left,     \* the attributes that this setstat has still to change
  done,     \* the attributes that it has changed
  touched,  \* the paths whose entry or contents this call has changed
  handle    \* the open handle, or NoHandle

vars == <<disk, data, call, checks, result, granted, left, done, touched, handle>>

Right == {"read", "write"}

\* setstat changes the attributes it is given in this order.
Attribute == {"size", "mode", "times"}
Stage(a, as) == IF a \in as THEN <<a>> ELSE <<>>
Stages(as) == Stage("size", as) \o Stage("mode", as) \o Stage("times", as)

-----------------------------------------------------------------------------
(* The tree.                                                               *)

\* p is q or leads to it.
Leads(p, q) == Len(p) =< Len(q) /\ SubSeq(q, 1, Len(p)) = p

\* r is in the directory p, or further down.
IsBelow(r, p) == Leads(p, r) /\ r # p

\* Where r, at or below p, is found when p is moved to q.
MovedTo(r, p, q) == q \o SubSeq(r, Len(p) + 1, Len(r))

IsFile(p) == disk[p] \in File
IsEmpty(p) == \A r \in Path : IsBelow(r, p) => disk[r] = Nothing
HasParent(p) == \A r \in Path : IsBelow(p, r) => disk[r] = Directory
FreeFiles == File \ ({disk[p] : p \in Path} \union {handle.file})

\* os.Rename refuses a directory for a target, even the source itself; the
\* system refuses to put a directory in a file's place or into itself.
MayRename(p, q) ==
  /\ disk[p] # Nothing
  /\ disk[q] # Directory
  /\ disk[p] = Directory => disk[q] = Nothing
  /\ HasParent(q) /\ ~IsBelow(q, p)
  /\ \A r \in Path : Leads(p, r) /\ disk[r] # Nothing => MovedTo(r, p, q) \in Path

\* Mutant: a rename leaves the source where it is.
RenamedLinked(p, q) ==
  [r \in Path |->
     IF ~Leads(q, r) THEN disk[r]
     ELSE IF MovedTo(r, q, p) \in Path THEN disk[MovedTo(r, q, p)] ELSE Nothing]

\* A rename takes all there is below its source along.
Renamed(p, q) ==
  [r \in Path |->
     IF Leads(q, r)
     THEN IF MovedTo(r, q, p) \in Path THEN disk[MovedTo(r, q, p)] ELSE Nothing
     ELSE IF Leads(p, r) THEN Nothing ELSE disk[r]]

-----------------------------------------------------------------------------
(* Flags.                                                                  *)

SftpFlag == {"Read", "Write", "Append", "Creat", "Trunc", "Excl"}

\* Mutant: an Append open is not taken for an open to write.
ToOsFileFlagsNoAppend(p) ==
  (IF "Write" \notin p THEN {} ELSE IF "Read" \in p THEN {"RDWR"} ELSE {"WRONLY"})
    \union (IF "Creat" \in p THEN {"CREATE"} ELSE {})
    \union (IF "Trunc" \in p THEN {"TRUNC"} ELSE {})
    \union (IF "Excl" \in p THEN {"EXCL"} ELSE {})

\* O_RDONLY is no flag at all.
ToOsFileFlags(p) ==
  (IF p \intersect {"Write", "Append"} = {} THEN {}
   ELSE IF "Read" \in p THEN {"RDWR"} ELSE {"WRONLY"})
    \union (IF "Creat" \in p THEN {"CREATE"} ELSE {})
    \union (IF "Trunc" \in p THEN {"TRUNC"} ELSE {})
    \union (IF "Excl" \in p THEN {"EXCL"} ELSE {})

\* Mutant: O_RDWR is forgotten.
IsWriteFlagNoRdwr(flags) == flags \intersect {"WRONLY", "APPEND", "CREATE", "TRUNC"} # {}

IsWriteFlag(flags) ==
  flags \intersect {"WRONLY", "RDWR", "APPEND", "CREATE", "TRUNC"} # {}

-----------------------------------------------------------------------------
(* The calls there are.                                                    *)

Call(op, p, q, flags, writes, todo) ==
  [op |-> op, path |-> p, target |-> q, flags |-> flags, writes |-> writes, todo |-> todo]

Simple(op, p) == Call(op, p, p, {}, FALSE, <<>>)

\* pkg/sftp opens with any of these for the handler's OpenFile or Filewrite,
\* with Read alone for its Fileread, and refuses the rest.
SftpOpens ==
  {Call("open", p, p, ToOsFileFlags(fs), fs \intersect {"Write", "Append"} # {}, <<>>) :
     p \in Path,
     fs \in {gs \in SUBSET SftpFlag : gs \intersect {"Write", "Append", "Creat", "Trunc"} # {}}}
    \union {Simple("open", p) : p \in Path}

\* ftpserverlib stores, appends, or continues a file; Create truncates it.
FtpOpens ==
  {Call("open", p, p, flags, TRUE, <<>>) :
     p \in Path,
     flags \in {{"WRONLY", "CREATE", "TRUNC"}, {"WRONLY", "CREATE", "APPEND"},
                {"WRONLY"}, {"RDWR", "CREATE", "TRUNC"}}}

Renames == {Call("rename", p, q, {}, FALSE, <<>>) : p \in Path, q \in Path}

\* Any of the attributes at once by SFTP, one at a time by FTP, which also has
\* chown.
Setstats ==
  {Call("setstat", p, p, {}, FALSE, Stages(as)) :
     p \in Path, as \in (SUBSET Attribute) \ {{}}}
    \union {Call("setstat", p, p, {}, FALSE, <<"owner">>) : p \in Path}

Calls ==
  SftpOpens \union FtpOpens \union Renames \union Setstats
    \union {Simple(op, p) :
             op \in {"list", "mkdir", "mkdirall", "remove", "removeall"}, p \in Path}

NoHandle == [file |-> Nothing, path |-> <<>>, write |-> FALSE, by |-> {}]

Init ==
  /\ disk \in [Path -> {Nothing, Directory}]
  /\ \A p \in Path : disk[p] # Nothing => HasParent(p)
  /\ data = [f \in File |-> "empty"]
  /\ call \in {Simple("list", p) : p \in Path}
  /\ checks = 0
  /\ result = "error"
  /\ granted = {}
  /\ left = <<>>
  /\ done = <<>>
  /\ touched = {}
  /\ handle = NoHandle

-----------------------------------------------------------------------------
(* Serving a call.                                                         *)

Begin ==
  /\ result # "running"
  /\ call' \in Calls
  /\ call'.op = "open" => handle = NoHandle
  /\ checks' = 0
  /\ result' = "running"
  /\ granted' = {}
  /\ left' = call'.todo
  /\ done' = <<>>
  /\ touched' = {}
  /\ UNCHANGED <<disk, data, handle>>

\* Mutant: a rename is checked at its source only.
ChecksOfSource ==
  CASE call.op = "open" -> <<<<IF IsWriteFlag(call.flags) THEN "write" ELSE "read", call.path>>>>
    [] call.op = "list" -> <<<<"read", call.path>>>>
    [] OTHER            -> <<<<"write", call.path>>>>

\* What the call, or the next stage of a setstat, asks the authorizer.
Checks ==
  CASE call.op = "open"   -> <<<<IF IsWriteFlag(call.flags) THEN "write" ELSE "read", call.path>>>>
    [] call.op = "list"   -> <<<<"read", call.path>>>>
    [] call.op = "rename" -> <<<<"write", call.path>>, <<"write", call.target>>>>
    [] OTHER              -> <<<<"write", call.path>>>>

\* CanRead or CanWrite. Two checks need not agree, nor two of the same path:
\* the access map may change between them.
Check ==
  /\ result = "running"
  /\ checks < Len(Checks)
  /\ \/ /\ checks' = checks + 1
        /\ granted' = granted \union {Checks[checks + 1]}
        /\ UNCHANGED result
     \/ result' = "denied" /\ UNCHANGED <<checks, granted>>
  /\ UNCHANGED <<disk, data, call, left, done, touched, handle>>

Acting == result = "running" /\ checks = Len(Checks)

\* The file system refuses, at once or half-way: the call is over then.
FsFails ==
  /\ Acting
  /\ result' = "error"
  /\ UNCHANGED <<disk, data, call, checks, granted, left, done, touched, handle>>

\* Open and OpenFile; a file is created, truncated, or left as it is. A
\* directory can be opened, but only to be read.
ActOpen ==
  /\ Acting
  /\ call.op = "open"
  /\ LET p == call.path
         opened(f) == [file |-> f, path |-> p, by |-> granted,
                       write |-> call.flags \intersect {"WRONLY", "RDWR"} # {}]
     IN \/ /\ IsFile(p)
           /\ ~({"CREATE", "EXCL"} \subseteq call.flags)
           /\ handle' = opened(disk[p])
           /\ data' = IF "TRUNC" \in call.flags THEN [data EXCEPT ![disk[p]] = "empty"] ELSE data
           /\ touched' = IF "TRUNC" \in call.flags THEN {p} ELSE {}
           /\ UNCHANGED disk
        \/ /\ disk[p] = Directory
           /\ call.flags = {}
           /\ handle' = opened(Directory)
           /\ UNCHANGED <<disk, data, touched>>
        \/ /\ disk[p] = Nothing
           /\ "CREATE" \in call.flags
           /\ HasParent(p)
           /\ \E f \in FreeFiles :
                /\ disk' = [disk EXCEPT ![p] = f]
                /\ data' = [data EXCEPT ![f] = "empty"]
                /\ handle' = opened(f)
           /\ touched' = {p}
  /\ result' = "ok"
  /\ UNCHANGED <<call, checks, granted, left, done>>

\* Stat, ReadDirSorted.
ActList ==
  /\ Acting
  /\ call.op = "list"
  /\ disk[call.path] # Nothing
  /\ result' = "ok"
  /\ UNCHANGED <<disk, data, call, checks, granted, left, done, touched, handle>>

\* The entries a call has found to change, in one go or one by one.
ChangeEntries(after) ==
  /\ disk' = after
  /\ touched' = touched \union {p \in Path : after[p] # disk[p]}
  /\ UNCHANGED <<data, call, checks, granted, left, done, handle>>

\* Mkdir makes one directory, Remove removes one entry with nothing below it.
ActEntry ==
  /\ Acting
  /\ \/ /\ call.op = "mkdir"
        /\ disk[call.path] = Nothing /\ HasParent(call.path)
        /\ ChangeEntries([disk EXCEPT ![call.path] = Directory])
     \/ /\ call.op = "remove"
        /\ disk[call.path] # Nothing /\ IsEmpty(call.path)
        /\ ChangeEntries([disk EXCEPT ![call.path] = Nothing])
  /\ result' = "ok"

ActRename ==
  /\ Acting
  /\ call.op = "rename"
  /\ MayRename(call.path, call.target)
  /\ ChangeEntries(Renamed(call.path, call.target))
  /\ result' = "ok"

\* MkdirAll and RemoveAll work entry by entry, from the top down and from the
\* bottom up; the path itself is last.
ActEach ==
  /\ Acting
  /\ \/ /\ call.op = "mkdirall"
        /\ \E p \in Path :
             /\ Leads(p, call.path) /\ disk[p] = Nothing /\ HasParent(p)
             /\ ChangeEntries([disk EXCEPT ![p] = Directory])
             /\ result' = IF p = call.path THEN "ok" ELSE "running"
     \/ /\ call.op = "removeall"
        /\ \E p \in Path :
             /\ Leads(call.path, p) /\ disk[p] # Nothing /\ IsEmpty(p)
             /\ ChangeEntries([disk EXCEPT ![p] = Nothing])
             /\ result' = IF p = call.path THEN "ok" ELSE "running"

\* They also succeed where there is nothing to do, or nothing left to.
ActEachIsDone ==
  /\ Acting
  /\ \/ call.op = "mkdirall" /\ disk[call.path] = Directory
     \/ call.op = "removeall" /\ disk[call.path] = Nothing
  /\ result' = "ok"
  /\ UNCHANGED <<disk, data, call, checks, granted, left, done, touched, handle>>

\* What all stages of a setstat leave behind.
NextStage ==
  /\ left' = Tail(left)
  /\ checks' = 0
  /\ result' = IF Len(left) = 1 THEN "ok" ELSE "running"
  /\ UNCHANGED <<disk, call, granted, handle>>

\* Mutant: a setstat goes on when the file system refuses an attribute.
ActAttributeOrNot ==
  /\ Acting
  /\ call.op = "setstat"
  /\ \/ done' = Append(done, Head(left)) /\ touched' = {call.path}
     \/ UNCHANGED <<done, touched>>
  /\ UNCHANGED data
  /\ NextStage

\* One stage of a setstat: size opens the file, truncates and closes it.
ActAttribute ==
  /\ Acting
  /\ call.op = "setstat"
  /\ IF Head(left) = "size"
       THEN IsFile(call.path) /\ data' = [data EXCEPT ![disk[call.path]] = "empty"]
       ELSE disk[call.path] # Nothing /\ UNCHANGED data
  /\ done' = Append(done, Head(left))
  /\ touched' = {call.path}
  /\ NextStage

-----------------------------------------------------------------------------
(* The handle, and everybody else.                                         *)

\* A write by the client on its handle, while other calls are served.
WriteAt ==
  /\ handle.write
  /\ data' = [data EXCEPT ![handle.file] = "data"]
  /\ UNCHANGED <<disk, call, checks, result, granted, left, done, touched, handle>>

CloseHandle ==
  /\ handle # NoHandle
  /\ handle' = NoHandle
  /\ UNCHANGED <<disk, data, call, checks, result, granted, left, done, touched>>

\* Others remove, make, replace or rename what is in the jail.
ChangeDisk ==
  /\ \/ \E p \in Path, e \in {Nothing, Directory} \union FreeFiles :
          /\ HasParent(p) /\ IsEmpty(p)
          /\ disk' = [disk EXCEPT ![p] = e]
     \/ \E p, q \in Path : MayRename(p, q) /\ disk' = Renamed(p, q)
  /\ UNCHANGED <<data, call, checks, result, granted, left, done, touched, handle>>

Next ==
  \/ Begin
  \/ Check
  \/ FsFails
  \/ ActOpen
  \/ ActList
  \/ ActEntry
  \/ ActRename
  \/ ActEach
  \/ ActEachIsDone
  \/ ActAttribute
  \/ WriteAt
  \/ CloseHandle
  \/ ChangeDisk

Spec == Init /\ [][Next]_vars

-----------------------------------------------------------------------------
(* Properties.                                                             *)

TypeOK ==
  /\ disk \in [Path -> File \union {Nothing, Directory}]
  /\ data \in [File -> {"empty", "data"}]
  /\ checks \in 0 .. 2
  /\ result \in {"running", "ok", "denied", "error"}
  /\ granted \in SUBSET (Right \X Path)
  /\ touched \in SUBSET Path
  /\ handle.file \in File \union {Nothing, Directory}
  /\ \A p, q \in Path : IsFile(p) /\ disk[p] = disk[q] => p = q
  /\ \A p \in Path : disk[p] # Nothing => HasParent(p)

\* What a right to write on g lets this call change: g, all that is below for
\* RemoveAll and Rename, and the directories on the way to g for MkdirAll.
Covers(g, p) ==
  \/ p = g
  \/ call.op \in {"removeall", "rename"} /\ IsBelow(p, g)
  \/ call.op = "mkdirall" /\ IsBelow(g, p)

\* vfs.go:1-8, "which operations require read versus write permission, that
\* rename needs write on both paths": whatever a call has changed by now, it
\* was granted writing there or, where the code asks once for a whole subtree
\* or for all missing parents, on the path it asked about. An entry far from
\* any path that was granted is never changed, whichever flags a file was
\* opened with, and whatever others have moved since the check.
ChangesAreGranted ==
  \A p \in touched : \E g \in Path : <<"write", g>> \in granted /\ Covers(g, p)

\* A handle can write only if its opening was granted the right to write the
\* path that was opened, wherever the file has gone since.
WritersWereGranted == handle.write => <<"write", handle.path>> \in handle.by

\* handlers.go:76-80: an open to write or append gives a handle that writes,
\* and an open to read, or to create or truncate only, one that does not.
WriteIntentIsKept ==
  result = "ok" /\ call.op = "open" /\ handle # NoHandle => handle.write = call.writes

\* A call that is denied has changed nothing. One that fails has not changed
\* the path it was asked about, though RemoveAll may have emptied it and
\* MkdirAll may have made its parents. A setstat has changed the attributes
\* before the one it failed at, and all of them if it succeeds, though the
\* file goes, or the right is revoked, between two of them.
FailuresAreContained ==
  IF call.op = "setstat"
  THEN /\ done = SubSeq(call.todo, 1, Len(done))
       /\ result # "running" => (result = "ok" <=> done = call.todo)
  ELSE /\ result = "denied" => touched = {}
       /\ result = "error" => \A p \in touched :
            \/ call.op = "removeall" /\ IsBelow(p, call.path)
            \/ call.op = "mkdirall" /\ IsBelow(call.path, p)
=============================================================================
