# A TLA+ model of viking-ftpd

viking-ftpd (`vkftpd`) serves the library of a MUD over FTP and SFTP to the
MUD's own wizards. It holds no data of its own: passwords, levels and permissions are
read from files that the MUD writes while the daemon runs. What is hard in it is
not the file transfer, which ftpserverlib and pkg/sftp do, but what lies between:
a permission resolver ported from the MUD's LPC, a cache in front of it, a set of
goroutines that has to end when it is told to, and files (logs, status files)
that are shared with the MUD and outlive the process.

This directory models that code in TLA+, checks the models with TLC on small
instances, and proves the safety of most of them for every instance with TLAPS.
Paths below are relative to the repository.

## 1. Inventory

| component | code | state it keeps | operations | talks to |
|---|---|---|---|---|
| Authorizer cache | `pkg/authorization/authorizer.go`, `access_source.go` | `accessMap`, `lastRefresh` under an RWMutex | `ensureFreshCache`, `refreshCache`, the snapshot in `ResolvePermission` | reads `access.o`; called by every file operation of every session |
| Permission resolver | `authorizer.go` (`resolveGroups`, `resolveAccess`, `evalMap`), `access_tree_builder.go`, `types.go` | none; works on the snapshot | `ResolvePermission`, `CanRead`, `CanWrite` | loads the character for its level; ported from `resources/access.c` |
| Virtual file system | `pkg/vfs/vfs.go`, `pkg/sftpserver/handlers.go`, the `ftpClient` of `pkg/ftpserver/server.go` | per session: root, home, user; the open handles | open, list, mkdir, remove, rename, chmod, chtimes, truncate | asks the Authorizer, then acts through afero |
| SFTP server | `pkg/sftpserver/server.go`, `pkg/status/conn_metrics.go` | `listener`, `conns`, `stopping` under `mu`; `wg`; the atomic counters; per connection the socket's deadline and `timeoutConn.active` | `ListenAndServe`, `handleConn`, `handleSession`, `Stop`, `timeoutConn` | creates one vfs per session; its counters are read by the heartbeat |
| FTP server | `pkg/ftpserver/server.go` | the counters; the rest is ftpserverlib's | `ClientConnected`, `AuthUser`, `ClientDisconnected`, `Stop` | as the SFTP server |
| Metrics aggregation | `pkg/status/multi_provider.go` | the list of providers | sums of counters | read by the heartbeat |
| Status writer | `pkg/status/writer.go` | `stopCh`, `wg`, `shutdownOnce`; files `last_start`, `running`, `last_stop` | `WriteStartFile`, `StartHeartbeat`, `Shutdown` | the MUD reads the files to notice a crash |
| Daemon | `cmd/vkftpd/main.go` | `sigChan`, `serverErr` | start, the select, `stopServers` | all of the above |
| Rotating log writer | `pkg/logging/rotating_writer.go`, `types.go` | `f`, `approxSize` under `mu`; the log and the archives in `old/` | `Write`, `rotateLocked`, `verifyLocked`, `Close` | two instances, under the loggers |
| Loggers | `pkg/logging/logger_app.go`, `logger_access.go` | level, writer | one line per event | the rotating writer |
| Authentication | `pkg/authentication` | none | `Authenticate`, verifiers | character files, while the MUD saves and deletes them |
| SSH keys | `pkg/sftpserver/authorizedkeys.go`, `hostkey.go` | the host key file | check a public key, load or make the host key | the user's home, which the player edits; character files |
| Character files | `pkg/users/file_source.go` | none | `LoadUser` | parsed by the LPC parser; called by every login and every permission check |
| User repository | `pkg/users/repository.go` | a second TTL cache | `LoadUser`, `RefreshUser`, `UserExists` | nobody: `main` hands out the `FileSource` |
| LPC parser | `pkg/lpc/oparser.go` | position in the text | `ParseObject` | used for `access.o` and characters, which may be half written |
| Configuration | `cmd/vkftpd/config.go` | the config | defaults and checks | read once |

How they interact. Each FTP or SFTP operation runs on a goroutine of its own, goes
through the session's vfs, which calls `CanRead` / `CanWrite` of the one shared
Authorizer (a read of the cache, perhaps a load of `access.o`, a walk of the trees),
and then acts on the disk. Both servers count connections in a `ConnMetrics` each,
which the heartbeat goroutine reads every ten seconds. `main` waits for a signal
or for either server's `ListenAndServe` to return, shuts the heartbeat down, stops the
servers, and exits; a deferred `Shutdown` covers panics. The loggers are called from
everywhere, and the rotating writer's own goroutine verifies the file meanwhile.

What is hard, and the property that would be wrong if it were done badly:

* *Cache.* Loads overlap and end in any order; the age is checked under one lock
  and the map copied under another; a load may fail. No request may be decided by
  a version that was replaced long ago; a damaged file must deny, not fall back.
* *Resolver.* Several trees are walked in lockstep and stop at the first that
  decides, so the others fall behind. The lazy walk must come to what asking the
  trees one at a time would, and to what the MUD itself would answer.
* *SFTP server.* `Stop` races the accept loop, the limit, the handshakes and the
  sessions. Nothing may be lost, counted twice, or waited for in vain.
* *Deadlines.* Three goroutines set the one deadline of a connection, each to a time
  it computed earlier. A client at work must not be cut, a silent one must be, and
  nobody may stay in the handshake.
* *Counters.* A refused connection is counted, and gives its count back later; the
  heartbeat reads four counters one after the other while they change. The limit must hold,
  the counters must not drift, and the numbers of a report must fit together.
* *Logins.* The character is saved, deleted and made, and its key file edited, between
  any two reads of a login. A decision must be right for some moment of the attempt.
* *Parser.* It is lenient, and its texts may end anywhere. It must take exactly the format,
  and half a file must say nothing that the file is not going to say.
* *vfs.* Rights change between check and effect and while handles are open; flags
  come in 64 combinations; one check of a path stands for all that is below it or on the way
  to it. Nothing may change that no granted check reaches, and a failure is no licence.
* *Rotation.* Archives are named by the second of local time, which may come twice; mkdir,
  rename and open can fail half way; others move, replace or append to the log; the process
  restarts. Lines that were accepted are kept and files stay bounded.
* *Status files.* The heartbeat races the shutdown, and files outlive their run.
  An orderly stop or a slow heartbeat must not look like a crash.

`PROJECT.json` lists the hazards one by one, each at its line.

## 2. Modules

| module | models | lines up with the code as follows |
|---|---|---|
| `AccessService` | what the cache promises | a request is answered from a valid version of `access.o` not replaced longer than `Window` before it, or denied |
| `AccessCache` | the TTL cache | per goroutine: `EnsureFreshCache` (age check under RLock), `LoadFails` / `LoadAccessData` (read and parse, no lock), `StoreMap` (under the lock), `Decide` (copy under RLock). A map is its version, the index in the history `saves` of the file |
| `AccessCacheProofs` | theorems on `AccessCache` | see section 5 |
| `AccessTree` | trees, entries, permission levels | `validateNode`'s trees as functions from paths to entries, the list of groups under `?` included; `starVal`, `dotVal` |
| `AccessResolver` | `ResolvePermission` on one snapshot | `Collect` (groups and maps), one `Component` per step of the loop over the path, `Conclude` (ruled directories, the answer) |
| `AccessResolverProofs` | theorems on `AccessResolver` and `MudAccess` | see section 5 |
| `MudAccess` | `resources/access.c` | `query_groups`, `get_access_maps`, `eval_map`, `_get_access` as functions, as the reference the port is compared with. `AddedGroups` are those of the arch group daemon, which it asks besides the map; `Subtract` is `subtract_map`, which takes `?` out of a map. `Comparable` says for whom the two are the same. `MudTrees`, `MudStart`, `MudStep` and `MudWalk` are `_get_access`'s maps, the state of its loop, one turn and all turns of it |
| `SftpServer` | accept loop, connections, sessions, `Stop` | one step for each critical section, atomic operation or blocking call; `wg`, `active`, `conns`, `stopping`, `listener` are the code's |
| `SftpServerProofs` | theorems on `SftpServer` and `TimeoutConn` | see section 5 |
| `TimeoutConn` | the two deadlines of one SFTP connection, with a clock | for the reader and the writer: `Touch` (the look at `active` and `time.Now().Add`), `SetDeadline`, then the call returns or times out; for `handleConn`: `Authenticated` or `Rejected`, and `activate` in its three steps. The deadline is kept as the time left |
| `Metrics` | the counters of both servers and the heartbeat's sums | `Connect` (`IncActive` and the limit check on its result), `IncTotal`, `Disconnect`; one atomic load per step in the order of `writeRunningFile` and `MultiProvider`. `Sums` is the loop of `GetTotalConnections` over the providers, for totals that stand still |
| `MetricsProofs` | theorems on `Metrics` | see section 5 |
| `Login` | passwords and keys of one player | `LoadForPassword` and `VerifyPassword` are `Authenticate`; `LoadForKey` and `ReadKeys` are `publicKeyCallback`; `LoadUser` and `Authorized` are what `FileSource.LoadUser` and `loadAuthorizedKeys` make of a file. Everybody else's steps change the two files |
| `LoginProofs` | theorems on `Login` | see section 5 |
| `LpcParser` | the parser | one operator per method of `lineParser`, on positions in a text; `ParseObject` in the non-strict mode everybody uses |
| `LpcGrammar` | what a text denotes | the same format as sets of values, by splitting a text in every possible way: the reference for `LpcParser` |
| `Vfs` | the calls of one session | `Begin` a call, its `Check`s one at a time, each granted or denied, then its effect: `ActOpen`, `ActList`, `ActEntry` (mkdir, remove), `ActRename` with all below the source, `ActEach` and `ActEachIsDone` (`MkdirAll`, `RemoveAll`, one entry at a time), `ActAttribute`. `FsFails` ends a call, before the effect or half-way. `WriteAt` and `CloseHandle` are the handle's, `ChangeDisk` is everybody else and comes in between |
| `VfsProofs` | theorems on `Vfs` | see section 5 |
| `RotatingWriter` | the log writer, its files and its restarts | `mu` makes `Write`, `Verify`, `Close` one step each; `Rotate` and `OpenForAppend` are the sets of outcomes of the code with failing system calls. `offset` is there because a rotated file is opened without `O_APPEND`. `now` is local time, which archives are named by: `Tick` and `SetBack`. `MoveLog`, `MakeLog` and `ForeignLine` are everybody else |
| `RotatingWriterProofs` | theorems on `RotatingWriter` | see section 5 |
| `Daemon` | `main`, heartbeat, status files, over several runs | one step for each statement of `main` that another goroutine can see; the two halves of `writeRunningFile` (sample, rename) are separate |
| `DaemonProofs` | theorems on `Daemon` | see section 5 |
| `MCAccessCache`, `MCAccessResolver`, `MCSftpServer`, `MCMetrics`, `MCLogin`, `MCVfs` | model values and input sets for TLC | |
| `MCLpcParser` | texts to parse | a machine that edits texts and writes files, so that TLC visits each of them |

`AccessCache` instantiates `AccessService` (refinement), `MudAccess` extends
`AccessResolver` extends `AccessTree`, `LpcGrammar` extends `LpcParser`. A definition whose name and comment begin
with a plain statement is the code; one whose comment begins with "Mutant:" is the
same definition with a plausible bug, kept beside it to show that the properties notice
it (`PROJECT.json`, "mutants").

Abstractions worth knowing:

* `AccessCache` says *which version* decides; `AccessResolver` says *what* a version
  decides. The two meet only in the snapshot, which is immutable once stored, so
  they are checked apart.
* `AccessCache` assumes a load stores its map at most `LoadTime` after it read the
  file. Without such a bound the code has no freshness: a goroutine that slept
  for an hour would store an hour old map and date it now.
* `Vfs` has no access map: a check may be granted or denied whenever it is made, and
  two checks of one path need not agree. Which level grants what is `Permission.CanRead` /
  `CanWrite`. The disk is a tree. The jail's root is no path of a call, and symbolic links are left out.
* `AccessResolver` has a list of groups as the list it is for `resolveGroups` and as a
  leaf of value 0 for the walk, as `evalMap` makes of what is neither number nor node.
* `SftpServer` has one `HangUp` for a peer that goes away and for the idle deadline;
  `TimeoutConn` says when that comes. Authentication is an outcome of `Handshake`;
  `Login` says which. `SftpServer` and `Metrics` share the counters: the former
  has `DecActive` among the steps `Stop` waits for, the latter has both servers and their readers.
* `TimeoutConn` assumes that `SetDeadline` follows the `time.Now()` of its argument
  within `Delay`, and that `Delay` is less than the idle timeout. Without such a
  bound an old deadline could be set after a newer one and cut a client that is
  at work.
* `Login` has passwords as the hashes they verify against. A character is its
  name: one that is deleted and made anew is the same to it, as it is to
  `authorizedkeys.go`, which finds the old keys in the old home.
* `LpcParser` bounds the digits of a number where the code has 64 bits, and has
  characters where it has bytes.
* `Daemon` is the deployment with SFTP and a status directory, both optional in
  the code. A server there serves, fails or returns after `Stop`; that it does return
  is what `SftpServer` shows.
* `RotatingWriter` measures size in lines of equal length, so that a line longer than
  the limit by itself does not occur; the code writes it into a fresh file, over the
  limit. A write that the disk cuts short is not modelled. A second is one value of `now`;
  that the name's format orders seconds as the calendar does, within one time zone offset,
  is part of the abstraction, and that the offset changes is `SetBack`.

## 3. Runs

Passing runs:

| run | instance | what it shows |
|---|---|---|
| `AccessCache` | 2 goroutines, TTL 2, LoadTime 1, 2 states of the file, clock to 5 | `FreshDecisions`; the cache implements `AccessService` with window TTL + LoadTime (`ServiceSpec`); under fairness the last state of the file takes over for good: a good one decides everything (`SavedMapTakesOver`), a damaged one denies everything (`DamagedMapDenies`) |
| `AccessResolver` | two situations. *Walks*: the user's own and the default tree, every shape down to three components of one name, beside an `Arch_full` map. *Rules*: every set of existing maps for own, two arch groups, one domain group, default; lists of groups in the own map; groups of the arch group daemon; five levels; ten paths, `/?` among them | the walk in lockstep is what first-match says on trees walked alone, for paths without `?` after the first component (`ResolvesByFirstMatch`); the port agrees with `access.c` for whom the two can be compared (`Comparable`, `MatchesMud`) |
| `SftpServer` | 2 connections, 2 channels each, limit 1 | safety of the races with `Stop` (`NeverOrphaned`, `StoppedIsQuiet`, `NoAddFromZeroAfterWait`), and that `Stop`, `ListenAndServe` and every connection end (`StopEndsEverything`) |
| `TimeoutConn` | handshake 3 ticks, idle timeout none or 3, delay 1, two writes in the kernel | `NotCutEarly`, `SilentIsCut`, `HandshakeEnds` |
| `Metrics` | two servers, 3 clients each, limit 1, 2 admitted connections each | `ConnectionLimit`, `CountersBalance`; the total written lies between the true ones (`TotalWasTrue`); a report has no more active than in all but for connections not yet admitted (`ActiveIsInTotal`) |
| `Login` | one connection, two passwords, two keys, key files of up to two lines and one too many, two attempts | `PasswordsJudgedByOneMoment`, `KeysFollowTheCharacter`, `GoodKeysAreAccepted` |
| `LpcParser` | nine texts with every one or two edits over 16 characters; every prefix of a file with each kind of value | `ParsesTheFormat`, `TornReadsAreNotNew` |
| `VfsSafety` | 2 directories with a child each, 2 files, every call and flag set | `ChangesAreGranted`, `WritersWereGranted`, `WriteIntentIsKept`, `FailuresAreContained` |
| `RotatingWriter` | limit 3 lines, 5 lines, 4 files, clock to 2 and set back once, two lines a second, with calls that may fail and with ones that do not | as long as local time has not gone back, archives are in order (`ArchivesOrdered`) and, if no call fails, no accepted line is lost (`AcceptedLinesKept`); in any case files are bounded (`LogsBounded`) and the writer gets the file at the path again (`Recovers`) |
| `Daemon` | 2 runs, heartbeat every tick, stale after 4, clock to 7 | `OrderlyStopIsSeen`, `AliveIsSeen`, `LastStopIsLast`; a signal or a server's end ends the run (`ShutdownCompletes`) |

Runs that end in a violation, each of a sentence of the repository that the code
does not keep:

| run | sentence | what happens |
|---|---|---|
| `RotatingWriterTruncates` | `README.md:104`, `rotating_writer.go:148` | when the rename fails, the log that was to be archived is opened with `O_TRUNC` |
| `DaemonCrash` | `README.md:107`, crashes are seen as a stale `running` | a crash before the first heartbeat of a run, or after `last_stop` was written, leaves no such trace |

Other disagreements met while modelling, without a run of their own:

* *Resolver.* `authorizer.go:197-198` says "matching query_groups", and there are four
  kinds of request for which the port does not match. `MudAccessAssumption` leaves out the third,
  `Comparable` the others, and without any one of its conditions the run fails. (1) `access.c:361-371` and `386-404` add the
  groups that the arch group daemon knows, which no file has, so that the port lacks their maps.
  (2) With no `Arch_full` map, `query_groups` never looks the level up: an arch is in no implicit
  group there, but is in one by `authorizer.go:205`. (3) A name that the MUD takes for no user (a
  fake one, one with a capital) has no groups in `access.c`. (4) For a component `?` of a path the port finds
  the list of groups and reads it as 0, no opinion, whatever the `*` of that map says
  (`authorizer.go:169-173`). `access.c:627` has taken the list out of the map of a user who has
  groups, so that the `*` decides; where it has not, comparing the list with a number is an error.
* *Resolver, in itself.* A list that is met below the root undoes what was decided above it, as
  `evalMap` gives 0 for it; `ResolvesByFirstMatch` therefore asks for no `?` after a path's
  first component (`ListsAtRoot`). A user without a map of their own has their group's at index 0, and that one decides
  their home (`authorizer.go:136`), although `authorizer_test.go:363` says "Home directory
  trumps group permissions"; `access.c` does the same. For the path `/`
  the loop over components does not run and only the first map is asked. A `.` entry
  is not looked at unless a `*` above it has decided, although
  `docs/viking_access_tree.md:29` presents it as specific (the MUD does the same).
* *Cache.* A load that takes time dates its map at the store, so that a map may
  decide after more than `access_cache_time`, which is why the window is TTL + LoadTime.
  `character_cache_time` (`README.md:96`) has no effect: `main` uses the
  `FileSource` itself, and every login and permission check reads the file.
* *vfs.* One check stands for more than the path. `RemoveAll` (`vfs.go:239-251`) and `Rename`
  of a directory (`253-265`) reach all that is below, `MkdirAll` (`211-223`) makes missing parents, each
  after `CanWrite` of the given path alone. As the access tree may revoke below what it
  grants, an entry that the user may not write is removed or moved with a directory that
  they may; `Covers` in `ChangesAreGranted` says exactly how far a check reaches. `RemoveAll` and
  `MkdirAll` that fail have changed what they had come to (`FailuresAreContained`).
* *Log writer.* Archives are named by local time (`rotating_writer.go:143-145`). When that goes
  back, at the end of summer time or because the clock is set, a later rotation gets an
  earlier name, and may get one that is there and replace that archive. `ArchivesOrdered`
  and `AcceptedLinesKept` say so (`setbacks = 0`); without it TLC finds both. Two
  rotations within a second also rename over one archive: the run logs two lines a second with
  a limit of three, and with `Burst = 3` it fails. After a rotation the log is open
  without `O_APPEND`, so that a line somebody else appends is overwritten.
* *Limits.* `max_connections` limits each of the two servers, though `README.md:65,90`
  can be read as one limit, and 0, "unlimited" to the servers, becomes 10
  (`config.go:119`). A connection being refused still counts for a moment, so
  that in a burst another is refused although fewer than the limit are admitted.
* *Deadlines.* The idle time runs from the *call* of a Read or Write, not from its
  end, and one deadline serves both directions.
* *Parser.* An identifier may not begin with an underscore and there are no
  references, though the document of the format has both; the document's examples of mappings
  have no sizes. The parser takes a float without decimals if it has bits
  (`2=a`), a complex key without a value, a comma in an empty array but not in an
  empty mapping, and refuses `nil` before a space. A zero byte ends a line. The keys
  `1` and `"1"` of a mapping are one.

### Bounds, and why they are enough

* *Cache*: the worst case needs an old load, a newer load that ends first, a save
  between them and a request after: two goroutines, two states of the file and
  TTL + LoadTime + 2 ticks. Goroutines interact only through the cached map and its
  age, so a third adds no new kind of interference; the proofs cover any number.
* *Resolver*: a step relates the current node, its parent's default and one entry.
  Three components are the least at which a map left behind could meet entries under another
  name and then win back; all components have the same name, so that a wrong node does find
  entries. Two maps are enough for order, and the rules have up to four. Lists of groups are
  where `validateNode` keeps them, under `?`, and two paths lead there and beyond.
* *SFTP*: two connections are needed to pass a limit of one, and each connection
  interacts with `Stop` and the loop alone. Two sessions make `wg` rise and fall while `Stop`
  waits. With three connections the same properties held in a run without liveness.
* *TimeoutConn*: an idle time of three ticks is more than two delays, so that a
  deadline that was overtaken is told from one that is not; two writes make a kernel buffer
  that is full while one more is wanted. The clock is not bounded, as only times left are kept.
* *Metrics*: two clients pass a limit of one; the third is refused while the second
  has not yet given its count back. Two admitted connections of each server make the
  total change on both sides of either load.
* *Login*: connections share nothing but the disk, so one is enough. Two of each
  make a password and a key change into another. A key file has a good line after
  a bad one and may be a line too long.
* *LpcParser*: two edits turn a seed into another kind of value, a wrong size, a nested or
  unclosed list, or an escape before a quote; the seeds are what no two edits make. Two digits are
  one more than the sizes need and one fewer than the longest texts have.
* *Vfs*: a rename needs two paths; with a child each, both are directories that can have
  something below, be removed entry by entry, and be made on the way to the child. Two files are one
  behind the handle and one that is put in its place. The directories are interchangeable (symmetry).
* *RotatingWriter*: five lines make two rotations with limit 3, and a log of an earlier run a
  third; four files leave room for the taken, the archived and the open one. Three seconds and one
  setback are enough for a later name, an earlier one and the same again. `FilesLeft` stops growth before the
  last file, which the verifier is left.
* *Daemon*: two runs are needed for one to find the files of another. The
  ratio of 4 to 1 is stricter than the real 60 s to 10 s: `AliveIsSeen` needs
  `Stale >= 2 * (Interval + 1)` when a heartbeat may be a tick late.

Runs with `CHECK_DEADLOCK FALSE` are those whose system may really end: a resolved
request, a stopped server, and writers and daemons that ran out of lines or runs.

### Fairness, and why the code justifies it

* `AccessCache`: weak fairness of each goroutine and of the clock: the Go scheduler
  runs what is runnable, nothing in `ResolvePermission` waits for another request
  but the short critical sections.
* `SftpServer`: weak fairness of the accept loop, each handler and `Stop`. A session is
  obliged to end only when its connection is dead, which is what makes its reads
  fail. Clients, `AcceptError` and the call of `Stop` have no fairness at all.
* `TimeoutConn`: the goroutines run (a Read that begins sets its deadline, a call
  that is past it times out, `handleConn` goes on), and the reader, which is a loop of the SSH
  library, comes back to Read. Strong fairness of the clock says no more than that
  no number of steps stops time. The client owes nothing.
* `RotatingWriter`: strong fairness of a verification that succeeds: the ticker keeps
  firing, and a directory that can be opened again and again will be opened. It is not
  assumed that any given attempt succeeds.
* `Daemon`: weak fairness of `main` and of the heartbeat, and strong fairness of the branch
  of its select that takes `stopCh`: Go picks among ready branches at random,
  so a closed channel is taken in the end.

## 4. Properties

Every property is stated in words above its definition, and each has at least
one mutant of the code that breaks it. `TypeOK` of `AccessCache`, `AccessResolver`, `SftpServer`,
`RotatingWriter`, `Daemon` and `Vfs` also carry the small facts the others rest
on (a map is not dated later than now, an index within the maps, one file at the log's path, no
file at two paths, no entry without its parents).

## 5. Proofs

Each `...Proofs` module has an invariant `IInv` that is inductive, the proof that every
action keeps it, one lemma per action, and the theorems that follow. Where a
property needed more than that, a second invariant is proved over `IInv`: `SampleInv`, `MudInv`, and `DeadlineInv` for
`TimeoutConn`. All were checked
by TLC on the instance of the run before they were proved. What the theorems assume of
the constants are the `ASSUME`s of the modules, which TLC evaluates in the runs, and
hypotheses a theorem states itself. The bounds that keep TLC's instances finite (`MaxSaves`,
`MaxLines`, `MaxTime`, ...) are constants too: what is proved holds for every value of them.

| module | theorem | property | hypotheses beyond the module's assumption |
|---|---|---|---|
| `AccessCacheProofs` | `TypeCorrect` | `TypeOK` | |
| | `DecisionsAreFresh` | `FreshDecisions` | |
| | `CacheIsAService` | `ServiceSpec` (refinement) | |
| `AccessResolverProofs` | `TypesHold` | `TypeOK` | |
| | `FirstMatchResolves` | `ResolvesByFirstMatch` | (`ListsAtRoot`, in the property) |
| | `PortIsFaithful` | `MatchesMud` | (`Comparable`, in the property) |
| `SftpServerProofs` | `TypesHold` | `TypeOK` | |
| | `NoConnectionOrphaned` | `NeverOrphaned` | |
| | `QuietAfterStop` | `StoppedIsQuiet` | |
| | `WaitGroupRuleKept` | `NoAddFromZeroAfterWait` (action) | |
| | `WorkingClientsStay` | `NotCutEarly` (action) | `TimeoutConnAssumption` |
| `MetricsProofs` | `CountersNeverDrift` | `CountersBalance` | |
| | `LimitHolds` | `ConnectionLimit` | |
| | `TotalWasTrueAlways` | `TotalWasTrue` | |
| | `ActiveIsInTotalAlways` | `ActiveIsInTotal` | |
| | `ReportsNeverFall` | `ReportsGrow` (action, of no run) | |
| `LoginProofs` | `KeysFollow` | `KeysFollowTheCharacter` | |
| | `GoodKeysAccepted` | `GoodKeysAreAccepted` | |
| | `PasswordsJudged` | `PasswordsJudgedByOneMoment` (action) | |
| `VfsProofs` | `TypesHold` | `TypeOK` | |
| | `ChangesGranted` | `ChangesAreGranted` | |
| | `WritersGranted` | `WritersWereGranted` | |
| | `WriteIntent` | `WriteIntentIsKept` | |
| | `FailuresContained` | `FailuresAreContained` | |
| `DaemonProofs` | `TypesHold` | `TypeOK` | |
| | `NothingAfterLastStop` | `LastStopIsLast` (action) | |
| | `OrderlyStopSeen` | `OrderlyStopIsSeen` | the status files can be written |
| | `AliveSeen` | `AliveIsSeen` | they can be written, and `Stale >= 2 * (Interval + 1)` |
| `RotatingWriterProofs` | `TypesHold` | `TypeOK` | |
| | `LinesStay` | `AcceptedLinesKept` | fewer lines in a second than fill a log (no setback and no failure, in the property) |
| | `FilesStayBounded` | `LogsBounded` | the limit is more than one line |
| | `ArchivesInOrder` | `ArchivesOrdered` | (no setback, in the property) |

**`AccessCacheProofs`**, for every set of goroutines, TTL, load time, and bound. It
rests on `AccessCacheAssumption` only: TTL positive, load time and bounds
natural numbers, at least one state of the file.

`FreshDecisions` (no request is granted anything by a version that was replaced
`TTL + LoadTime` or more before it was made) is not inductive: it speaks of requests that
are done, and whether one will be fresh depends on the cache, whose freshness depends on the
loads under way. `IInv` adds what each stage knows:

* `ClockInv`: nothing is dated in the future, and the history's dates do not
  decrease; without it a version could have left the file "later" than the next did.
* `LoadInv`: what a loader holds was in the file when it read it, at most
  `LoadTime` ago. `Tick` keeps this, as it waits for loaders.
* `CacheInv`: the cached map was in the file until `LoadTime` before
  `lastRefresh`. `StoreMap` gets it from `LoadInv`; that a store may be of an older map
  does not matter, as it was read recently enough.
* `SnapshotInv`: who is about to copy the map finds one stored after
  `asked - TTL`: `EnsureFreshCache` saw that the map was young enough, and stores only
  make `lastRefresh` later.
* `PendingInv`: a request that is not done has granted nothing.

`Decide` combines `CacheInv` and `SnapshotInv` into `FreshDecisions`. The lemmas
`InFileAfterWeaken` and `SaveKeepsInFileAfter` say how "was in the file after t" weakens
with time and survives a save. The refinement maps a request to "idle",
"done" or "busy" for every other place; loads and stores stutter, `LoadFails` and
`Decide` are the answer, and the freshness the abstract `Answer` asks for
is `FreshDecisions` of the next state.

**`AccessResolverProofs`**, for any number of maps, any trees, groups, levels and
paths of any length. `AccessResolverAssumption` says that the arch groups are
groups, that a tree is well formed along the paths that are asked, which is what `validateNode`
leaves of a file, and that a character's level is an integer, which is how `FileSource` reads it. `MudAccessAssumption`
says that the user is no fake one and is no group.
`ResolvesByFirstMatch` compares the loop of `resolveAccess`, which
walks all maps in lockstep and leaves some of them behind, with a recursive function
that walks one map alone. `IInv` says while it walks (`FirstSoFar`): there is a first map `d`
with an opinion so far, or none; the maps up to `d` are exactly where they would be alone
(`InStep`); those before it have no opinion; and `j` is `d`. The maps after `d` may have
been left behind by an inner loop that ended early, and nothing is said of them but that they are
at a node of their tree (`NodesOK`): this is what makes the early exit sound, as no map
once left behind can come to be asked again. Before the first component all maps are in step. From the
second on, no component is `?` (`ListsAtRoot`): a list of groups there would give 0 to a map that
had decided otherwise.

What a recursive function is at its arguments needs induction, and the library's induction theorems are
out of the prover's reach, as they have an operator as a parameter. `LeastNumber` takes their place: a set of
numbers that is not empty has a least element, from the library's theorem that the order of the naturals is
well founded. A walk of every length exists because a least length of which there is none cannot exist
(`WalkExists`), and so the `CHOOSE` behind the recursive function is one
(`AloneWalkUnfolds`). The lists of maps, and the first of them that decides, are treated alike.

`MatchesMud` compares the port with the MUD's own code, whose loop ends differently: its index is one past the
last tree when none has decided, where the port's stays on the last. The proof has two halves. `SameMaps`: from
one snapshot, both collect the same trees in the same order, although `query_groups` and `resolveGroups` look
at the level under other conditions (`SameGroups`), and the port leaves out every name without a map where the MUD leaves
out the user only. The MUD's own tree has lost its list of groups, which no path without `?` can notice
(`SubtractAgrees`). `Lockstep`: after as many components, every tree is at the node, and has
the default, that `MudWalk` gives it, and both loops have
stopped at the same tree. `EvalAgrees` is the heart of it: one entry is evaluated alike by `evalMap` and by
`eval_map`, which the code writes as different chains of conditions. `ConcludeKeepsMud` adds the ruled
directories and the last answer. The property speaks of users and paths that are `Comparable`, and the
theorem needs all of it: `access.c` does not fail on the input (`MudDefined`), the arch group daemon
adds no group, there is an `Arch_full` map, and no component of the path is `?` (see section 3).

**`SftpServerProofs`**, for any finite sets of connections and channels and any
limit. The listener is no connection (`SftpServerAssumption`). The properties are
about moments when `Stop` has got somewhere; what makes them true is what the counters count all
along. `WgInv`: `wg` is the number of handlers that have not finished plus that of
sessions. `ActiveInv`: `active` is the number of handlers between their `IncActive` and their
`DecActive`. `TrackedInv`: `conns` is who is between `trackConn` and `untrackConn`.
`SockInv`: a handler that is about to finish has a dead socket. `StopInv`: while `Stop` closes,
every unfinished connection is dead, about to close itself, or on its list. When
`wg.Wait` lets `Stop` return, `wg = 0` with `WgInv` is that nobody is left, and with
`ActiveInv` that the counter is 0. That nothing is added to `wg` at zero is an action property: a
session is begun by a handler, which counts, and a connection only while `stopping` is unset.

The same module has the deadlines of one connection: it declares the constants and variables of
`TimeoutConn` and instantiates it, with `activated` for `timeoutConn.active`, as `active` is the counter
there. `TimeoutConnAssumption` is a hypothesis of the theorem and of its lemmas: idle timeouts are zero or more
than `Delay`. `NotCutEarly` needs to know what the one deadline of the socket is, whoever set it last. `PendingInv`: a
deadline that was computed and not yet set is at most `Delay` old, as `Tick` waits for it.
`ActivatedInv`: nobody computes one before `activate` has stored its flag. `ServingInv`: once `activate` is over, the time
left is at least that from the last Read or Write, less `Delay`; so when nothing is left, the client has been quiet
that long, and without an idle timeout there is no deadline at all. A set that is overtaken keeps this
because it is itself no older than `Delay`.

**`MetricsProofs`**, for any servers, any finite set of clients and any limit
(`MetricsAssumption`: finitely many clients, natural bounds, servers with names
of their own). `CountersBalance` is inductive with the types of the connections.
`ConnectionLimit` is not: a server admits on what its counter says, so that the invariant
has both, and `ConnectKeeps` is where they meet: the connection is admitted if all
that are counted, itself included, are within the limit, and whoever is past the check is
counted (`AdmittedAreCounted`). The lemmas `Joins`, `Leaves` and `Stays` say what a move
from one state to another does to the number of connections in a set of states.

A report takes one load for each server and counter, and all counters change between them. `TotalWasTrue` at
the write needs what was true at each load (`SampleInv`). While the totals are read (`ReadingTotal`), what
has been added up is at most what the servers already passed have by now (`Passed`), and it makes up, with what
the servers ahead have by now (`Ahead`), for the true total at the beginning (`floor`). As totals never fall,
a connection only makes `Passed` and `Ahead` larger (`GrowthKeeps`). `ActiveIsInTotal` is carried through both
halves: while the active connections are read, those read are at most the totals of their own servers and
those not yet admitted (`ReadingActive`); with the order of the two halves swapped there is no such
invariant, and the mutant `FieldsTotalFirst` fails. `ReportOK` then gives `ReportsNeverFall`: the total
in `running` never falls from one report to the next.

Sums over the servers are a recursive function of the number of servers (`Sums`), so that the same argument
by a least number as for the resolver gives its equation (`SumsUnfold`), its type (`SumsType`), and that a sum
over a range grows when its terms do (`SumsGrow`), which is all the proof asks of it.

**`LoginProofs`**, for any connections, hashes, keys and key files. A hash is
no key, and "none" no hash (`LoginAssumption`). The properties compare an answer with
what the two files said during the attempt, while others edit them between any two reads.
`IInv` carries along what each stage of an attempt has read: the hash that is about to be verified was
in force at a moment of the attempt (`FoundInv`); who goes on to the key file has found a
character (`ExistedInv`); a yes, also one that the SSH library remembers, was given when the key was
listed (`YesInv`), and a no when it was not (`NoInv`). The lemma `Bystander` says that a step of one connection
leaves the others' part of the invariant alone, so that each action is treated for one
connection only.

**`VfsProofs`**, for any names, any set of paths that has the parents of its members, any files and calls
(`VfsAssumption`; also, that there is nothing, or a directory, at a path is not a file). The properties relate an
effect to checks that were made earlier, while others change the disk and checks are answered anew each time. `ChecksGranted` is
the link: all of the stage's checks up to the current one are among those that were answered with yes; the
effect waits for the last of them. `DiskOK` is that the disk is a tree in which no file is at two paths, which
a rename keeps because it takes all that is below the source along (`RenamedIsTree`). `StagesInv`
says that what a setstat has done and what is left are what it was to do. `ContainedInv` is what the calls that
work entry by entry have changed while they run: only below the path for `RemoveAll`, only on the way to it for
`MkdirAll`, and nothing for the others; from it follows `FailuresAreContained`, whenever they fail.

**`DaemonProofs`**, for any intervals and any number of runs. The properties are about files that
outlive their run. `HeartInv` has the order of `main` and the heartbeat: the heartbeat beats
from `StartHeartbeat` until `Shutdown` has waited for it. `FilesInv`: no file is of a later time or run than there
was, and `last_stop` is of this run only once `Shutdown` has come to it. `NothingAfterLastStop`
follows from the two. `StoppedInv` and `BeatInv`, about how old `running` is at
each place of the heartbeat, hold only when the files can be written, as the theorems that use
them say: when they cannot be, an orderly stop leaves no trace and there is nothing to show. The bound on `Stale`
is the least with which a beat may be a tick late; the real values are 60 s to 10 s.

**`RotatingWriterProofs`**, for any limit, drift, burst and failures. The parts of the invariant are
about a writer and a disk given as arguments (`Sound`), as a write that rotates goes through
a state in between that nobody sees, and each outcome of `Rotate` and `OpenForAppend` has to be sound before
the line is written into it. There is one lemma for each thing that is done to the two: a file is closed,
adopted from the path, created, by the writer or by others, renamed to the archive, truncated, or taken away; a line is written,
skipped, or appended by somebody else; local time is set back.

* `DiskOK`, `OrderOK`: one file at most is at the path and, as long as there has been no setback, no archive
  is of the future and nothing in an archive is younger than what is in the log or in a later archive. The
  last alone is not inductive: a rotation makes the log an archive. After a setback `OrderOK` says nothing, and
  the rest of the invariant does not need it.
* `WriterOK`: the open file is no archive (it may have been moved away), and behind the
  writer's offset there are only lines of others. A rotated file is open without `O_APPEND`; this is why
  it overwrites no line that was accepted.
* `BoundOK`: `approxSize` is no less than the number of the writer's own lines in the open file. It may be
  more or less than the file's length.
* `KeptOK`, for a writer that is `Undisturbed` (no failing call, no setback, a burst less than the limit): once
  there is an archive of this second, `approxSize` and the log's length are at most what was
  logged in this second. There is then no second rotation in
  the second, which would rename over the first one's archive; without these hypotheses the code does
  lose lines, see section 3. The property itself says that no system call fails: when
  one does, `RotatingWriterTruncates` shows that it is not so.

### Model-checked only

* *Liveness*: `SavedMapTakesOver`, `DamagedMapDenies`, `StopEndsEverything`, `SilentIsCut`,
  `HandshakeEnds`, `Recovers`, `ShutdownCompletes`. Fairness and ENABLED are beyond the prover.
* *The parser* (`ParsesTheFormat`, `TornReadsAreNotNew`). Its operators are `RECURSIVE`, for which the prover
  has no SMT backend, and its claims are about what they compute for every text.

Every other property of a passing run is stated by a theorem.

## 6. Not modelled

* The user repository (`pkg/users/repository.go`): a second TTL cache, which
  nothing constructs. `main` hands the `FileSource` to everybody.
* Password hashing (`pkg/authentication/argon2id.go` and the others): a pure function of the
  password and the hash. It parses the parameters of the hash as written by the MUD.
* The host key, read or made once at the start.
* The check of a user's name before it becomes a path (`file_source.go`), which
  does not depend on state.
* The loggers, which format a line and hand it to the rotating writer, and the configuration,
  read once. It matters for two models: an idle timeout of 0 becomes 300 s
  (`config.go:122`), so that the case "none" of `TimeoutConn` is reached only by a
  user of `sftpserver.Config`, which documents it; and `max_connections` of 0 becomes 10.
* `last_start`, which nothing in the system reads, and the start time in `running`.
* ftpserverlib, pkg/sftp and x/crypto/ssh, but for how the code uses them.

## 7. Plan

Done, in this order, the most important behaviour first: the permission cache with its
abstract service and proofs, the resolver against `access.c`, the SFTP server's
life cycle, the log writer, the daemon, the vfs; then the deadlines of a
connection, the counters of both servers and their reports with proofs, logins by password and by key, the
object parser against a grammar.

Next, modelling: `Vfs` composed with `AccessCache`, so that a right revoked in `access.o`
bounds the time at which a call is still granted.

Proved, in this order: the safety of the cache, the counters, the SFTP server, the vfs, the
resolver, the logins, the daemon and the log writer; then the reports of the heartbeat, the
comparison with `access.c`, and the deadlines of a connection.

Next, proofs: that the vfs with the cache under it grants nothing that was revoked longer than
`TTL + LoadTime` before the call's check, from `DecisionsAreFresh` and `ChangesGranted`, once the two are composed.
