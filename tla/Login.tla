-------------------------------- MODULE Login --------------------------------
(***************************************************************************)
(* Logging in as one player: Authenticator.Authenticate for passwords (FTP  *)
(* and SFTP), publicKeyCallback for keys (SFTP), both through               *)
(* FileSource.LoadUser.  Nothing is locked: the MUD saves, deletes and      *)
(* makes characters, and the player writes .authorized_keys, between any    *)
(* two reads.  golang.org/x/crypto/ssh, which asks the callbacks, keeps     *)
(* their answers on keys for the rest of the connection.                   *)
(*                                                                         *)
(* A password is the hash it verifies against.  The level that LoadUser     *)
(* also returns has no part in a login.                                    *)
(***************************************************************************)
EXTENDS Naturals, Sequences, FiniteSets

CONSTANTS
  Session,      \* the connections
  Hash,         \* password hashes, one for each password
  Key,          \* public keys
  MaxKeyLines,  \* maxAuthorizedKeysSize, in lines
  MaxAuthTries  \* failures after which a connection ends

\* "none" stands for the hash there is not.
ASSUME LoginAssumption ==
  /\ MaxKeyLines \in Nat /\ MaxAuthTries \in Nat \ {0}
  /\ Hash \intersect Key = {}
  /\ "none" \notin Hash

VARIABLES
  file,     \* the character's file
  keyFile,  \* the lines of .authorized_keys, <<>> when there is nothing to read
  pc,       \* pc[s]: where the attempt of s is
  tried,    \* tried[s]: the password or key that s tries
  signed,   \* signed[s]: the attempt comes with the key's signature
  loaded,   \* loaded[s]: what LoadUser returned last
  answers,  \* answers[s][k]: what the callback said of k on this connection
  failures, \* failures[s]: failed attempts so far
  existed,  \* history: s has seen the character exist
  held,     \* history: keys listed in view of s once the character had existed
  steady,   \* history: keys that have worked ever since s connected
  current   \* history: the hashes in the file since s began its attempt

disk == <<file, keyFile>>
attempt == <<pc, tried, signed, loaded, answers, failures>>
history == <<existed, held, steady, current>>
vars == <<disk, attempt, history>>

\* The character's file is missing, or has a password and is empty (just
\* truncated), written up to before the password, or further, or cannot be
\* opened.
NoFile == [hash |-> "none", text |-> "missing"]
Text == {"empty", "partial", "whole", "unreadable"}
Files == {NoFile} \union [hash : Hash, text : Text]

Junk == "junk"  \* a line that is no key: bad, or half written
KeyLines == UNION {[1 .. n -> Key \union {Junk}] : n \in 0 .. MaxKeyLines + 1}

NoCredential == "nothing"
NotAsked == "not asked"

-----------------------------------------------------------------------------
(* What is read.                                                           *)

Reason == {"not loaded", "not found", "parsing", "invalid hash", "reading"}
Error(why) == [err |-> why, hash |-> "none"]
User(h) == [err |-> "nil", hash |-> h]

\* LoadUser of a file in state fl: ErrUserNotFound, a parse error,
\* ErrInvalidHash, or the user.
LoadUser(fl) ==
  CASE fl.text = "missing" -> Error("not found")
    [] fl.text = "empty" -> Error("parsing")
    [] fl.text = "partial" -> Error("invalid hash")
    [] fl.text = "unreadable" -> Error("reading")
    [] OTHER -> User(fl.hash)

\* Mutant: what follows a line that is no key is not read.
AuthorizedUpToJunk(lines) ==
  IF Len(lines) > MaxKeyLines THEN {}
  ELSE {lines[n] : n \in {m \in DOMAIN lines : \A l \in 1 .. m : lines[l] # Junk}}

\* loadAuthorizedKeys: of a file that is too long, none.
Authorized(lines) ==
  IF Len(lines) > MaxKeyLines THEN {} ELSE {lines[n] : n \in DOMAIN lines} \ {Junk}

\* What should count now: the password's hash, the keys in the file, and those
\* of them that should work.
HashInForce == IF file.text = "whole" THEN file.hash ELSE "none"
Listed == {keyFile[n] : n \in DOMAIN keyFile} \ {Junk}
KeysInForce == IF file.text = "whole" /\ Len(keyFile) <= MaxKeyLines THEN Listed ELSE {}

Init ==
  /\ file \in Files
  /\ keyFile \in KeyLines
  /\ pc = [s \in Session |-> "idle"]
  /\ tried = [s \in Session |-> NoCredential]
  /\ signed = [s \in Session |-> FALSE]
  /\ loaded = [s \in Session |-> Error("not loaded")]
  /\ answers = [s \in Session |-> [k \in Key |-> NotAsked]]
  /\ failures = [s \in Session |-> 0]
  /\ existed = [s \in Session |-> file # NoFile]
  /\ held = [s \in Session |-> IF file # NoFile THEN Listed ELSE {}]
  /\ steady = [s \in Session |-> KeysInForce]
  /\ current = [s \in Session |-> {}]

\* Every step makes history; an attempt with a password begins a new one.
Observe ==
  /\ existed' = [s \in Session |-> existed[s] \/ file' # NoFile]
  /\ held' = [s \in Session |-> held[s] \union IF existed'[s] THEN Listed' ELSE {}]
  /\ steady' = [s \in Session |-> steady[s] \intersect KeysInForce']
  /\ current' = [s \in Session |->
                   IF pc'[s] \in {"load", "verify"} THEN current[s] \union {HashInForce'}
                   ELSE {}]

-----------------------------------------------------------------------------
(* Passwords.                                                              *)

TryPassword(s, h) ==
  /\ pc[s] = "idle"
  /\ pc' = [pc EXCEPT ![s] = "load"]
  /\ tried' = [tried EXCEPT ![s] = h]
  /\ UNCHANGED <<disk, signed, loaded, answers, failures>>
  /\ Observe

\* Mutant: a user loaded for an earlier attempt is used again.
LoadForPasswordOnce(s) ==
  /\ pc[s] = "load"
  /\ loaded' = [loaded EXCEPT ![s] = IF @.err = "nil" THEN @ ELSE LoadUser(file)]
  /\ pc' = [pc EXCEPT ![s] = "verify"]
  /\ UNCHANGED <<disk, tried, signed, answers, failures>>
  /\ Observe

\* Authenticate loads the character ...
LoadForPassword(s) ==
  /\ pc[s] = "load"
  /\ loaded' = [loaded EXCEPT ![s] = LoadUser(file)]
  /\ pc' = [pc EXCEPT ![s] = "verify"]
  /\ UNCHANGED <<disk, tried, signed, answers, failures>>
  /\ Observe

Fail(s) ==
  /\ failures' = [failures EXCEPT ![s] = @ + 1]
  /\ pc' = [pc EXCEPT ![s] = IF failures'[s] = MaxAuthTries THEN "closed" ELSE "idle"]

\* ... and verifies the password, against a dummy hash when there is none.
VerifyPassword(s) ==
  /\ pc[s] = "verify"
  /\ IF loaded[s].err = "nil" /\ loaded[s].hash = tried[s]
       THEN pc' = [pc EXCEPT ![s] = "in"] /\ UNCHANGED failures
       ELSE Fail(s)
  /\ UNCHANGED <<disk, tried, signed, loaded, answers>>
  /\ Observe

-----------------------------------------------------------------------------
(* Keys.                                                                   *)

Answer(s, yes) ==
  /\ answers' = [answers EXCEPT ![s][tried[s]] = IF yes THEN "yes" ELSE "no"]
  /\ pc' = [pc EXCEPT ![s] = "answered"]

\* The client asks whether a key would do, or comes with its signature; only
\* of a key not asked about before does ssh call publicKeyCallback.
TryKey(s, k, sig) ==
  /\ pc[s] = "idle"
  /\ pc' = [pc EXCEPT ![s] = IF answers[s][k] = NotAsked THEN "loadForKey" ELSE "answered"]
  /\ tried' = [tried EXCEPT ![s] = k]
  /\ signed' = [signed EXCEPT ![s] = sig]
  /\ UNCHANGED <<disk, loaded, answers, failures>>
  /\ Observe

\* Mutant: whether the character could be loaded is not looked at.
LoadForKeyLenient(s) ==
  /\ pc[s] = "loadForKey"
  /\ loaded' = [loaded EXCEPT ![s] = LoadUser(file)]
  /\ pc' = [pc EXCEPT ![s] = "readKeys"]
  /\ UNCHANGED <<disk, tried, signed, answers, failures>>
  /\ Observe

\* publicKeyCallback asks for the character first ...
LoadForKey(s) ==
  /\ pc[s] = "loadForKey"
  /\ loaded' = [loaded EXCEPT ![s] = LoadUser(file)]
  /\ IF loaded'[s].err = "nil"
       THEN pc' = [pc EXCEPT ![s] = "readKeys"] /\ UNCHANGED answers
       ELSE Answer(s, FALSE)
  /\ UNCHANGED <<disk, tried, signed, failures>>
  /\ Observe

\* ... and then for its keys.
ReadKeys(s) ==
  /\ pc[s] = "readKeys"
  /\ Answer(s, tried[s] \in Authorized(keyFile))
  /\ UNCHANGED <<disk, tried, signed, loaded, failures>>
  /\ Observe

\* What ssh makes of the answer: an invitation to sign, a login if the
\* signature is right, or a failed attempt.
Conclude(s) ==
  /\ pc[s] = "answered"
  /\ \/ /\ answers[s][tried[s]] = "yes"
        /\ pc' = [pc EXCEPT ![s] = IF signed[s] THEN "in" ELSE "idle"]
        /\ UNCHANGED failures
     \/ /\ answers[s][tried[s]] = "no" \/ signed[s]
        /\ Fail(s)
  /\ UNCHANGED <<disk, tried, signed, loaded, answers>>
  /\ Observe

-----------------------------------------------------------------------------
(* The MUD and the player.                                                 *)

WriteFile(fl) == file' = fl /\ UNCHANGED <<keyFile, attempt>> /\ Observe

\* The MUD saves a character, new or not, under a name of its own or in place:
\* then what is there can be read before it is finished.
Save(h) == \E text \in {"empty", "whole"} : WriteFile([hash |-> h, text |-> text])

SaveOn ==
  \/ file.text = "empty" /\ WriteFile([file EXCEPT !.text = "partial"])
  \/ file.text \in {"empty", "partial"} /\ WriteFile([file EXCEPT !.text = "whole"])

\* The MUD deletes the character; the home and its keys stay.
Delete == file # NoFile /\ WriteFile(NoFile)

\* The disk fails, and works again.
DiskFails == file.text = "whole" /\ WriteFile([file EXCEPT !.text = "unreadable"])
DiskWorks == file.text = "unreadable" /\ WriteFile([file EXCEPT !.text = "whole"])

WriteKeys(lines) == keyFile' = lines /\ UNCHANGED <<file, attempt>> /\ Observe

\* The player empties the key file, or writes on: a line is junk until it is
\* complete, and may stay so.
ClearKeys == keyFile # <<>> /\ WriteKeys(<<>>)
BeginLine == Len(keyFile) <= MaxKeyLines /\ WriteKeys(Append(keyFile, Junk))
EndLine(k) ==
  /\ keyFile # <<>>
  /\ keyFile[Len(keyFile)] = Junk
  /\ WriteKeys([keyFile EXCEPT ![Len(keyFile)] = k])

SessionStep(s) ==
  \/ \E h \in Hash : TryPassword(s, h)
  \/ LoadForPassword(s)
  \/ VerifyPassword(s)
  \/ \E k \in Key, sig \in BOOLEAN : TryKey(s, k, sig)
  \/ LoadForKey(s)
  \/ ReadKeys(s)
  \/ Conclude(s)

DiskStep ==
  \/ \E h \in Hash : Save(h)
  \/ SaveOn
  \/ Delete
  \/ DiskFails
  \/ DiskWorks
  \/ ClearKeys
  \/ BeginLine
  \/ \E k \in Key : EndLine(k)

Next == DiskStep \/ \E s \in Session : SessionStep(s)

Spec == Init /\ [][Next]_vars

-----------------------------------------------------------------------------
(* Properties.                                                             *)

TypeOK ==
  /\ file \in Files
  /\ keyFile \in KeyLines
  /\ pc \in [Session -> {"idle", "load", "verify", "loadForKey", "readKeys", "answered",
                         "in", "closed"}]
  /\ tried \in [Session -> Hash \union Key \union {NoCredential}]
  /\ signed \in [Session -> BOOLEAN]
  /\ loaded \in [Session -> [err : Reason \union {"nil"}, hash : Hash \union {"none"}]]
  /\ answers \in [Session -> [Key -> {NotAsked, "yes", "no"}]]
  /\ failures \in [Session -> 0 .. MaxAuthTries]

\* authenticator.go:25-62: whatever the MUD does to the character meanwhile, a
\* password is judged by what the file said at one moment of the attempt: it
\* logs in only if it was the character's then, and fails only if it was not.
PasswordsJudgedByOneMoment ==
  [][\A s \in Session : pc[s] = "verify" /\ pc'[s] # "verify" =>
       IF pc'[s] = "in" THEN tried[s] \in current[s] ELSE current[s] # {tried[s]}]_vars

\* README.md:91, "Keys only work while the character exists": a key that logs
\* in was listed at a time of this connection at or after one when there was a
\* character.
KeysFollowTheCharacter ==
  \A s \in Session : pc[s] = "in" /\ tried[s] \in Key => tried[s] \in held[s]

\* authorizedkeys.go:22-25 and 78-79: no other line, bad or half written, takes
\* a key away: one that has worked all the time is not refused.
GoodKeysAreAccepted ==
  \A s \in Session : \A k \in steady[s] : answers[s][k] # "no"
=============================================================================
